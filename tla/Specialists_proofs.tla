-------------------------- MODULE Specialists_proofs --------------------------
(***************************************************************************)
(* Proofs about Specialists, for any children, limits and batches: AgentInv *)
(* is inductive, and from it follow that attempts and nodes agree through  *)
(* every pause, takeover and crash, that no child outlives a pause or its  *)
(* run, and that the latest snapshot is one of the present graph.          *)
(*                                                                         *)
(* Then, each from an invariant of its own: root and children take no more *)
(* turns than the run has, what is prepared for an agent is prepared for   *)
(* its present attempt and in order, a message is read once and by an      *)
(* attempt that succeeded, and the root is told once of each attempt that  *)
(* finished or crashed.                                                    *)
(***************************************************************************)
EXTENDS Specialists, SequenceTheorems, FiniteSetTheorems,
        WellFoundedInduction, TLAPS

-----------------------------------------------------------------------------
\* What the operators on rows and on sequences of rows return.

\* The statuses of an attempt.
AttemptStatuses == {"running", "continued", "finished", "crashed", "interrupted"}

\* An attempt that is ended is a row like before, with the outcome given to it.
LEMMA EndedRows ==
  ASSUME NEW s \in Seq(AttemptRow), Len(s) > 0, NEW status \in AttemptStatuses
  PROVE  /\ Ended(s, status) \in Seq(AttemptRow)
         /\ Len(Ended(s, status)) = Len(s)
         /\ DOMAIN Ended(s, status) = DOMAIN s
         /\ \A t \in DOMAIN s :
              /\ Ended(s, status)[t].used = s[t].used
              /\ Ended(s, status)[t].status = IF t = Len(s) THEN status ELSE s[t].status
<1> DEFINE row == [s[Len(s)] EXCEPT !.status = status]
<1>1. s[Len(s)] \in AttemptRow /\ Len(s) \in 1..Len(s)
  BY ElementOfSeq, LenProperties
<1>2. row \in AttemptRow /\ row.status = status /\ row.used = s[Len(s)].used
  BY <1>1 DEF AttemptRow, AttemptStatuses
<1>3. Ended(s, status) = [s EXCEPT ![Len(s)] = row]
  BY DEF Ended
<1> HIDE DEF row
<1>4. Ended(s, status) \in Seq(AttemptRow) /\ Len(Ended(s, status)) = Len(s)
  BY <1>1, <1>2, <1>3, ExceptSeq
<1>5. DOMAIN Ended(s, status) = DOMAIN s
  BY <1>3
<1>6. \A t \in DOMAIN s : Ended(s, status)[t] = IF t = Len(s) THEN row ELSE s[t]
  BY <1>3
<1> QED BY <1>2, <1>4, <1>5, <1>6

\* An attempt that ends takes its child out of work and leaves the counters.
LEMMA EndMatches ==
  ASSUME NEW r, NEW r2, NEW s \in Seq(AttemptRow), NEW status \in AttemptStatuses,
         Matches(r, s), r.status = "running", status # "running",
         r2.turns = r.turns, r2.tokens = r.tokens, r2.active = 0,
         r2.status \notin {"running", "absent"}, r2.status = "completed" => status = "finished"
  PROVE  Matches(r2, Ended(s, status))
<1>1. Len(s) > 0
  BY DEF Matches
<1> DEFINE e == Ended(s, status)
<1>2. /\ Len(e) = Len(s) /\ DOMAIN e = DOMAIN s
      /\ \A t \in DOMAIN s : /\ e[t].used = s[t].used
                             /\ e[t].status = IF t = Len(s) THEN status ELSE s[t].status
  BY <1>1, EndedRows
<1> HIDE DEF e
<1>3. {t \in DOMAIN e : e[t].used} = {t \in DOMAIN s : s[t].used}
  BY <1>2
<1>4. Len(s) \in DOMAIN s
  BY <1>1, LenProperties
<1>5. \A t \in DOMAIN e : e[t].status # "running"
  BY <1>2 DEF Matches
<1> QED BY <1>1, <1>2, <1>3, <1>4, <1>5 DEF Matches, e

\* A child that does not work keeps its attempts whatever else its row says.
LEMMA IdleMatches ==
  ASSUME NEW r, NEW r2, NEW s, Matches(r, s), r.status # "running",
         r2.turns = r.turns, r2.tokens = r.tokens, r2.active = 0, r2.status # "running",
         r2.status \in {"completed", "absent"} => r.status = r2.status
  PROVE  Matches(r2, s)
BY DEF Matches

\* A child that begins an attempt and its attempts match.
LEMMA BegunMatches ==
  ASSUME NEW r, NEW r2, NEW s \in Seq(AttemptRow), NEW gen \in Nat,
         Matches(r, s), r.status # "running",
         r2.turns = r.turns + 1, r2.tokens = r.tokens, r2.active = r.turns + 1,
         r2.status = "running"
  PROVE  LET row == [status |-> "running", gen |-> gen, briefed |-> FALSE, used |-> FALSE]
         IN  Append(s, row) \in Seq(AttemptRow) /\ Matches(r2, Append(s, row))
<1> DEFINE row == [status |-> "running", gen |-> gen, briefed |-> FALSE, used |-> FALSE]
           e == Append(s, row)
<1>1. row \in AttemptRow /\ row.status = "running" /\ ~row.used
  BY DEF AttemptRow
<1> HIDE DEF row
<1>2. /\ e \in Seq(AttemptRow) /\ Len(e) = Len(s) + 1 /\ Len(s) \in Nat
      /\ DOMAIN e = 1..(Len(s) + 1) /\ DOMAIN s = 1..Len(s)
      /\ \A t \in 1..Len(s) : e[t] = s[t]
      /\ e[Len(s) + 1] = row
  BY <1>1, AppendProperties, LenProperties
<1> HIDE DEF e
<1>3. {t \in DOMAIN e : e[t].used} = {t \in DOMAIN s : s[t].used}
  BY <1>1, <1>2
<1>4. \A t \in 1..Len(s) : s[t].status # "running"
  BY <1>2 DEF Matches
<1>5. \A t \in 1..(Len(s) + 1) : e[t].status = "running" <=> t = Len(s) + 1
  <2> TAKE t \in 1..(Len(s) + 1)
  <2>1. CASE t = Len(s) + 1
    BY <1>1, <1>2, <2>1
  <2>2. CASE t # Len(s) + 1
    <3>1. t \in 1..Len(s)
      BY <1>2, <2>2
    <3> QED BY <1>2, <1>4, <2>2, <3>1
  <2> QED BY <2>1, <2>2
<1>6. r2.turns = Len(s) + 1
  BY DEF Matches
<1>7. r2.active = Len(s) + 1
  BY DEF Matches
<1>8. r2.tokens = Cardinality({t \in DOMAIN e : e[t].used})
  BY <1>3 DEF Matches
<1>9. Matches(r2, e)
  BY <1>2, <1>5, <1>6, <1>7, <1>8 DEF Matches
<1> QED BY <1>2, <1>9 DEF e, row

\* Recording a model call counts one more used attempt.
LEMMA UsedMatches ==
  ASSUME NEW r, NEW r2, NEW s \in Seq(AttemptRow), Matches(r, s), r.status = "running",
         r.tokens \in Nat, ~s[Len(s)].used,
         r2.turns = r.turns, r2.active = r.active, r2.status = r.status,
         r2.tokens = r.tokens + 1
  PROVE  LET e == [s EXCEPT ![Len(s)].used = TRUE]
         IN  e \in Seq(AttemptRow) /\ Matches(r2, e)
<1> DEFINE n == Len(s)
           row == [s[n] EXCEPT !.used = TRUE]
           e == [s EXCEPT ![n].used = TRUE]
<1>1. n \in Nat /\ n > 0 /\ DOMAIN s = 1..n /\ s[n] \in AttemptRow
  BY LenProperties, ElementOfSeq DEF Matches
<1>2. row \in AttemptRow /\ row.used /\ row.status = s[n].status
  BY <1>1 DEF AttemptRow
<1>3. e = [s EXCEPT ![n] = row]
  OBVIOUS
<1> HIDE DEF row, e
<1>4. e \in Seq(AttemptRow) /\ Len(e) = n /\ DOMAIN e = 1..n
  BY <1>1, <1>2, <1>3, ExceptSeq
<1>5. \A t \in 1..n : e[t] = IF t = n THEN row ELSE s[t]
  BY <1>1, <1>3
<1> DEFINE U == {t \in DOMAIN s : s[t].used}
<1>6. {t \in DOMAIN e : e[t].used} = U \cup {n} /\ n \notin U
  <2>1. e[n].used
    <3>1. n \in 1..n
      BY <1>1
    <3> QED BY <3>1, <1>2, <1>5, Zenon
  <2>2. \A t \in 1..n : t # n => e[t].used = s[t].used
    BY <1>5
  <2>3. n \in 1..n
    BY <1>1
  <2>4. n \notin U
    OBVIOUS
  <2>5. \A t \in 1..n : t # n => (e[t].used <=> s[t].used)
    BY <2>2, Zenon
  <2>6. {t \in 1..n : e[t].used} = {t \in 1..n : s[t].used} \cup {n}
    BY <2>1, <2>3, <2>5, Zenon
  <2> QED BY <1>1, <1>4, <2>4, <2>6, Zenon
<1>7. IsFiniteSet(U)
  <2>1. IsFiniteSet(1..n)
    BY <1>1, FS_Interval
  <2>2. U \subseteq 1..n
    BY <1>1
  <2> QED BY <2>1, <2>2, FS_Subset
<1>8. Cardinality(U) = r.tokens
  BY DEF Matches
<1> HIDE DEF U
<1>9. Cardinality(U \cup {n}) = Cardinality(U) + 1
  BY <1>6, <1>7, FS_AddElement
<1>10. r2.tokens = Cardinality({t \in DOMAIN e : e[t].used})
  BY <1>6, <1>8, <1>9
<1>11. \A t \in DOMAIN e : e[t].status = "running" <=> t = n
  BY <1>1, <1>2, <1>4, <1>5 DEF Matches
<1>12. Matches(r2, e)
  BY <1>1, <1>4, <1>10, <1>11 DEF Matches
<1> QED BY <1>4, <1>12 DEF e

\* A child whose context is prepared and its attempts match as well.
LEMMA BriefedMatches ==
  ASSUME NEW r, NEW s \in Seq(AttemptRow), Matches(r, s), r.status = "running"
  PROVE  LET e == [s EXCEPT ![Len(s)].briefed = TRUE]
         IN  e \in Seq(AttemptRow) /\ Matches(r, e)
<1> DEFINE n == Len(s)
           row == [s[n] EXCEPT !.briefed = TRUE]
           e == [s EXCEPT ![n].briefed = TRUE]
<1>1. n \in Nat /\ n > 0 /\ DOMAIN s = 1..n /\ s[n] \in AttemptRow
  BY LenProperties, ElementOfSeq DEF Matches
<1>2. row \in AttemptRow /\ row.used = s[n].used /\ row.status = s[n].status
  BY <1>1 DEF AttemptRow
<1>3. e = [s EXCEPT ![n] = row]
  OBVIOUS
<1> HIDE DEF row, e
<1>4. e \in Seq(AttemptRow) /\ Len(e) = n /\ DOMAIN e = 1..n
  BY <1>1, <1>2, <1>3, ExceptSeq
<1>5. \A t \in 1..n : e[t] = IF t = n THEN row ELSE s[t]
  BY <1>1, <1>3
<1>6. {t \in DOMAIN e : e[t].used} = {t \in DOMAIN s : s[t].used}
  BY <1>1, <1>2, <1>4, <1>5
<1>7. \A t \in DOMAIN e : e[t].status = "running" <=> t = n
  BY <1>1, <1>2, <1>4, <1>5 DEF Matches
<1>8. Matches(r, e)
  BY <1>1, <1>4, <1>6, <1>7 DEF Matches
<1> QED BY <1>4, <1>8 DEF e

-----------------------------------------------------------------------------
\* The inductive invariant.  The run has been started; a root that is ready
\* has no turn; only a root that works has messages prepared for it.
RunStarted == run \notin {"created", "preparing"}

\* A ready root has started no turn.
ReadyHasNoTurn == root.status = "ready" => cp.phase # "turn_started"

\* What is prepared for the root is prepared while its turn runs.
PreparedRootWorks ==
  \A d \in deliveries : d.to = Root /\ d.status = "prepared" => root.status = "running"

\* The inductive invariant.
AgentInv ==
  /\ TypeOK /\ RunStarted /\ ReadyHasNoTurn /\ PreparedRootWorks
  /\ AttemptsMatchNodes /\ ChildrenEndWithRun
  /\ PausedIsQuiet /\ NoneLeftPaused
  /\ SnapshotCurrent

-----------------------------------------------------------------------------
\* What a status of the run makes of one child, its session and its attempts.

\* A child follows its run's status.
Follows(r, q, to, status) ==
  /\ q \in ChildRow /\ q.session = SessionFor(q.status)
  /\ q.turns = r.turns /\ q.tokens = r.tokens
  /\ to \in TerminalRun => q.status \in AgentEnded \cup {"absent"}
  /\ to = "paused" => q.status \notin {"ready", "running"}
  /\ to = "running" /\ status = "ready" /\ q.status = "waiting" => q.held = FALSE
  /\ q.status # r.status /\ r.status = "running" => to # "running"
  /\ q.status = "running" => r.status = "running"
  /\ q.status \in {"completed", "absent"} => r.status = q.status
  /\ \/ q = r
     \/ q.status # "running" /\ q.active = 0
     \/ q.status = "ready" /\ r.status = "waiting" /\ q.active = r.active

\* What a run's status makes of a child follows it.
LEMMA ProjectedFollows ==
  ASSUME NEW r \in ChildRow, NEW to \in RunStatuses, NEW status,
         r.session = SessionFor(r.status)
  PROVE  Follows(r, Projected(r, to, status), to, status)
<1> DEFINE q == Projected(r, to, status)
<1>0. /\ r.status \in AgentStatuses \cup {"absent"} /\ r.held \in BOOLEAN /\ r.active \in Nat
      /\ r.turns \in Nat /\ r.limit \in Nat /\ r.tokens \in Nat
  BY DEF ChildRow
<1>1. CASE r.status \in AgentEnded \cup {"absent"}
  BY <1>1 DEF Follows, Projected, AgentEnded
<1>2. CASE r.status \notin AgentEnded \cup {"absent"} /\ Stops(to, r)
  <2>1. q = [r EXCEPT !.status = "waiting", !.held = TRUE, !.active = 0]
    BY <1>2 DEF Projected
  <2> HIDE DEF q
  <2>2. to \in {"paused", "waiting_approval"} /\ r.status \in {"ready", "running"}
    BY <1>2 DEF Stops
  <2>3. q \in ChildRow /\ q.status = "waiting" /\ q.active = 0 /\ q.session = r.session
        /\ q.turns = r.turns /\ q.tokens = r.tokens
    BY <2>1 DEF ChildRow, AgentStatuses
  <2>4. q.session = SessionFor(q.status)
    BY <2>2, <2>3 DEF SessionFor, AgentEnded
  <2>5. to \notin TerminalRun
    BY <2>2 DEF TerminalRun
  <2> QED BY <2>2, <2>3, <2>4, <2>5 DEF Follows, q
<1>3. CASE r.status \notin AgentEnded \cup {"absent"} /\ ~Stops(to, r) /\ Resumes(to, status, r)
  <2>1. q = [r EXCEPT !.status = "ready", !.held = FALSE]
    BY <1>3 DEF Projected
  <2> HIDE DEF q
  <2>2. to = "running" /\ r.status = "waiting"
    BY <1>3 DEF Resumes
  <2>3. q \in ChildRow /\ q.status = "ready" /\ q.active = r.active /\ q.session = r.session
        /\ q.turns = r.turns /\ q.tokens = r.tokens
    BY <2>1 DEF ChildRow, AgentStatuses
  <2>4. q.session = SessionFor(q.status)
    BY <2>2, <2>3 DEF SessionFor, AgentEnded
  <2>5. to \notin TerminalRun
    BY <2>2 DEF TerminalRun
  <2> QED BY <2>2, <2>3, <2>4, <2>5 DEF Follows, q
<1>4. CASE /\ r.status \notin AgentEnded \cup {"absent"} /\ ~Stops(to, r)
           /\ ~Resumes(to, status, r) /\ to \in TerminalRun
  <2>1. q = Closed(to, r)
    BY <1>4 DEF Projected
  <2> HIDE DEF q
  <2>2. q \in ChildRow /\ q.status \in {"failed", "cancelled"} /\ q.active = 0
        /\ q.session = "archived" /\ q.turns = r.turns /\ q.tokens = r.tokens
    BY <2>1 DEF Closed, ChildRow, AgentStatuses
  <2>3. q.session = SessionFor(q.status)
    BY <2>2 DEF SessionFor, AgentEnded
  <2>4. to \notin {"paused", "running"} /\ q.status \in AgentEnded
    BY <1>4, <2>2 DEF TerminalRun, AgentEnded
  <2>5. q.status \notin {"completed", "running", "waiting"}
    BY <2>2
  <2> QED BY <2>2, <2>3, <2>4, <2>5 DEF Follows, q
<1>5. CASE /\ r.status \notin AgentEnded \cup {"absent"} /\ ~Stops(to, r)
           /\ ~Resumes(to, status, r) /\ to \notin TerminalRun
  <2>1. q = r
    BY <1>5 DEF Projected
  <2>2. to = "paused" => q.status \notin {"ready", "running"}
    BY <1>5, <2>1 DEF Stops
  <2>3. to = "running" /\ status = "ready" /\ q.status = "waiting" => q.held = FALSE
    <3>1. SUFFICES ASSUME to = "running", status = "ready", r.status = "waiting"
                   PROVE  r.held = FALSE
      BY <2>1
    <3>2. ~r.held
      BY <1>5, <3>1 DEF Resumes
    <3> QED BY <1>0, <3>2, Zenon
  <2> HIDE DEF q
  <2> QED BY <1>5, <2>1, <2>2, <2>3 DEF Follows, q
<1> QED BY <1>1, <1>2, <1>3, <1>4, <1>5

\* And it matches what becomes of the child's attempts.
LEMMA ProjectedMatches ==
  ASSUME NEW r \in ChildRow, NEW s \in Seq(AttemptRow), NEW to \in RunStatuses, NEW status,
         Matches(r, s), r.session = SessionFor(r.status), NEW q, Follows(r, q, to, status)
  PROVE  Matches(q, IF r.status = "running" /\ q.status # "running"
                    THEN Ended(s, "interrupted") ELSE s)
<1>1. /\ q.turns = r.turns /\ q.tokens = r.tokens
      /\ q.status = "running" => r.status = "running"
      /\ q.status \in {"completed", "absent"} => r.status = q.status
      /\ \/ q = r
         \/ q.status # "running" /\ q.active = 0
         \/ q.status = "ready" /\ r.status = "waiting" /\ q.active = r.active
  BY DEF Follows
<1>2. r.status # "running" => r.active = 0
  BY DEF Matches
<1>3. CASE r.status = "running" /\ q.status # "running"
  <2>1. q.active = 0
    BY <1>1, <1>3
  <2>2. q.status \notin {"completed", "absent"}
    BY <1>1, <1>3
  <2>3. "interrupted" \in AttemptStatuses
    BY DEF AttemptStatuses
  <2>4. Matches(q, Ended(s, "interrupted"))
    BY <1>1, <1>3, <2>1, <2>2, <2>3, EndMatches
  <2> QED BY <1>3, <2>4
<1>4. CASE r.status = "running" /\ q.status = "running"
  BY <1>1, <1>4
<1>5. CASE r.status # "running"
  <2>1. q.active = 0 /\ q.status # "running"
    BY <1>1, <1>2, <1>5
  <2>2. Matches(q, s)
    BY <1>1, <1>5, <2>1, IdleMatches
  <2> QED BY <1>5, <2>2
<1> QED BY <1>3, <1>4, <1>5

-----------------------------------------------------------------------------
\* The children under a status of the run.

\* The part of the invariant that is about children.
ChildGroup ==
  /\ child \in [Children -> ChildRow] /\ attempt \in [Children -> Seq(AttemptRow)]
  /\ AttemptsMatchNodes /\ ChildrenEndWithRun /\ PausedIsQuiet

\* An attempt that this step ends with a status that the run was moved to.
OnlyInterrupts ==
  \A c \in Children : \A t \in DOMAIN attempt[c] :
    attempt[c][t].status = "running" =>
      \/ attempt'[c][t].status = "running"
      \/ attempt'[c][t].status = "interrupted" /\ run' # "running"

\* syncSpecialistLifecycleTx keeps it.
LEMMA SyncChildren ==
  ASSUME ChildGroup, NEW to \in RunStatuses, NEW status, run' = to,
         child' = [c \in Children |-> Projected(child[c], to, status)],
         attempt' = [c \in Children |-> IF c \in Interrupted(to, status)
                                        THEN Ended(attempt[c], "interrupted") ELSE attempt[c]]
  PROVE  /\ ChildGroup'
         /\ OnlyInterrupts
         /\ \A c \in Children : child'[c] = child[c] => c \notin Interrupted(to, status)
         /\ to = "running" /\ status = "ready" =>
              \A c \in Children : child'[c].status = "waiting" => child'[c].held = FALSE
<1>1. ASSUME NEW c \in Children
      PROVE  /\ child'[c] \in ChildRow
             /\ Follows(child[c], child'[c], to, status)
             /\ attempt[c] \in Seq(AttemptRow)
             /\ Matches(child[c], attempt[c])
             /\ Len(attempt[c]) > 0 \/ child[c].status # "running"
             /\ c \in Interrupted(to, status)
                  <=> child[c].status = "running" /\ child'[c].status # "running"
             /\ attempt'[c] = IF child[c].status = "running" /\ child'[c].status # "running"
                              THEN Ended(attempt[c], "interrupted") ELSE attempt[c]
             /\ attempt'[c] \in Seq(AttemptRow)
             /\ Matches(child'[c], attempt'[c])
  <2>1. child[c] \in ChildRow /\ child[c].session = SessionFor(child[c].status)
        /\ attempt[c] \in Seq(AttemptRow) /\ Matches(child[c], attempt[c])
    BY DEF ChildGroup, AttemptsMatchNodes, ChildrenEndWithRun
  <2>2. child'[c] = Projected(child[c], to, status)
    OBVIOUS
  <2>3. Follows(child[c], child'[c], to, status)
    BY <2>1, <2>2, ProjectedFollows
  <2>4. c \in Interrupted(to, status)
          <=> child[c].status = "running" /\ child'[c].status # "running"
    BY <2>2 DEF Interrupted
  <2>5. attempt'[c] = IF child[c].status = "running" /\ child'[c].status # "running"
                      THEN Ended(attempt[c], "interrupted") ELSE attempt[c]
    BY <2>4
  <2>6. Matches(child'[c], attempt'[c])
    BY <2>1, <2>3, <2>5, ProjectedMatches
  <2>7. Len(attempt[c]) > 0 \/ child[c].status # "running"
    BY <2>1 DEF Matches
  <2>8. "interrupted" \in AttemptStatuses
    BY DEF AttemptStatuses
  <2>9. attempt'[c] \in Seq(AttemptRow)
    BY <2>1, <2>5, <2>7, <2>8, EndedRows
  <2>10. child'[c] \in ChildRow
    BY <2>3 DEF Follows
  <2> QED BY <2>1, <2>3, <2>4, <2>5, <2>6, <2>7, <2>9, <2>10
<1>2. child' \in [Children -> ChildRow] /\ attempt' \in [Children -> Seq(AttemptRow)]
  BY <1>1
<1>3. AttemptsMatchNodes'
  BY <1>1 DEF AttemptsMatchNodes
<1>4. ChildrenEndWithRun'
  BY <1>1 DEF ChildrenEndWithRun, Follows
<1>5. PausedIsQuiet'
  BY <1>1 DEF PausedIsQuiet, Follows
<1>6. OnlyInterrupts
  <2> SUFFICES ASSUME NEW c \in Children, NEW t \in DOMAIN attempt[c],
                      attempt[c][t].status = "running", attempt'[c][t].status # "running"
               PROVE  attempt'[c][t].status = "interrupted" /\ run' # "running"
    BY DEF OnlyInterrupts
  <2>1. child[c].status = "running" /\ child'[c].status # "running"
        /\ attempt'[c] = Ended(attempt[c], "interrupted")
    BY <1>1
  <2>2. Len(attempt[c]) > 0 /\ t = Len(attempt[c])
    <3>1. Matches(child[c], attempt[c])
      BY <1>1
    <3>2. Len(attempt[c]) > 0
      BY <2>1, <3>1 DEF Matches
    <3>3. \A u \in DOMAIN attempt[c] : attempt[c][u].status = "running" => u = Len(attempt[c])
      BY <3>1 DEF Matches
    <3> QED BY <3>2, <3>3
  <2>3. "interrupted" \in AttemptStatuses
    BY DEF AttemptStatuses
  <2>4. attempt'[c][t].status = "interrupted"
    <3>1. attempt[c] \in Seq(AttemptRow)
      BY <1>1
    <3>2. \A u \in DOMAIN attempt[c] :
            Ended(attempt[c], "interrupted")[u].status
              = IF u = Len(attempt[c]) THEN "interrupted" ELSE attempt[c][u].status
      BY <3>1, <2>2, <2>3, EndedRows
    <3> QED BY <2>1, <2>2, <3>2
  <2>5. to # "running"
    BY <1>1, <2>1 DEF Follows
  <2> QED BY <2>4, <2>5
<1>7. \A c \in Children : child'[c] = child[c] => c \notin Interrupted(to, status)
  BY <1>1
<1>8. to = "running" /\ status = "ready" =>
        \A c \in Children : child'[c].status = "waiting" => child'[c].held = FALSE
  BY <1>1 DEF Follows
<1> QED BY <1>2, <1>3, <1>4, <1>5, <1>6, <1>7, <1>8 DEF ChildGroup

\* A step of one child of a run that is running.
LEMMA OneChild ==
  ASSUME ChildGroup, NEW c \in Children, NEW r \in ChildRow, NEW s \in Seq(AttemptRow),
         Matches(r, s), r.session = SessionFor(r.status),
         run = "running", run' = run,
         child' = [child EXCEPT ![c] = r], attempt' = [attempt EXCEPT ![c] = s]
  PROVE  ChildGroup'
<1>1. child' \in [Children -> ChildRow] /\ attempt' \in [Children -> Seq(AttemptRow)]
  BY DEF ChildGroup
<1>2. \A d \in Children : /\ child'[d] = IF d = c THEN r ELSE child[d]
                          /\ attempt'[d] = IF d = c THEN s ELSE attempt[d]
  BY DEF ChildGroup
<1>3. AttemptsMatchNodes'
  BY <1>2 DEF ChildGroup, AttemptsMatchNodes
<1>4. run' \notin TerminalRun /\ run' # "paused"
  BY DEF TerminalRun
<1>5. ChildrenEndWithRun'
  BY <1>2, <1>4 DEF ChildGroup, ChildrenEndWithRun
<1>6. PausedIsQuiet'
  BY <1>4 DEF PausedIsQuiet
<1> QED BY <1>1, <1>3, <1>5, <1>6 DEF ChildGroup

\* A child that crashed and its attempts.
LEMMA CrashedRow ==
  ASSUME NEW r \in ChildRow, r.status = "running", r.session = SessionFor(r.status)
  PROVE  /\ Crashed(r) \in ChildRow
         /\ Crashed(r).session = SessionFor(Crashed(r).status)
         /\ Crashed(r).status \in {"ready", "failed"} /\ Crashed(r).active = 0
         /\ Crashed(r).turns = r.turns /\ Crashed(r).tokens = r.tokens
<1> DEFINE q == Crashed(r)
<1>1. CASE HasBudget(r)
  <2>1. q = [r EXCEPT !.status = "ready", !.active = 0]
    BY <1>1 DEF Crashed
  <2> HIDE DEF q
  <2>2. /\ q \in ChildRow /\ q.status = "ready" /\ q.active = 0 /\ q.session = r.session
        /\ q.turns = r.turns /\ q.tokens = r.tokens
    BY <2>1 DEF ChildRow, AgentStatuses
  <2>3. q.session = SessionFor(q.status)
    BY <2>2 DEF SessionFor, AgentEnded
  <2> QED BY <2>2, <2>3 DEF q
<1>2. CASE ~HasBudget(r)
  <2>1. q = [r EXCEPT !.status = "failed", !.active = 0, !.session = "archived"]
    BY <1>2 DEF Crashed
  <2> HIDE DEF q
  <2>2. /\ q \in ChildRow /\ q.status = "failed" /\ q.active = 0 /\ q.session = "archived"
        /\ q.turns = r.turns /\ q.tokens = r.tokens
    BY <2>1 DEF ChildRow, AgentStatuses
  <2>3. q.session = SessionFor(q.status)
    BY <2>2 DEF SessionFor, AgentEnded
  <2> QED BY <2>2, <2>3 DEF q
<1> QED BY <1>1, <1>2

\* What this step makes of the attempts that are running, as the property says.
OutcomeStep ==
  \A c \in Children : \A t \in DOMAIN attempt[c] :
    attempt[c][t].status = "running" =>
      CASE attempt'[c][t].status \in {"continued", "finished"} ->
             lease.live /\ lease.gen = attempt[c][t].gen
        [] attempt'[c][t].status = "crashed" -> lease.live /\ run = "running"
        [] attempt'[c][t].status = "interrupted" -> run' # "running"
        [] OTHER -> TRUE

\* A run that leaves running may interrupt attempts.
LEMMA InterruptsAreOutcomes == OnlyInterrupts => OutcomeStep
BY DEF OnlyInterrupts, OutcomeStep

\* A running attempt is its child's last.
LEMMA RunningIsLast ==
  ASSUME NEW r, NEW s, Matches(r, s), NEW t \in DOMAIN s, s[t].status = "running"
  PROVE  r.status = "running" /\ t = Len(s) /\ Len(s) > 0
<1>1. \A u \in DOMAIN s : s[u].status = "running" => r.status = "running" /\ u = Len(s)
  BY DEF Matches
<1>2. r.status = "running" => Len(s) > 0
  BY DEF Matches
<1> QED BY <1>1, <1>2

\* The crashes that a recovery records keep the children's part.
LEMMA CrashChildren ==
  ASSUME ChildGroup, run = "running", run' = run, lease.live,
         NEW s, CrashAll(s)
  PROVE  /\ ChildGroup' /\ OutcomeStep
         /\ \A c \in Children : child'[c].status = "waiting" => child'[c] = child[c]
<1>1. ASSUME NEW c \in Children
      PROVE  /\ child'[c] \in ChildRow /\ attempt'[c] \in Seq(AttemptRow)
             /\ Matches(child'[c], attempt'[c])
             /\ child'[c].session = SessionFor(child'[c].status)
             /\ child'[c].status = "waiting" => child'[c] = child[c]
             /\ \A t \in DOMAIN attempt[c] :
                  attempt'[c][t].status = attempt[c][t].status
                    \/ attempt'[c][t].status = "crashed"
  <2>1. child[c] \in ChildRow /\ child[c].session = SessionFor(child[c].status)
        /\ attempt[c] \in Seq(AttemptRow) /\ Matches(child[c], attempt[c])
    BY DEF ChildGroup, AttemptsMatchNodes, ChildrenEndWithRun
  <2>2. CASE c \in ToSet(s)
    <3>1. child[c].status = "running" /\ child'[c] = Crashed(child[c])
          /\ attempt'[c] = Ended(attempt[c], "crashed")
      BY <2>2 DEF CrashAll
    <3>2. /\ child'[c] \in ChildRow /\ child'[c].session = SessionFor(child'[c].status)
          /\ child'[c].status \in {"ready", "failed"} /\ child'[c].active = 0
          /\ child'[c].turns = child[c].turns /\ child'[c].tokens = child[c].tokens
      BY <2>1, <3>1, CrashedRow
    <3>3. "crashed" \in AttemptStatuses
      BY DEF AttemptStatuses
    <3>4. Len(attempt[c]) > 0
      BY <2>1, <3>1 DEF Matches
    <3>5. /\ attempt'[c] \in Seq(AttemptRow)
          /\ \A t \in DOMAIN attempt[c] :
               attempt'[c][t].status = IF t = Len(attempt[c]) THEN "crashed"
                                       ELSE attempt[c][t].status
      BY <2>1, <3>1, <3>3, <3>4, EndedRows
    <3>6. Matches(child'[c], attempt'[c])
      BY <2>1, <3>1, <3>2, <3>3, EndMatches
    <3> QED BY <3>2, <3>5, <3>6
  <2>3. CASE c \notin ToSet(s)
    <3>1. child'[c] = child[c] /\ attempt'[c] = attempt[c]
      BY <2>3 DEF CrashAll
    <3> QED BY <2>1, <3>1
  <2> QED BY <2>2, <2>3
<1>2. child' = [c \in Children |-> child'[c]] /\ attempt' = [c \in Children |-> attempt'[c]]
  BY DEF CrashAll
<1>3. child' \in [Children -> ChildRow] /\ attempt' \in [Children -> Seq(AttemptRow)]
  BY <1>1, <1>2
<1>4. AttemptsMatchNodes'
  BY <1>1 DEF AttemptsMatchNodes
<1>5. run' \notin TerminalRun /\ run' # "paused"
  BY DEF TerminalRun
<1>6. ChildrenEndWithRun' /\ PausedIsQuiet'
  BY <1>1, <1>5 DEF ChildrenEndWithRun, PausedIsQuiet
<1>7. OutcomeStep
  BY <1>1 DEF OutcomeStep
<1> QED BY <1>1, <1>3, <1>4, <1>6, <1>7 DEF ChildGroup

-----------------------------------------------------------------------------
\* The messages that lose their attempt.

\* Superseding leaves rows of deliveries.
LEMMA SupersededRows ==
  ASSUME NEW D, D \subseteq Delivery, NEW S
  PROVE  /\ Superseded(D, S) \subseteq Delivery
         /\ \A d \in Superseded(D, S) : d.status = "prepared" => d \in D /\ d.to \notin S
<1> SUFFICES ASSUME NEW d \in Superseded(D, S)
             PROVE  d \in Delivery /\ (d.status = "prepared" => d \in D /\ d.to \notin S)
  OBVIOUS
<1>1. PICK e \in D : d = IF e.to \in S /\ e.status = "prepared"
                         THEN [e EXCEPT !.status = "superseded"] ELSE e
  BY DEF Superseded
<1>2. e \in Delivery
  OBVIOUS
<1>3. CASE e.to \in S /\ e.status = "prepared"
  <2>1. d = [e EXCEPT !.status = "superseded"]
    BY <1>1, <1>3
  <2>2. d \in Delivery /\ d.status = "superseded"
    BY <1>2, <2>1 DEF Delivery
  <2> QED BY <2>2
<1>4. CASE ~(e.to \in S /\ e.status = "prepared")
  BY <1>1, <1>2, <1>4
<1> QED BY <1>3, <1>4

\* And all of them as they are, where nothing is prepared.
LEMMA NothingSuperseded ==
  ASSUME NEW D, NEW S, \A d \in D : d.to \in S => d.status # "prepared"
  PROVE  Superseded(D, S) = D
<1>1. \A d \in D : (IF d.to \in S /\ d.status = "prepared"
                    THEN [d EXCEPT !.status = "superseded"] ELSE d) = d
  OBVIOUS
<1> QED BY <1>1 DEF Superseded

\* Committing leaves rows of deliveries.
LEMMA CommittedRows ==
  ASSUME deliveries \subseteq Delivery, NEW a
  PROVE  /\ Committed(a) \subseteq Delivery
         /\ \A d \in Committed(a) : d.status = "prepared" => d \in deliveries
<1> SUFFICES ASSUME NEW d \in Committed(a)
             PROVE  d \in Delivery /\ (d.status = "prepared" => d \in deliveries)
  OBVIOUS
<1>1. PICK e \in deliveries : d = IF e \in Given(a) THEN [e EXCEPT !.status = "committed"] ELSE e
  BY DEF Committed
<1>2. e \in Delivery
  OBVIOUS
<1>3. CASE e \in Given(a)
  <2>1. d = [e EXCEPT !.status = "committed"]
    BY <1>1, <1>3
  <2>2. d \in Delivery /\ d.status = "committed"
    BY <1>2, <2>1 DEF Delivery
  <2> QED BY <2>2
<1>4. CASE e \notin Given(a)
  BY <1>1, <1>2, <1>4
<1> QED BY <1>3, <1>4

\* A new batch consists of rows of deliveries.
LEMMA NewRowsType ==
  ASSUME NEW a \in Agents, NEW n \in Nat, inbox[a] \in Seq(MessageRow)
  PROVE  /\ NewRows(a, n) \subseteq Delivery
         /\ \A d \in NewRows(a, n) : d.to = a
<1> SUFFICES ASSUME NEW d \in NewRows(a, n) PROVE d \in Delivery /\ d.to = a
  OBVIOUS
<1>1. PICK i \in Eligible(a) :
        d = [to |-> a, attempt |-> n, seq |-> i,
             ordinal |-> Cardinality({j \in Eligible(a) : j <= i}), status |-> "prepared"]
  BY DEF NewRows
<1>2. Eligible(a) \subseteq 1..Len(inbox[a]) /\ Len(inbox[a]) \in Nat
  BY LenProperties DEF Eligible, Unread
<1>3. IsFiniteSet({j \in Eligible(a) : j <= i})
  <2>1. IsFiniteSet(1..Len(inbox[a]))
    BY <1>2, FS_Interval
  <2>2. {j \in Eligible(a) : j <= i} \subseteq 1..Len(inbox[a])
    BY <1>2
  <2> QED BY <2>1, <2>2, FS_Subset
<1>4. Cardinality({j \in Eligible(a) : j <= i}) \in Nat
  BY <1>3, FS_CardinalityType
<1>5. i \in Nat
  BY <1>2
<1> QED BY <1>1, <1>4, <1>5 DEF Delivery

-----------------------------------------------------------------------------
\* The invariant, without the snapshot, and what a step owes it.

\* The invariant without the snapshot, which the steps keep by another argument.
Core ==
  /\ TypeOK /\ RunStarted /\ ReadyHasNoTurn /\ PreparedRootWorks
  /\ AttemptsMatchNodes /\ ChildrenEndWithRun
  /\ PausedIsQuiet /\ NoneLeftPaused

\* Its parts.
LEMMA CoreParts == Core <=> /\ TypeOK /\ RunStarted /\ ReadyHasNoTurn /\ PreparedRootWorks
                            /\ ChildGroup /\ NoneLeftPaused
BY DEF Core, ChildGroup, TypeOK

\* A projection of the supervisor keeps it.
LEMMA SyncStep ==
  ASSUME Core, NEW to \in RunStatuses, NEW status \in AgentStatuses, NEW new \in Checkpoint,
         NEW D, D \subseteq Delivery, \A d \in D : d.status = "prepared" => d \in deliveries,
         run' = to, to \notin {"created", "preparing"}, cp' = new,
         status = "ready" => new.phase # "turn_started",
         lease' \in [gen : Nat, live : BOOLEAN],
         inbox' \in [Agents -> Seq(MessageRow)],
         \A a \in Agents : Len(inbox'[a]) <= HistoryLimit,
         Sync(to, status, new, D)
  PROVE  Core' /\ OutcomeStep
<1>1. ChildGroup
  BY CoreParts
<1>2. /\ child' = [c \in Children |-> Projected(child[c], to, status)]
      /\ attempt' = [c \in Children |-> IF c \in Interrupted(to, status)
                                        THEN Ended(attempt[c], "interrupted") ELSE attempt[c]]
  BY DEF Sync
<1>3. /\ ChildGroup' /\ OnlyInterrupts
      /\ to = "running" /\ status = "ready" =>
           \A c \in Children : child'[c].status = "waiting" => child'[c].held = FALSE
  BY <1>1, <1>2, SyncChildren
<1>4. root'.status = status
  BY DEF Sync
<1>5. root' \in RootRow
  <2>1. new.turn - 1 \in Nat /\ new.attempt \in Nat
    BY DEF Checkpoint
  <2> QED BY <2>1 DEF Sync, RootRow
<1>6. deliveries' = Superseded(D, Losing(to, status))
  BY DEF Sync
<1>7. deliveries' \subseteq Delivery
  BY <1>6, SupersededRows
<1>8. PreparedRootWorks'
  <2> SUFFICES ASSUME NEW d \in deliveries', d.to = Root, d.status = "prepared",
                      status # "running"
               PROVE  FALSE
    BY <1>4 DEF PreparedRootWorks
  <2>1. Root \in Losing(to, status)
    BY DEF Losing
  <2> QED BY <1>6, <2>1, SupersededRows
<1>9. NoneLeftPaused'
  BY <1>3, <1>4 DEF NoneLeftPaused
<1>10. ReadyHasNoTurn' /\ RunStarted'
  BY <1>4 DEF ReadyHasNoTurn, RunStarted
<1>11. TypeOK'
  BY <1>3, <1>5, <1>7 DEF ChildGroup, TypeOK
<1>12. Core'
  BY <1>3, <1>8, <1>9, <1>10, <1>11 DEF Core, ChildGroup
<1>13. OutcomeStep
  BY <1>3, InterruptsAreOutcomes
<1> QED BY <1>12, <1>13

\* What is saved when only the deliveries of a root that stops working change:
\* nothing, unless a node has changed.
LEMMA SyncSnapshot ==
  ASSUME Core, SnapshotCurrent, NEW to \in RunStatuses, NEW status, NEW new,
         run' = to, inbox' = inbox, Sync(to, status, new, deliveries)
  PROVE  SnapshotCurrent'
<1>1. CASE NodeChange
  BY <1>1 DEF Sync, SnapshotCurrent
<1>2. CASE ~NodeChange
  <2>1. root' = root /\ child' = child /\ snapshot' = snapshot
    BY <1>2 DEF NodeChange, Sync
  <2>2. ChildGroup
    BY CoreParts
  <2>3. Interrupted(to, status) = {}
    <3>1. /\ child' = [c \in Children |-> Projected(child[c], to, status)]
          /\ attempt' = [c \in Children |-> IF c \in Interrupted(to, status)
                                            THEN Ended(attempt[c], "interrupted") ELSE attempt[c]]
      BY DEF Sync
    <3>2. \A c \in Children : child'[c] = child[c] => c \notin Interrupted(to, status)
      BY <2>2, <3>1, SyncChildren
    <3> QED BY <2>1, <3>2 DEF Interrupted
  <2>4. root.status = status
    BY <2>1 DEF Sync
  <2>5. \A d \in deliveries : d.to \in Losing(to, status) => d.status # "prepared"
    BY <2>3, <2>4 DEF Losing, Core, PreparedRootWorks
  <2>6. deliveries' = deliveries
    <3>1. deliveries' = Superseded(deliveries, Losing(to, status))
      BY DEF Sync
    <3> QED BY <2>5, <3>1, NothingSuperseded
  <2>7. View' = View
    BY <2>1, <2>6 DEF View, Unread, PreparedTo
  <2> QED BY <2>1, <2>7 DEF SnapshotCurrent
<1> QED BY <1>1, <1>2

\* And it saves a snapshot where one is needed.
LEMMA SyncSaves ==
  ASSUME NEW to, NEW status, NEW new, NEW D, root.status # status, Sync(to, status, new, D)
  PROVE  SnapshotCurrent'
<1>1. root'.status = status
  BY DEF Sync
<1>2. NodeChange
  BY <1>1 DEF NodeChange
<1> QED BY <1>2 DEF Sync, SnapshotCurrent

-----------------------------------------------------------------------------
\* One lemma per action that moves the root.

\* What is shown of each step.
Step == Core' /\ OutcomeStep /\ SnapshotCurrent'

\* The root's status.
LEMMA RootStatusType ==
  ASSUME NEW to \in RunStatuses, NEW started \in BOOLEAN, to \notin {"created", "preparing"}
  PROVE  /\ RootStatusFor(to, started) \in AgentStatuses
         /\ RootStatusFor(to, started) = "ready" => ~started
BY DEF RootStatusFor, RunStatuses, AgentStatuses

\* The types that steps need.
LEMMA CoreTypes ==
  ASSUME Core
  PROVE  /\ run \in RunStatuses /\ run \notin {"created", "preparing"}
         /\ cp \in Checkpoint /\ root \in RootRow /\ lease \in [gen : Nat, live : BOOLEAN]
         /\ inbox \in [Agents -> Seq(MessageRow)] /\ deliveries \subseteq Delivery
         /\ \A a \in Agents : Len(inbox[a]) <= HistoryLimit
BY DEF Core, TypeOK, RunStarted

\* The checkpoint's.
LEMMA CheckpointTypes ==
  ASSUME Core
  PROVE  /\ cp \in Checkpoint
         /\ cp.turn \in Nat \ {0} /\ cp.attempt \in Nat /\ cp.begun \in Nat
         /\ cp.turn + 1 \in Nat \ {0} /\ cp.begun + 1 \in Nat
<1>1. cp \in Checkpoint
  BY CoreTypes
<1> QED BY <1>1 DEF Checkpoint

\* BeginAttempt of the root.
LEMMA RootBeginStep == ASSUME Core, SnapshotCurrent, RootBegin PROVE Step
<1> DEFINE new == [phase |-> "turn_started", turn |-> cp.turn, attempt |-> cp.begun + 1,
                   begun |-> cp.begun + 1]
<1>1. new \in Checkpoint
  BY CoreTypes DEF Checkpoint
<1>2. cp' = new /\ run' = run /\ lease' = lease /\ inbox' = inbox
      /\ Sync(run, "running", new, deliveries)
  BY DEF RootBegin
<1> HIDE DEF new
<1>3. "running" \in AgentStatuses
  BY DEF AgentStatuses
<1>4. Core' /\ OutcomeStep
  BY <1>1, <1>2, <1>3, CoreTypes, SyncStep
<1>5. SnapshotCurrent'
  BY <1>2, CoreTypes, SyncSnapshot
<1> QED BY <1>4, <1>5 DEF Step

\* Reading leaves messages.
LEMMA ReadType ==
  ASSUME NEW box \in Seq(MessageRow), NEW S
  PROVE  /\ Read(box, S) \in Seq(MessageRow)
         /\ Len(Read(box, S)) = Len(box)
<1>1. \A i \in 1..Len(box) : (IF i \in S THEN [box[i] EXCEPT !.status = "consumed"] ELSE box[i])
                               \in MessageRow
  <2> TAKE i \in 1..Len(box)
  <2>1. box[i] \in MessageRow
    BY ElementOfSeq
  <2>2. [box[i] EXCEPT !.status = "consumed"] \in MessageRow
    BY <2>1 DEF MessageRow
  <2> QED BY <2>1, <2>2
<1>2. Len(box) \in Nat /\ DOMAIN box = 1..Len(box)
  BY LenProperties
<1>3. Read(box, S) \in [1..Len(box) -> MessageRow]
  BY <1>1, <1>2 DEF Read
<1> QED BY <1>2, <1>3, IsASeq, LenProperties

\* Delivering as well.
LEMMA DeliveredInbox ==
  ASSUME Core, NEW a \in Agents
  PROVE  [inbox EXCEPT ![a] = Delivered(a)] \in [Agents -> Seq(MessageRow)]
         /\ \A b \in Agents : Len([inbox EXCEPT ![a] = Delivered(a)][b]) <= HistoryLimit
<1>1. inbox \in [Agents -> Seq(MessageRow)] /\ \A b \in Agents : Len(inbox[b]) <= HistoryLimit
  BY CoreTypes
<1>2. Delivered(a) \in Seq(MessageRow) /\ Len(Delivered(a)) = Len(inbox[a])
  BY <1>1, ReadType DEF Delivered
<1> QED BY <1>1, <1>2

\* The root's turn is completed.
LEMMA RootCompleteStep ==
  ASSUME Core, SnapshotCurrent, NEW action \in {"continue", "wait", "finish", "retain"},
         RootComplete(action)
  PROVE  Step
<1> DEFINE phase == CASE action = "continue" -> "idle"
                      [] action \in {"wait", "retain"} -> "waiting"
                      [] action = "finish" -> "run_completed"
           new == [cp EXCEPT !.turn = @ + 1, !.attempt = 0, !.phase = phase]
           status == CASE action = "continue" -> "ready" [] action = "finish" -> "completed"
                       [] OTHER -> "waiting"
           box == [inbox EXCEPT ![Root] = Delivered(Root)]
           D == Committed(Root)
<1>1. phase \in {"idle", "waiting", "run_completed"}
  OBVIOUS
<1>2. status \in {"ready", "completed", "waiting"}
  OBVIOUS
<1>3. /\ run' = CASE action = "finish" -> "completed" [] action = "wait" -> "paused" [] OTHER -> run
      /\ cp' = new /\ lease' = lease /\ inbox' = box /\ root.status = "running"
      /\ Sync(run', status, new, D)
  BY DEF RootComplete
<1>4. run' \in RunStatuses \ {"created", "preparing"}
  BY <1>3, CoreTypes DEF RunStatuses
<1>5. D \subseteq Delivery /\ \A d \in D : d.status = "prepared" => d \in deliveries
  BY CoreTypes, CommittedRows
<1>6. box \in [Agents -> Seq(MessageRow)] /\ \A b \in Agents : Len(box[b]) <= HistoryLimit
  BY DeliveredInbox DEF Agents
<1> HIDE DEF phase, status, box, D
<1>7. new \in Checkpoint /\ new.phase = phase
  BY <1>1, CheckpointTypes DEF Checkpoint
<1> HIDE DEF new
<1>8. status \in AgentStatuses /\ status # "running"
  BY <1>2 DEF AgentStatuses
<1>9. Core' /\ OutcomeStep
  BY <1>1, <1>3, <1>4, <1>5, <1>6, <1>7, <1>8, CoreTypes, SyncStep
<1>10. SnapshotCurrent'
  BY <1>3, <1>8, SyncSaves
<1> QED BY <1>9, <1>10 DEF Step

\* It fails.
LEMMA RootFailStep == ASSUME Core, SnapshotCurrent, RootFail PROVE Step
<1> DEFINE new == [cp EXCEPT !.phase = "turn_failed"]
           status == IF run = "running" THEN "waiting" ELSE RootStatusFor(run, FALSE)
<1>1. new \in Checkpoint /\ new.phase = "turn_failed"
  BY CoreTypes DEF Checkpoint
<1>2. status \in AgentStatuses
  BY CoreTypes, RootStatusType DEF AgentStatuses
<1>3. /\ run' = IF run = "running" THEN "paused" ELSE run
      /\ cp' = new /\ lease' = lease /\ inbox' = inbox
      /\ Sync(run', status, new, deliveries)
  BY DEF RootFail
<1>4. run' \in RunStatuses \ {"created", "preparing"}
  BY <1>3, CoreTypes DEF RunStatuses
<1> HIDE DEF new, status
<1>5. Core' /\ OutcomeStep
  BY <1>1, <1>2, <1>3, <1>4, CoreTypes, SyncStep
<1>6. SnapshotCurrent'
  BY <1>3, <1>4, SyncSnapshot
<1> QED BY <1>5, <1>6 DEF Step

\* A failed turn is ended.
LEMMA EndFailedTurnStep == ASSUME Core, SnapshotCurrent, EndFailedTurn PROVE Step
<1> DEFINE new == [cp EXCEPT !.phase = "idle", !.turn = @ + 1, !.attempt = 0]
<1>1. new \in Checkpoint /\ new.phase = "idle"
  BY CheckpointTypes DEF Checkpoint
<1>2. cp' = new /\ run' = run /\ lease' = lease /\ inbox' = inbox
      /\ Sync(run, "ready", new, deliveries)
  BY DEF EndFailedTurn
<1> HIDE DEF new
<1>3. "ready" \in AgentStatuses
  BY DEF AgentStatuses
<1>4. Core' /\ OutcomeStep
  BY <1>1, <1>2, <1>3, CoreTypes, SyncStep
<1>5. SnapshotCurrent'
  BY <1>2, CoreTypes, SyncSnapshot
<1> QED BY <1>4, <1>5 DEF Step

\* The run is finalized.
LEMMA FinalizeStep ==
  ASSUME Core, SnapshotCurrent, NEW to \in {"completed", "failed"}, Finalize(to)
  PROVE  Step
<1> DEFINE phase == IF to = "completed" THEN "run_completed" ELSE "run_failed"
           new == [cp EXCEPT !.attempt = 0, !.phase = phase]
<1>1. new \in Checkpoint
  BY CoreTypes DEF Checkpoint
<1>2. cp' = new /\ run' = to /\ lease' = lease /\ inbox' = inbox
      /\ Sync(to, to, new, deliveries)
  BY DEF Finalize
<1> HIDE DEF new
<1>3. to \in AgentStatuses /\ to # "ready" /\ to \in RunStatuses \ {"created", "preparing"}
  BY DEF AgentStatuses, RunStatuses
<1>4. Core' /\ OutcomeStep
  BY <1>1, <1>2, <1>3, CoreTypes, SyncStep
<1>5. SnapshotCurrent'
  BY <1>2, <1>3, SyncSnapshot
<1> QED BY <1>4, <1>5 DEF Step

\* The run changes its status.
LEMMA TransitionStep ==
  ASSUME Core, SnapshotCurrent, NEW to \in RunStatuses, Transition(to)
  PROVE  Step
<1> DEFINE started == cp.phase = "turn_started"
           status == RootStatusFor(to, started)
<1>1. to \notin {"created", "preparing"}
  BY CoreTypes DEF Transition, RunSuccessors, RunStatuses
<1>2. status \in AgentStatuses /\ (status = "ready" => ~started)
  BY <1>1, RootStatusType
<1>3. run' = to /\ cp' = cp /\ lease' = lease /\ inbox' = inbox
      /\ Sync(to, status, cp, deliveries)
  BY DEF Transition
<1> HIDE DEF status
<1>4. Core' /\ OutcomeStep
  BY <1>1, <1>2, <1>3, CoreTypes, SyncStep
<1>5. SnapshotCurrent'
  BY <1>1, <1>3, SyncSnapshot
<1> QED BY <1>4, <1>5 DEF Step

\* A boundary between turns.
LEMMA RootBoundaryStep == ASSUME Core, SnapshotCurrent, RootBoundary PROVE Step
<1> DEFINE new == [cp EXCEPT !.turn = @ + 1, !.attempt = cp.begun + 1, !.begun = @ + 1]
<1>0. /\ cp' = new /\ run' = run /\ lease' = lease /\ run = "running"
      /\ inbox' = [inbox EXCEPT ![Root] = Delivered(Root)]
      /\ deliveries' = Committed(Root)
      /\ root' = [status |-> "running", attempt |-> cp.begun + 1, turns |-> cp.turn]
      /\ child' = [c \in Children |-> Projected(child[c], "running", "ready")]
      /\ attempt' = attempt /\ snapshot' = View'
  BY DEF RootBoundary, Supervising
<1>1. new \in Checkpoint
  BY CheckpointTypes DEF Checkpoint
<1> HIDE DEF new
<1>2. ChildGroup
  BY CoreParts
<1>3. Interrupted("running", "ready") = {}
  <2> SUFFICES ASSUME NEW c \in Children, child[c].status = "running"
               PROVE  Projected(child[c], "running", "ready").status = "running"
    BY DEF Interrupted
  <2>1. child[c] \in ChildRow /\ child[c].session = SessionFor(child[c].status)
    BY <1>2 DEF ChildGroup, ChildrenEndWithRun
  <2>2. "running" \in RunStatuses
    BY DEF RunStatuses
  <2>3. Follows(child[c], Projected(child[c], "running", "ready"), "running", "ready")
    BY <2>1, <2>2, ProjectedFollows
  <2> QED BY <2>3 DEF Follows
<1>4. attempt' = [c \in Children |-> IF c \in Interrupted("running", "ready")
                                     THEN Ended(attempt[c], "interrupted") ELSE attempt[c]]
  BY <1>0, <1>2, <1>3 DEF ChildGroup
<1>5. /\ ChildGroup' /\ OnlyInterrupts
      /\ \A c \in Children : child'[c].status = "waiting" => child'[c].held = FALSE
  BY <1>0, <1>2, <1>4, SyncChildren DEF RunStatuses
<1>6. root' \in RootRow /\ root'.status = "running"
  BY <1>0, CoreTypes DEF RootRow, Checkpoint, AgentStatuses
<1>7. deliveries' \subseteq Delivery
  BY <1>0, CoreTypes, CommittedRows
<1>8. inbox' \in [Agents -> Seq(MessageRow)] /\ \A b \in Agents : Len(inbox'[b]) <= HistoryLimit
  BY <1>0, DeliveredInbox DEF Agents
<1>9. TypeOK'
  BY <1>0, <1>1, <1>5, <1>6, <1>7, <1>8, CoreTypes DEF ChildGroup, TypeOK
<1>10. /\ PreparedRootWorks' /\ ReadyHasNoTurn' /\ RunStarted' /\ NoneLeftPaused'
  BY <1>0, <1>6, CoreTypes DEF PreparedRootWorks, ReadyHasNoTurn, RunStarted, NoneLeftPaused
<1>11. Core'
  BY <1>5, <1>9, <1>10 DEF Core, ChildGroup
<1>12. OutcomeStep /\ SnapshotCurrent'
  BY <1>0, <1>5, InterruptsAreOutcomes DEF SnapshotCurrent
<1> QED BY <1>11, <1>12 DEF Step

\* The root's batch is prepared.
LEMMA RootPrepareInboxStep == ASSUME Core, SnapshotCurrent, RootPrepareInbox PROVE Step
<1> DEFINE rows == NewRows(Root, cp.attempt)
<1>1. /\ deliveries' = Superseded(deliveries, {Root}) \cup rows
      /\ root.status = "running" /\ snapshot' = View'
      /\ UNCHANGED <<run, cp, root, lease, child, attempt, inbox>>
  BY DEF RootPrepareInbox
<1>2. rows \subseteq Delivery
  BY CoreTypes, NewRowsType DEF Agents, Checkpoint
<1> HIDE DEF rows
<1>3. deliveries' \subseteq Delivery
  BY <1>1, <1>2, CoreTypes, SupersededRows
<1>4. TypeOK'
  BY <1>1, <1>3 DEF Core, TypeOK
<1>5. ChildGroup'
  BY <1>1, CoreParts DEF ChildGroup, AttemptsMatchNodes, ChildrenEndWithRun, PausedIsQuiet
<1>6. RunStarted' /\ ReadyHasNoTurn' /\ PreparedRootWorks' /\ NoneLeftPaused'
  BY <1>1 DEF Core, RunStarted, ReadyHasNoTurn, PreparedRootWorks, NoneLeftPaused
<1>7. OutcomeStep /\ SnapshotCurrent'
  BY <1>1 DEF OutcomeStep, SnapshotCurrent
<1> QED BY <1>4, <1>5, <1>6, <1>7 DEF Step, Core, ChildGroup

-----------------------------------------------------------------------------
\* One lemma per action that leaves the root alone.

\* Inboxes with rows of messages, within their bound.
InboxOK(box) ==
  /\ box \in [Agents -> Seq(MessageRow)]
  /\ \A a \in Agents : Len(box[a]) <= HistoryLimit

\* A step of one child.
LEMMA ChildFrame ==
  ASSUME Core, run = "running", UNCHANGED <<run, cp, root, lease>>, ChildGroup',
         deliveries' \subseteq Delivery,
         \A d \in deliveries' : d.to = Root /\ d.status = "prepared" => d \in deliveries,
         InboxOK(inbox'),
         \A c \in Children : child'[c].status = "waiting" => child'[c] = child[c]
  PROVE  Core'
<1>1. TypeOK'
  BY DEF Core, TypeOK, ChildGroup, InboxOK
<1>2. RunStarted' /\ ReadyHasNoTurn' /\ PreparedRootWorks'
  BY DEF Core, RunStarted, ReadyHasNoTurn, PreparedRootWorks
<1>3. NoneLeftPaused'
  <2> SUFFICES ASSUME root.status = "ready", NEW c \in Children, child'[c].status = "waiting"
               PROVE  ~child'[c].held
    BY DEF NoneLeftPaused
  <2>1. child'[c] = child[c]
    OBVIOUS
  <2>2. ~child[c].held
    BY <2>1 DEF Core, NoneLeftPaused
  <2> QED BY <2>1, <2>2
<1> QED BY <1>1, <1>2, <1>3 DEF Core, ChildGroup

\* A step that changes messages only.
LEMMA MessageFrame ==
  ASSUME Core, UNCHANGED <<run, cp, root, lease, child, attempt, deliveries>>, InboxOK(inbox')
  PROVE  Core' /\ OutcomeStep
<1>1. TypeOK'
  BY DEF Core, TypeOK, InboxOK
<1>2. RunStarted' /\ ReadyHasNoTurn' /\ PreparedRootWorks' /\ NoneLeftPaused'
  BY DEF Core, RunStarted, ReadyHasNoTurn, PreparedRootWorks, NoneLeftPaused
<1>3. AttemptsMatchNodes' /\ ChildrenEndWithRun' /\ PausedIsQuiet'
  BY DEF Core, AttemptsMatchNodes, ChildrenEndWithRun, PausedIsQuiet
<1>4. OutcomeStep
  BY DEF OutcomeStep
<1> QED BY <1>1, <1>2, <1>3, <1>4 DEF Core

\* The inboxes are right.
LEMMA InboxUnchanged == ASSUME Core PROVE InboxOK(inbox)
BY CoreTypes DEF InboxOK

\* The lease changes hands.
LEMMA LeaseStep == ASSUME Core, SnapshotCurrent, Acquire \/ Expire PROVE Step
<1>1. UNCHANGED <<run, cp, root, child, attempt, inbox, deliveries, snapshot>>
  BY DEF Acquire, Expire
<1>2. lease' \in [gen : Nat, live : BOOLEAN]
  <2>1. lease.gen \in Nat /\ lease \in [gen : Nat, live : BOOLEAN]
    BY CoreTypes
  <2>2. CASE Acquire
    <3>1. lease' = [gen |-> lease.gen + 1, live |-> TRUE]
      BY <2>2 DEF Acquire
    <3> QED BY <2>1, <3>1
  <2>3. CASE Expire
    <3>1. lease' = [lease EXCEPT !.live = FALSE]
      BY <2>3 DEF Expire
    <3> QED BY <2>1, <3>1
  <2> QED BY <2>2, <2>3
<1>3. TypeOK'
  BY <1>1, <1>2 DEF Core, TypeOK
<1>4. /\ RunStarted' /\ ReadyHasNoTurn' /\ PreparedRootWorks' /\ NoneLeftPaused'
      /\ AttemptsMatchNodes' /\ ChildrenEndWithRun' /\ PausedIsQuiet'
  BY <1>1 DEF Core, RunStarted, ReadyHasNoTurn, PreparedRootWorks, NoneLeftPaused,
              AttemptsMatchNodes, ChildrenEndWithRun, PausedIsQuiet
<1>5. OutcomeStep
  BY <1>1 DEF OutcomeStep
<1>6. SnapshotCurrent'
  <2>1. View' = View
    BY <1>1 DEF View, Unread, PreparedTo
  <2> QED BY <1>1, <2>1 DEF SnapshotCurrent
<1> QED BY <1>3, <1>4, <1>5, <1>6 DEF Step, Core

\* The run waits for an approval, or gets it.
LEMMA ApprovalStep == ASSUME Core, SnapshotCurrent, AskApproval \/ AnswerApproval PROVE Step
<1>1. UNCHANGED <<cp, root, lease, child, attempt, inbox, deliveries, snapshot>>
  BY DEF AskApproval, AnswerApproval
<1>2. run' \in {"running", "waiting_approval"}
  BY DEF AskApproval, AnswerApproval
<1>3. run' \in RunStatuses /\ run' \notin TerminalRun
  BY <1>2 DEF RunStatuses, TerminalRun
<1>4. TypeOK'
  BY <1>1, <1>3 DEF Core, TypeOK
<1>5. RunStarted' /\ PausedIsQuiet' /\ ReadyHasNoTurn' /\ PreparedRootWorks'
  BY <1>1, <1>2 DEF Core, RunStarted, PausedIsQuiet, ReadyHasNoTurn, PreparedRootWorks
<1>6. AttemptsMatchNodes' /\ ChildrenEndWithRun'
  BY <1>1, <1>3 DEF Core, AttemptsMatchNodes, ChildrenEndWithRun
<1>7. NoneLeftPaused'
  <2>1. CASE AskApproval
    BY <2>1 DEF AskApproval, NoneLeftPaused
  <2>2. CASE AnswerApproval
    <3>1. root'.status # "ready"
      BY <2>2, <1>1 DEF AnswerApproval, Core, ReadyHasNoTurn
    <3> QED BY <3>1 DEF NoneLeftPaused
  <2> QED BY <2>1, <2>2
<1>8. OutcomeStep
  BY <1>1 DEF OutcomeStep
<1>9. SnapshotCurrent'
  <2>1. View' = View
    BY <1>1 DEF View, Unread, PreparedTo
  <2> QED BY <1>1, <2>1 DEF SnapshotCurrent
<1> QED BY <1>4, <1>5, <1>6, <1>7, <1>8, <1>9 DEF Step, Core

\* A message that is added.
LEMMA AppendedInbox ==
  ASSUME Core, NEW a \in Agents, NEW m \in MessageRow, Room(a, 1)
  PROVE  InboxOK([inbox EXCEPT ![a] = Append(@, m)])
<1>1. inbox \in [Agents -> Seq(MessageRow)] /\ \A b \in Agents : Len(inbox[b]) <= HistoryLimit
  BY CoreTypes
<1>2. Append(inbox[a], m) \in Seq(MessageRow) /\ Len(Append(inbox[a], m)) = Len(inbox[a]) + 1
  BY <1>1, AppendProperties
<1>3. Len(inbox[a]) + 1 <= HistoryLimit
  BY DEF Room
<1> QED BY <1>1, <1>2, <1>3 DEF InboxOK

\* A message is sent.
LEMMA SendStep ==
  ASSUME Core, SnapshotCurrent, NEW a \in Addressed, NEW kind \in {"instruction", "other"},
         Send(a, kind)
  PROVE  Step
<1>1. a \in Agents
  BY AgentsAssumption DEF Agents
<1>2. Message(kind, Root, 0) \in MessageRow
  BY DEF Message, MessageRow, Agents
<1>3. InboxOK(inbox')
  BY <1>1, <1>2, AppendedInbox DEF Send
<1>4. Core' /\ OutcomeStep
  BY <1>3, MessageFrame DEF Send
<1> QED BY <1>4 DEF Step, Send, SnapshotCurrent

\* A message is consumed by hand.
LEMMA ConsumeStep ==
  ASSUME Core, SnapshotCurrent, NEW a \in Agents, Consume(a)
  PROVE  Step
<1> DEFINE first == {i \in Unread(a) : Cardinality({j \in Unread(a) : j <= i}) <= MessageBatch}
<1>1. inbox' = [inbox EXCEPT ![a] = Read(@, first)]
  BY DEF Consume
<1> HIDE DEF first
<1>2. inbox \in [Agents -> Seq(MessageRow)] /\ \A b \in Agents : Len(inbox[b]) <= HistoryLimit
  BY CoreTypes
<1>3. Read(inbox[a], first) \in Seq(MessageRow) /\ Len(Read(inbox[a], first)) = Len(inbox[a])
  BY <1>2, ReadType
<1>4. InboxOK(inbox')
  BY <1>1, <1>2, <1>3 DEF InboxOK
<1>5. Core' /\ OutcomeStep
  BY <1>4, MessageFrame DEF Consume
<1> QED BY <1>5 DEF Step, Consume, SnapshotCurrent

-----------------------------------------------------------------------------
\* One lemma per action of a child.

\* What the children's part says of one child.
LEMMA ChildParts ==
  ASSUME Core, NEW c \in Children
  PROVE  /\ child[c] \in ChildRow /\ child[c].session = SessionFor(child[c].status)
         /\ attempt[c] \in Seq(AttemptRow) /\ Matches(child[c], attempt[c])
         /\ child[c].turns \in Nat /\ child[c].tokens \in Nat /\ child[c].active \in Nat
<1>1. ChildGroup
  BY CoreParts
<1>2. child[c] \in ChildRow /\ child[c].session = SessionFor(child[c].status)
      /\ attempt[c] \in Seq(AttemptRow) /\ Matches(child[c], attempt[c])
  BY <1>1 DEF ChildGroup, AttemptsMatchNodes, ChildrenEndWithRun
<1> QED BY <1>2 DEF ChildRow

\* A child that works is on its last attempt.
LEMMA ActiveParts ==
  ASSUME Core, NEW c \in Children, Active(c)
  PROVE  /\ run = "running" /\ child[c].status = "running" /\ lease.live
         /\ child[c].active = Len(attempt[c]) /\ Len(attempt[c]) \in DOMAIN attempt[c]
         /\ lease.gen = attempt[c][Len(attempt[c])].gen
<1>1. Len(attempt[c]) > 0
  BY ChildParts DEF Active, Matches
<1>2. Len(attempt[c]) \in DOMAIN attempt[c]
  BY <1>1, ChildParts, LenProperties
<1> QED BY <1>2 DEF Active

\* A step of one child, with the row and the attempts it is given.
LEMMA ChildMove ==
  ASSUME Core, run = "running", UNCHANGED <<run, cp, root, lease>>,
         NEW c \in Children, NEW r \in ChildRow, NEW s \in Seq(AttemptRow),
         Matches(r, s), r.session = SessionFor(r.status),
         r.status = "waiting" => r = child[c],
         child' = [child EXCEPT ![c] = r], attempt' = [attempt EXCEPT ![c] = s],
         deliveries' \subseteq Delivery,
         \A d \in deliveries' : d.to = Root /\ d.status = "prepared" => d \in deliveries,
         InboxOK(inbox')
  PROVE  Core'
<1>1. ChildGroup
  BY CoreParts
<1>2. ChildGroup'
  BY <1>1, OneChild
<1>3. \A d \in Children : child'[d].status = "waiting" => child'[d] = child[d]
  BY <1>1 DEF ChildGroup
<1> QED BY <1>2, <1>3, ChildFrame

\* What its own worker makes of a running attempt.
OwnOutcome(c, s) ==
  \A t \in DOMAIN attempt[c] : attempt[c][t].status = "running" =>
    \/ s[t].status = "running"
    \/ /\ s[t].status \in {"continued", "finished"}
       /\ lease.live /\ lease.gen = attempt[c][t].gen

\* The outcome of the attempt that a child works on; s are its attempts after.
LEMMA OneOutcome ==
  ASSUME Core, NEW c \in Children, NEW s, attempt' = [attempt EXCEPT ![c] = s],
         OwnOutcome(c, s)
  PROVE  OutcomeStep
<1>1. attempt \in [Children -> Seq(AttemptRow)]
  BY CoreParts DEF ChildGroup
<1>2. \A d \in Children : attempt'[d] = IF d = c THEN s ELSE attempt[d]
  BY <1>1
<1> QED BY <1>2 DEF OutcomeStep, OwnOutcome

\* A child is admitted.
LEMMA AdmitStep ==
  ASSUME Core, SnapshotCurrent, NEW c \in Children, NEW limit \in Limits, Admit(c, limit)
  PROVE  Step
<1> DEFINE r == [NewChild EXCEPT !.status = "ready", !.limit = limit, !.session = "active"]
<1>1. /\ run = "running" /\ child[c].status = "absent"
      /\ child' = [child EXCEPT ![c] = r]
      /\ UNCHANGED <<run, cp, root, lease, attempt, inbox, deliveries>> /\ snapshot' = View'
  BY DEF Admit
<1>2. limit \in Nat
  BY LimitsAssumption
<1>3. /\ r \in ChildRow /\ r.status = "ready" /\ r.session = "active" /\ r.turns = 0
      /\ r.tokens = 0 /\ r.active = 0
  BY <1>2 DEF NewChild, ChildRow, AgentStatuses
<1> HIDE DEF r
<1>4. r.session = SessionFor(r.status)
  BY <1>3 DEF SessionFor, AgentEnded
<1>5. Matches(r, attempt[c])
  <2>1. attempt[c] = <<>> /\ Matches(child[c], attempt[c])
    BY <1>1, ChildParts DEF Matches
  <2>2. DOMAIN attempt[c] = {} /\ Len(attempt[c]) = 0
    BY <2>1
  <2>3. {t \in DOMAIN attempt[c] : attempt[c][t].used} = {}
    BY <2>2
  <2>4. Cardinality({t \in DOMAIN attempt[c] : attempt[c][t].used}) = 0
    BY <2>3, FS_EmptySet
  <2> QED BY <1>3, <2>1, <2>2, <2>4 DEF Matches
<1>6. attempt' = [attempt EXCEPT ![c] = attempt[c]]
  BY <1>1, CoreParts DEF ChildGroup
<1>7. deliveries' \subseteq Delivery /\ InboxOK(inbox')
  BY <1>1, CoreTypes DEF InboxOK
<1>8. Core'
  BY <1>1, <1>3, <1>4, <1>5, <1>6, <1>7, ChildParts, ChildMove
<1>9. OutcomeStep
  BY <1>1 DEF OutcomeStep
<1> QED BY <1>1, <1>8, <1>9 DEF Step, SnapshotCurrent

\* It begins an attempt.
LEMMA BeginAttemptStep ==
  ASSUME Core, SnapshotCurrent, NEW c \in Children, BeginAttempt(c)
  PROVE  Step
<1> DEFINE row == [status |-> "running", gen |-> lease.gen, briefed |-> FALSE, used |-> FALSE]
           s == Append(attempt[c], row)
           r == [child[c] EXCEPT !.status = "running", !.active = child[c].turns + 1,
                                 !.turns = @ + 1]
<1>1. /\ run = "running" /\ child[c].status = "ready"
      /\ child' = [child EXCEPT ![c].status = "running", ![c].active = child[c].turns + 1,
                                ![c].turns = @ + 1]
      /\ attempt' = [attempt EXCEPT ![c] = s]
      /\ UNCHANGED <<run, cp, root, lease, inbox, deliveries>> /\ snapshot' = View'
  BY DEF BeginAttempt
<1>2. child' = [child EXCEPT ![c] = r]
  BY <1>1
<1>3. /\ r \in ChildRow /\ r.status = "running" /\ r.session = child[c].session
      /\ r.turns = child[c].turns + 1 /\ r.active = child[c].turns + 1
      /\ r.tokens = child[c].tokens
  <2>1. child[c] \in ChildRow /\ child[c].turns + 1 \in Nat
    BY ChildParts
  <2> QED BY <2>1 DEF ChildRow, AgentStatuses
<1> HIDE DEF r
<1>4. r.session = SessionFor(r.status)
  BY <1>1, <1>3, ChildParts DEF SessionFor, AgentEnded
<1>5. lease.gen \in Nat
  BY CoreTypes
<1>6. s \in Seq(AttemptRow) /\ Matches(r, s)
  BY <1>1, <1>3, <1>5, ChildParts, BegunMatches
<1>7. \A t \in DOMAIN attempt[c] : attempt[c][t].status # "running"
  BY <1>1, ChildParts DEF Matches
<1> HIDE DEF s
<1>8. deliveries' \subseteq Delivery /\ InboxOK(inbox')
  BY <1>1, CoreTypes DEF InboxOK
<1>9. Core'
  BY <1>1, <1>2, <1>3, <1>4, <1>6, <1>8, ChildMove
<1>10. OutcomeStep
  <2>1. OwnOutcome(c, s)
    BY <1>7 DEF OwnOutcome
  <2> QED BY <1>1, <2>1, OneOutcome
<1> QED BY <1>1, <1>9, <1>10 DEF Step, SnapshotCurrent

\* Its context is prepared.
LEMMA PrepareContextStep ==
  ASSUME Core, SnapshotCurrent, NEW c \in Children, PrepareContext(c)
  PROVE  Step
<1> DEFINE t == child[c].active
           n == Len(attempt[c])
           rows == NewRows(c, t)
           s == [attempt[c] EXCEPT ![n].briefed = TRUE]
<1>1. /\ Active(c)
      /\ attempt' = [attempt EXCEPT ![c][t].briefed = TRUE]
      /\ deliveries' = Superseded(deliveries, {c}) \cup rows
      /\ UNCHANGED <<run, cp, root, lease, child, inbox>>
      /\ snapshot' = IF rows # {} \/ PreparedTo(c) # {} THEN View' ELSE snapshot
  BY DEF PrepareContext
<1>2. run = "running" /\ child[c].status = "running" /\ t = n /\ n \in DOMAIN attempt[c]
  BY <1>1, ActiveParts
<1>3. attempt' = [attempt EXCEPT ![c] = s]
  BY <1>1, <1>2
<1>4. s \in Seq(AttemptRow) /\ Matches(child[c], s)
  BY <1>2, ChildParts, BriefedMatches
<1>5. \A u \in DOMAIN attempt[c] : s[u].status = attempt[c][u].status
  <2>1. \A u \in DOMAIN attempt[c] : attempt[c][u] \in AttemptRow
    BY ChildParts, ElementOfSeq, LenProperties
  <2> QED BY <1>2, <2>1 DEF AttemptRow
<1>6. rows \subseteq Delivery /\ \A d \in rows : d.to = c
  BY CoreTypes, ChildParts, NewRowsType DEF Agents
<1> HIDE DEF s, rows
<1>7. deliveries' \subseteq Delivery
  BY <1>1, <1>6, CoreTypes, SupersededRows
<1>8. c # Root
  BY AgentsAssumption
<1>9. \A d \in deliveries' : d.to = Root /\ d.status = "prepared" => d \in deliveries
  BY <1>1, <1>6, <1>8, CoreTypes, SupersededRows
<1>10. child' = [child EXCEPT ![c] = child[c]] /\ InboxOK(inbox')
  BY <1>1, CoreParts, CoreTypes DEF ChildGroup, InboxOK
<1>11. Core'
  BY <1>1, <1>2, <1>3, <1>4, <1>7, <1>9, <1>10, ChildParts, ChildMove
<1>12. OutcomeStep
  <2>1. \A u \in DOMAIN attempt[c] : attempt[c][u].status = "running" => s[u].status = "running"
    BY <1>5
  <2> QED BY <1>3, <2>1, OneOutcome DEF OwnOutcome
<1>13. SnapshotCurrent'
  <2>1. CASE rows # {} \/ PreparedTo(c) # {}
    BY <1>1, <2>1 DEF SnapshotCurrent
  <2>2. CASE rows = {} /\ PreparedTo(c) = {}
    <3>1. \A d \in deliveries : d.to \in {c} => d.status # "prepared"
      BY <2>2 DEF PreparedTo
    <3>2. Superseded(deliveries, {c}) = deliveries
      BY <3>1, NothingSuperseded
    <3>3. deliveries' = deliveries
      BY <1>1, <2>2, <3>2
    <3>4. View' = View
      BY <1>1, <3>3 DEF View, Unread, PreparedTo
    <3> QED BY <1>1, <2>2, <3>4 DEF SnapshotCurrent
  <2> QED BY <2>1, <2>2
<1> QED BY <1>11, <1>12, <1>13 DEF Step

\* Its usage is recorded.
LEMMA RecordUsageStep ==
  ASSUME Core, SnapshotCurrent, NEW c \in Children, RecordUsage(c)
  PROVE  Step
<1> DEFINE t == child[c].active
           n == Len(attempt[c])
           s == [attempt[c] EXCEPT ![n].used = TRUE]
           r == [child[c] EXCEPT !.tokens = @ + 1]
<1>1. /\ Active(c) /\ ~attempt[c][t].used
      /\ attempt' = [attempt EXCEPT ![c][t].used = TRUE]
      /\ child' = [child EXCEPT ![c].tokens = @ + 1]
      /\ UNCHANGED <<run, cp, root, lease, inbox, deliveries>> /\ snapshot' = View'
  BY DEF RecordUsage
<1>2. run = "running" /\ child[c].status = "running" /\ t = n /\ n \in DOMAIN attempt[c]
  BY <1>1, ActiveParts
<1>3. attempt' = [attempt EXCEPT ![c] = s] /\ child' = [child EXCEPT ![c] = r]
  BY <1>1, <1>2
<1>4. /\ r \in ChildRow /\ r.status = child[c].status /\ r.session = child[c].session
      /\ r.turns = child[c].turns /\ r.active = child[c].active
      /\ r.tokens = child[c].tokens + 1
  <2>1. child[c] \in ChildRow /\ child[c].tokens + 1 \in Nat
    BY ChildParts
  <2> QED BY <2>1 DEF ChildRow
<1> HIDE DEF r
<1>5. ~attempt[c][n].used
  BY <1>1, <1>2
<1>6. s \in Seq(AttemptRow) /\ Matches(r, s)
  BY <1>2, <1>4, <1>5, ChildParts, UsedMatches
<1>7. \A u \in DOMAIN attempt[c] : s[u].status = attempt[c][u].status
  <2>1. \A u \in DOMAIN attempt[c] : attempt[c][u] \in AttemptRow
    BY ChildParts, ElementOfSeq, LenProperties
  <2> QED BY <1>2, <2>1 DEF AttemptRow
<1> HIDE DEF s
<1>8. r.session = SessionFor(r.status) /\ r.status # "waiting"
  BY <1>2, <1>4, ChildParts
<1>9. deliveries' \subseteq Delivery /\ InboxOK(inbox')
  BY <1>1, CoreTypes DEF InboxOK
<1>10. Core'
  BY <1>1, <1>2, <1>3, <1>4, <1>6, <1>8, <1>9, ChildMove
<1>11. OutcomeStep
  <2>1. \A u \in DOMAIN attempt[c] : attempt[c][u].status = "running" => s[u].status = "running"
    BY <1>7
  <2> QED BY <1>3, <2>1, OneOutcome DEF OwnOutcome
<1> QED BY <1>1, <1>10, <1>11 DEF Step, SnapshotCurrent

\* An attempt that its own worker ends.
LEMMA EndedOutcome ==
  ASSUME Core, NEW c \in Children, Active(c), NEW status \in {"continued", "finished"},
         attempt' = [attempt EXCEPT ![c] = Ended(@, status)]
  PROVE  OutcomeStep
<1>1. lease.live /\ lease.gen = attempt[c][Len(attempt[c])].gen /\ Len(attempt[c]) > 0
  BY ActiveParts, ChildParts, LenProperties
<1>2. status \in AttemptStatuses
  BY DEF AttemptStatuses
<1>3. \A t \in DOMAIN attempt[c] :
        Ended(attempt[c], status)[t].status
          = IF t = Len(attempt[c]) THEN status ELSE attempt[c][t].status
  BY <1>1, <1>2, ChildParts, EndedRows
<1> DEFINE s == Ended(attempt[c], status)
<1>4. attempt' = [attempt EXCEPT ![c] = s]
  OBVIOUS
<1>5. OwnOutcome(c, s)
  BY <1>1, <1>3 DEF OwnOutcome
<1> HIDE DEF s
<1> QED BY <1>4, <1>5, OneOutcome

\* Its attempt ends and it goes on.
LEMMA ContinueStep ==
  ASSUME Core, SnapshotCurrent, NEW c \in Children, Continue(c)
  PROVE  Step
<1> DEFINE s == Ended(attempt[c], "continued")
           r == [child[c] EXCEPT !.status = "ready", !.active = 0]
<1>1. /\ Active(c)
      /\ attempt' = [attempt EXCEPT ![c] = Ended(@, "continued")]
      /\ child' = [child EXCEPT ![c].status = "ready", ![c].active = 0]
      /\ inbox' = [inbox EXCEPT ![c] = Delivered(c)] /\ deliveries' = Committed(c)
      /\ UNCHANGED <<run, cp, root, lease>> /\ snapshot' = View'
  BY DEF Continue
<1>2. /\ run = "running" /\ child[c].status = "running"
      /\ attempt' = [attempt EXCEPT ![c] = s] /\ child' = [child EXCEPT ![c] = r]
  BY <1>1, ActiveParts
<1>3. /\ r \in ChildRow /\ r.status = "ready" /\ r.session = child[c].session
      /\ r.turns = child[c].turns /\ r.active = 0 /\ r.tokens = child[c].tokens
  BY ChildParts DEF ChildRow, AgentStatuses
<1>4. "continued" \in AttemptStatuses
  BY DEF AttemptStatuses
<1> HIDE DEF r
<1>5. s \in Seq(AttemptRow) /\ Matches(r, s)
  <2>1. Len(attempt[c]) > 0
    BY <1>2, ChildParts DEF Matches
  <2> QED BY <1>2, <1>3, <1>4, <2>1, ChildParts, EndedRows, EndMatches
<1> HIDE DEF s
<1>6. r.session = SessionFor(r.status)
  BY <1>2, <1>3, ChildParts DEF SessionFor, AgentEnded
<1>7. deliveries' \subseteq Delivery /\ \A d \in deliveries' : d.status = "prepared" => d \in deliveries
  BY <1>1, CoreTypes, CommittedRows
<1>8. InboxOK(inbox')
  BY <1>1, DeliveredInbox DEF InboxOK, Agents
<1>9. Core'
  BY <1>1, <1>2, <1>3, <1>5, <1>6, <1>7, <1>8, ChildMove
<1>10. OutcomeStep
  BY <1>1, EndedOutcome
<1> QED BY <1>1, <1>9, <1>10 DEF Step, SnapshotCurrent

\* It finishes.
LEMMA FinishStep ==
  ASSUME Core, SnapshotCurrent, NEW c \in Children, Finish(c)
  PROVE  Step
<1> DEFINE s == Ended(attempt[c], "finished")
           r == [child[c] EXCEPT !.status = "completed", !.active = 0, !.session = "archived"]
           m == Message("result", c, child[c].active)
           box == [inbox EXCEPT ![c] = Delivered(c)]
<1>1. /\ Active(c) /\ Room(Root, 1)
      /\ attempt' = [attempt EXCEPT ![c] = Ended(@, "finished")]
      /\ child' = [child EXCEPT ![c].status = "completed", ![c].active = 0,
                                ![c].session = "archived"]
      /\ inbox' = [inbox EXCEPT ![c] = Delivered(c), ![Root] = Append(@, m)]
      /\ deliveries' = Committed(c)
      /\ UNCHANGED <<run, cp, root, lease>> /\ snapshot' = View'
  BY DEF Finish
<1>2. /\ run = "running" /\ child[c].status = "running"
      /\ attempt' = [attempt EXCEPT ![c] = s] /\ child' = [child EXCEPT ![c] = r]
  BY <1>1, ActiveParts
<1>3. /\ r \in ChildRow /\ r.status = "completed" /\ r.session = "archived"
      /\ r.turns = child[c].turns /\ r.active = 0 /\ r.tokens = child[c].tokens
  BY ChildParts DEF ChildRow, AgentStatuses
<1>4. "finished" \in AttemptStatuses
  BY DEF AttemptStatuses
<1> HIDE DEF r
<1>5. s \in Seq(AttemptRow) /\ Matches(r, s)
  <2>1. Len(attempt[c]) > 0
    BY <1>2, ChildParts DEF Matches
  <2> QED BY <1>2, <1>3, <1>4, <2>1, ChildParts, EndedRows, EndMatches
<1> HIDE DEF s
<1>6. r.session = SessionFor(r.status)
  BY <1>3 DEF SessionFor, AgentEnded
<1>7. deliveries' \subseteq Delivery /\ \A d \in deliveries' : d.status = "prepared" => d \in deliveries
  BY <1>1, CoreTypes, CommittedRows
<1>8. m \in MessageRow
  BY ChildParts DEF Message, MessageRow, Agents
<1> HIDE DEF m
<1>9. InboxOK(inbox')
  <2>1. Root # c /\ Root \in Agents /\ c \in Agents
    BY AgentsAssumption DEF Agents
  <2>2. inbox \in [Agents -> Seq(MessageRow)] /\ \A b \in Agents : Len(inbox[b]) <= HistoryLimit
    BY CoreTypes
  <2>3. InboxOK(box)
    BY <2>1, DeliveredInbox DEF InboxOK
  <2>4. box[Root] = inbox[Root]
    BY <2>1, <2>2
  <2>5. inbox' = [box EXCEPT ![Root] = Append(inbox[Root], m)]
    BY <1>1, <2>1, <2>2
  <2>6. Append(inbox[Root], m) \in Seq(MessageRow)
        /\ Len(Append(inbox[Root], m)) = Len(inbox[Root]) + 1
    BY <1>8, <2>1, <2>2, AppendProperties
  <2>7. Len(inbox[Root]) + 1 <= HistoryLimit
    BY <1>1 DEF Room
  <2> HIDE DEF box
  <2> QED BY <2>1, <2>3, <2>5, <2>6, <2>7 DEF InboxOK
<1>10. Core'
  BY <1>1, <1>2, <1>3, <1>5, <1>6, <1>7, <1>9, ChildMove
<1>11. OutcomeStep
  BY <1>1, EndedOutcome
<1> QED BY <1>1, <1>10, <1>11 DEF Step, SnapshotCurrent

\* Crashes are recorded, each with its notice.
LEMMA CrashAllStep ==
  ASSUME Core, SnapshotCurrent, run = "running", lease.live,
         NEW s \in Seq(Children), CrashAll(s)
  PROVE  Step
<1>1. /\ UNCHANGED <<run, cp, root, lease>> /\ snapshot' = View'
      /\ inbox' = [inbox EXCEPT ![Root] = @ \o Notices(s)]
      /\ deliveries' = Superseded(deliveries, ToSet(s)) /\ Room(Root, Len(s))
  BY DEF CrashAll
<1>2. /\ ChildGroup' /\ OutcomeStep
      /\ \A c \in Children : child'[c].status = "waiting" => child'[c] = child[c]
  BY <1>1, CoreParts, CrashChildren
<1>3. /\ deliveries' \subseteq Delivery
      /\ \A d \in deliveries' : d.status = "prepared" => d \in deliveries
  BY <1>1, CoreTypes, SupersededRows
<1>4. Notices(s) \in Seq(MessageRow) /\ Len(Notices(s)) = Len(s)
  <2>1. Len(s) \in Nat /\ DOMAIN s = 1..Len(s)
    BY LenProperties
  <2>2. \A i \in 1..Len(s) : Message("crash", s[i], child[s[i]].active) \in MessageRow
    <3> TAKE i \in 1..Len(s)
    <3>1. s[i] \in Children
      BY ElementOfSeq
    <3> QED BY <3>1, ChildParts DEF Message, MessageRow, Agents
  <2>3. Notices(s) \in [1..Len(s) -> MessageRow]
    BY <2>1, <2>2 DEF Notices
  <2> QED BY <2>1, <2>3, IsASeq, LenProperties
<1>5. InboxOK(inbox')
  <2>1. inbox \in [Agents -> Seq(MessageRow)] /\ \A b \in Agents : Len(inbox[b]) <= HistoryLimit
    BY CoreTypes
  <2>2. Root \in Agents
    BY DEF Agents
  <2>3. inbox[Root] \o Notices(s) \in Seq(MessageRow)
        /\ Len(inbox[Root] \o Notices(s)) = Len(inbox[Root]) + Len(s)
    <3> DEFINE old == inbox[Root]
               notices == Notices(s)
    <3>1. old \in Seq(MessageRow) /\ notices \in Seq(MessageRow) /\ Len(notices) = Len(s)
      BY <1>4, <2>1, <2>2
    <3> HIDE DEF old, notices
    <3>2. old \o notices \in Seq(MessageRow) /\ Len(old \o notices) = Len(old) + Len(s)
      <4>1. old \o notices \in Seq(MessageRow)
        BY <3>1, ConcatProperties
      <4>2. Len(old \o notices) = Len(old) + Len(notices)
        BY <3>1
      <4> QED BY <3>1, <4>1, <4>2
    <3> QED BY <3>2 DEF old, notices
  <2>4. Len(inbox[Root]) + Len(s) <= HistoryLimit
    BY <1>1 DEF Room
  <2> QED BY <1>1, <2>1, <2>2, <2>3, <2>4 DEF InboxOK
<1>6. Core'
  BY <1>1, <1>2, <1>3, <1>5, ChildFrame
<1> QED BY <1>1, <1>2, <1>6 DEF Step, SnapshotCurrent

\* One child crashes.
LEMMA CrashStep ==
  ASSUME Core, SnapshotCurrent, NEW c \in Children, Crash(c)
  PROVE  Step
<1>1. <<c>> \in Seq(Children)
  OBVIOUS
<1> QED BY <1>1, ActiveParts, CrashAllStep DEF Crash

\* The stale attempts are recovered.
LEMMA RecoverStep == ASSUME Core, SnapshotCurrent, Recover PROVE Step
<1>1. run = "running" /\ lease.live
  BY DEF Recover
<1>2. PICK s \in SetToSeqs(Stale) : CrashAll(s)
  BY DEF Recover
<1>3. Stale \subseteq Children
  BY DEF Stale
<1>4. IsFiniteSet(Stale)
  BY <1>3, AgentsAssumption, FS_Subset
<1>5. Cardinality(Stale) \in Nat
  BY <1>4, FS_CardinalityType
<1>6. s \in [1..Cardinality(Stale) -> Children]
  BY <1>2, <1>3 DEF SetToSeqs
<1>7. s \in Seq(Children)
  BY <1>5, <1>6, IsASeq
<1> QED BY <1>1, <1>2, <1>7, CrashAllStep

\* A waiting child is woken by a message.
LEMMA WakeStep ==
  ASSUME Core, SnapshotCurrent, NEW c \in Children, Wake(c)
  PROVE  Step
<1> DEFINE r == [child[c] EXCEPT !.status = "ready", !.held = FALSE]
<1>1. /\ run = "running" /\ child[c].status = "waiting" /\ Room(c, 1)
      /\ inbox' = [inbox EXCEPT ![c] = Append(@, Message("wake", Root, 0))]
      /\ child' = [child EXCEPT ![c].status = "ready", ![c].held = FALSE]
      /\ UNCHANGED <<run, cp, root, lease, attempt, deliveries>> /\ snapshot' = View'
  BY DEF Wake
<1>2. child' = [child EXCEPT ![c] = r]
  BY <1>1
<1>3. /\ r \in ChildRow /\ r.status = "ready" /\ r.session = child[c].session
      /\ r.turns = child[c].turns /\ r.active = child[c].active /\ r.tokens = child[c].tokens
  BY ChildParts DEF ChildRow, AgentStatuses
<1> HIDE DEF r
<1>4. r.session = SessionFor(r.status)
  BY <1>1, <1>3, ChildParts DEF SessionFor, AgentEnded
<1>5. child[c].active = 0
  BY <1>1, ChildParts DEF Matches
<1>6. Matches(r, attempt[c])
  BY <1>1, <1>3, <1>5, ChildParts, IdleMatches
<1>7. attempt' = [attempt EXCEPT ![c] = attempt[c]] /\ deliveries' \subseteq Delivery
  BY <1>1, CoreParts, CoreTypes DEF ChildGroup
<1>8. Message("wake", Root, 0) \in MessageRow
  BY DEF Message, MessageRow, Agents
<1>9. InboxOK(inbox')
  BY <1>1, <1>8, AppendedInbox DEF Agents
<1>10. Core'
  BY <1>1, <1>2, <1>3, <1>4, <1>6, <1>7, <1>9, ChildParts, ChildMove
<1>11. OutcomeStep
  BY <1>1 DEF OutcomeStep
<1> QED BY <1>1, <1>10, <1>11 DEF Step, SnapshotCurrent

-----------------------------------------------------------------------------
\* The theorems.

\* The invariant in two parts.
LEMMA AgentInvIsCore == AgentInv <=> Core /\ SnapshotCurrent
BY DEF AgentInv, Core

\* It holds at the start.
LEMMA InitAgentInv == Init => AgentInv
<1> SUFFICES ASSUME Init PROVE AgentInv
  OBVIOUS
<1>1. /\ run = "running"
      /\ cp = [phase |-> "idle", turn |-> 1, attempt |-> 0, begun |-> 0]
      /\ root = [status |-> "ready", attempt |-> 0, turns |-> 0]
      /\ lease = [gen |-> 0, live |-> FALSE]
      /\ child = [c \in Children |-> NewChild] /\ attempt = [c \in Children |-> <<>>]
      /\ inbox = [a \in Agents |-> <<>>] /\ deliveries = {} /\ snapshot = View
  BY DEF Init
<1>2. NewChild \in ChildRow /\ NewChild.status = "absent" /\ NewChild.session = "none"
      /\ NewChild.turns = 0 /\ NewChild.active = 0 /\ NewChild.tokens = 0
  BY DEF NewChild, ChildRow, AgentStatuses
<1>3. Len(<<>>) = 0 /\ <<>> \in Seq(AttemptRow) /\ <<>> \in Seq(MessageRow)
  BY EmptySeq
<1>4. TypeOK
  <2>1. cp \in Checkpoint /\ root \in RootRow /\ lease \in [gen : Nat, live : BOOLEAN]
    BY <1>1 DEF Checkpoint, RootRow, AgentStatuses
  <2>2. run \in RunStatuses /\ deliveries \in SUBSET Delivery
    BY <1>1 DEF RunStatuses
  <2>3. child \in [Children -> ChildRow] /\ attempt \in [Children -> Seq(AttemptRow)]
        /\ inbox \in [Agents -> Seq(MessageRow)]
    BY <1>1, <1>2, <1>3
  <2>4. \A a \in Agents : Len(inbox[a]) <= HistoryLimit
    BY <1>1, <1>3, LimitsAssumption
  <2> QED BY <2>1, <2>2, <2>3, <2>4 DEF TypeOK
<1>5. AttemptsMatchNodes
  <2> SUFFICES ASSUME NEW c \in Children PROVE Matches(NewChild, <<>>)
    BY <1>1 DEF AttemptsMatchNodes
  <2>1. DOMAIN <<>> = {}
    OBVIOUS
  <2>2. {t \in DOMAIN <<>> : <<>>[t].used} = {}
    BY <2>1
  <2>3. Cardinality({t \in DOMAIN <<>> : <<>>[t].used}) = 0
    BY <2>2, FS_EmptySet
  <2> QED BY <1>2, <1>3, <2>1, <2>3 DEF Matches
<1>6. ChildrenEndWithRun
  BY <1>1, <1>2 DEF ChildrenEndWithRun, SessionFor, AgentEnded, TerminalRun
<1>7. PausedIsQuiet /\ NoneLeftPaused
  BY <1>1, <1>2 DEF PausedIsQuiet, NoneLeftPaused
<1>8. RunStarted /\ ReadyHasNoTurn /\ PreparedRootWorks /\ SnapshotCurrent
  BY <1>1 DEF RunStarted, ReadyHasNoTurn, PreparedRootWorks, SnapshotCurrent
<1> QED BY <1>4, <1>5, <1>6, <1>7, <1>8 DEF AgentInv

\* Every step keeps it.
LEMMA NextStep == AgentInv /\ [Next]_vars => Step \/ UNCHANGED vars
<1> SUFFICES ASSUME AgentInv, Next PROVE Step
  OBVIOUS
<1>1. Core /\ SnapshotCurrent
  BY AgentInvIsCore
<1>2. CASE RunStep
  <2>1. CASE Acquire \/ Expire
    BY <1>1, <2>1, LeaseStep
  <2>2. CASE RootBegin
    BY <1>1, <2>2, RootBeginStep
  <2>3. CASE RootPrepareInbox
    BY <1>1, <2>3, RootPrepareInboxStep
  <2>4. CASE RootBoundary
    BY <1>1, <2>4, RootBoundaryStep
  <2>5. CASE RootFail
    BY <1>1, <2>5, RootFailStep
  <2>6. CASE \E action \in {"continue", "wait", "finish", "retain"} : RootComplete(action)
    BY <1>1, <2>6, RootCompleteStep
  <2>7. CASE EndFailedTurn
    BY <1>1, <2>7, EndFailedTurnStep
  <2>8. CASE \E to \in {"completed", "failed"} : Finalize(to)
    BY <1>1, <2>8, FinalizeStep
  <2>9. CASE \E to \in RunStatuses : Transition(to)
    BY <1>1, <2>9, TransitionStep
  <2>10. CASE AskApproval \/ AnswerApproval
    BY <1>1, <2>10, ApprovalStep
  <2> QED BY <1>2, <2>1, <2>2, <2>3, <2>4, <2>5, <2>6, <2>7, <2>8, <2>9, <2>10 DEF RunStep
<1>3. CASE \E c \in Children : ChildStep(c)
  <2>1. PICK c \in Children : ChildStep(c)
    BY <1>3
  <2>2. CASE \E limit \in Limits : Admit(c, limit)
    BY <1>1, <2>2, AdmitStep
  <2>3. CASE BeginAttempt(c)
    BY <1>1, <2>3, BeginAttemptStep
  <2>4. CASE PrepareContext(c)
    BY <1>1, <2>4, PrepareContextStep
  <2>5. CASE RecordUsage(c)
    BY <1>1, <2>5, RecordUsageStep
  <2>6. CASE Continue(c)
    BY <1>1, <2>6, ContinueStep
  <2>7. CASE Finish(c)
    BY <1>1, <2>7, FinishStep
  <2>8. CASE Crash(c)
    BY <1>1, <2>8, CrashStep
  <2>9. CASE Wake(c)
    BY <1>1, <2>9, WakeStep
  <2> QED BY <2>1, <2>2, <2>3, <2>4, <2>5, <2>6, <2>7, <2>8, <2>9 DEF ChildStep
<1>4. CASE Recover
  BY <1>1, <1>4, RecoverStep
<1>5. CASE \E a \in Agents : Consume(a)
  BY <1>1, <1>5, ConsumeStep
<1>6. CASE \E a \in Addressed, kind \in {"instruction", "other"} : Send(a, kind)
  BY <1>1, <1>6, SendStep
<1> QED BY <1>2, <1>3, <1>4, <1>5, <1>6 DEF Next

\* And so does a step that changes nothing.
LEMMA StutterStep == AgentInv /\ UNCHANGED vars => Step
<1> SUFFICES ASSUME AgentInv, UNCHANGED vars PROVE Step
  OBVIOUS
<1>1. Core /\ SnapshotCurrent
  BY AgentInvIsCore
<1>2. InboxOK(inbox')
  BY <1>1, InboxUnchanged DEF vars
<1>3. Core' /\ OutcomeStep
  BY <1>1, <1>2, MessageFrame DEF vars
<1>4. View' = View
  BY DEF vars, View, Unread, PreparedTo
<1> QED BY <1>1, <1>3, <1>4 DEF Step, SnapshotCurrent, vars

\* The invariant holds of every state: whatever the order in which the run is
\* paused, resumed, taken over or ended while children work, crash, finish and
\* talk.
THEOREM AgentInvariant == Spec => []AgentInv
<1>1. AgentInv /\ [Next]_vars => AgentInv'
  BY NextStep, StutterStep, AgentInvIsCore DEF Step, AgentInv, Core
<1> QED BY InitAgentInv, <1>1, PTL DEF Spec

\* Every variable keeps its type, and no inbox its bound on rows.
THEOREM AgentTypes == Spec => []TypeOK
<1>1. AgentInv => TypeOK
  BY DEF AgentInv
<1> QED BY AgentInvariant, <1>1, PTL

\* No pause, takeover or crash parts a child's row from its attempts, as
\* validateAgentAttemptProjectionTx requires.
THEOREM AttemptsMatch == Spec => []AttemptsMatchNodes
<1>1. AgentInv => AttemptsMatchNodes
  BY DEF AgentInv
<1> QED BY AgentInvariant, <1>1, PTL

\* No child works in a paused run, none is left in a pause its run has come
\* out of, and every child and its session end with the run
\* (syncSpecialistLifecycleTx).
THEOREM ChildrenFollow == Spec => []ChildrenFollowRun
<1>1. AgentInv => ChildrenFollowRun
  BY DEF AgentInv, ChildrenFollowRun
<1> QED BY AgentInvariant, <1>1, PTL

\* Every transaction that changes what a snapshot shows saves one.
THEOREM SnapshotsAreCurrent == Spec => []SnapshotCurrent
<1>1. AgentInv => SnapshotCurrent
  BY DEF AgentInv
<1> QED BY AgentInvariant, <1>1, PTL

\* No worker records the outcome of an attempt under another lease than the
\* one the attempt was begun with (loadActiveAgentAttemptTx).
THEOREM OutcomesUnderOwnLease == Spec => OutcomeUnderOwnLease
<1>1. AgentInv /\ [Next]_vars =>
        [\A c \in Children : \A t \in DOMAIN attempt[c] :
           attempt[c][t].status = "running" =>
             CASE attempt'[c][t].status \in {"continued", "finished"} ->
                    lease.live /\ lease.gen = attempt[c][t].gen
               [] attempt'[c][t].status = "crashed" -> lease.live /\ run = "running"
               [] attempt'[c][t].status = "interrupted" -> run' # "running"
               [] OTHER -> TRUE]_vars
  BY NextStep DEF Step, OutcomeStep
<1> QED BY AgentInvariant, <1>1, PTL DEF Spec, OutcomeUnderOwnLease

-----------------------------------------------------------------------------
\* Sums over finite sets, by counting.

\* What f sums up to over T, as a set: f[x] elements for each x.
Units(f, T) == {p \in T \X Nat : p[2] < f[p[1]]}

\* f counts the units of one argument.
LEMMA UnitsOfOne ==
  ASSUME NEW f, NEW x, f[x] \in Nat
  PROVE  IsFiniteSet(Units(f, {x})) /\ Cardinality(Units(f, {x})) = f[x]
<1> DEFINE g == [i \in 0..(f[x] - 1) |-> <<x, i>>]
<1>1. IsFiniteSet(0..(f[x] - 1)) /\ Cardinality(0..(f[x] - 1)) = f[x]
  BY FS_Interval
<1>2. g \in [0..(f[x] - 1) -> Units(f, {x})]
  BY DEF Units
<1>3. ASSUME NEW p \in Units(f, {x}) PROVE p[2] \in 0..(f[x] - 1) /\ g[p[2]] = p
  BY <1>3 DEF Units
<1>4. g \in Surjection(0..(f[x] - 1), Units(f, {x}))
  BY <1>2, <1>3 DEF Surjection
<1>5. g \in Injection(0..(f[x] - 1), Units(f, {x}))
  BY <1>2 DEF Injection, IsInjective
<1> QED BY <1>1, <1>4, <1>5, FS_Surjection

\* An argument adds its own units and no others.
LEMMA UnitsStep ==
  ASSUME NEW f, NEW T, NEW x \in T, \A y \in T : f[y] \in Nat,
         IsFiniteSet(Units(f, T \ {x}))
  PROVE  /\ IsFiniteSet(Units(f, T))
         /\ Cardinality(Units(f, T)) = f[x] + Cardinality(Units(f, T \ {x}))
<1>1. Units(f, T) = Units(f, {x}) \cup Units(f, T \ {x})
  BY DEF Units
<1>2. Units(f, {x}) \cap Units(f, T \ {x}) = {}
  BY DEF Units
<1>3. IsFiniteSet(Units(f, {x})) /\ Cardinality(Units(f, {x})) = f[x]
  BY UnitsOfOne
<1>4. Cardinality(Units(f, T \ {x})) \in Nat
  BY FS_CardinalityType
<1> HIDE DEF Units
<1>5. /\ IsFiniteSet(Units(f, {x}) \cup Units(f, T \ {x}))
      /\ Cardinality(Units(f, {x}) \cup Units(f, T \ {x}))
           = Cardinality(Units(f, {x})) + Cardinality(Units(f, T \ {x}))
               - Cardinality(Units(f, {x}) \cap Units(f, T \ {x}))
  BY <1>3, FS_Union, Zenon
<1>6. Cardinality(Units(f, {x}) \cap Units(f, T \ {x})) = 0 /\ f[x] \in Nat
  BY <1>2, FS_EmptySet
<1>7. f[x] + Cardinality(Units(f, T \ {x})) - 0 = f[x] + Cardinality(Units(f, T \ {x}))
  BY <1>4, <1>6
<1> QED BY <1>1, <1>3, <1>5, <1>6, <1>7

\* A set of subsets of a finite set that is not empty has a member that has
\* no smaller one.
LEMMA SmallestSubset ==
  ASSUME NEW S, IsFiniteSet(S), NEW K, K \subseteq SUBSET S, K # {}
  PROVE  \E T \in K : \A U \in K : U \subseteq T => U = T
<1>1. FiniteSubsetsOf(S) = SUBSET S
  BY FS_FiniteSubsetsOfFinite
<1>2. IsWellFoundedOn(StrictSubsetOrdering(S), SUBSET S)
  BY <1>1, FS_StrictSubsetOrderingWellFounded
<1>3. \E T \in K : \A U \in K : <<U, T>> \notin StrictSubsetOrdering(S)
  BY <1>2, WFMin
<1> QED BY <1>3 DEF StrictSubsetOrdering

\* There are finitely many units over every part of a finite set: a smallest part
\* that had infinitely many would lose finitely many with one argument.
LEMMA UnitsFinite ==
  ASSUME NEW f, NEW S, IsFiniteSet(S), \A x \in S : f[x] \in Nat
  PROVE  \A T \in SUBSET S : IsFiniteSet(Units(f, T))
<1> DEFINE K == {T \in SUBSET S : ~IsFiniteSet(Units(f, T))}
<1> SUFFICES ASSUME K # {} PROVE FALSE
  OBVIOUS
<1>0. K \subseteq SUBSET S
  OBVIOUS
<1>1. PICK T \in K : \A U \in K : U \subseteq T => U = T
  <2> HIDE DEF K
  <2> QED BY <1>0, SmallestSubset
<1>2. CASE T = {}
  BY <1>1, <1>2, FS_EmptySet DEF Units
<1>3. CASE T # {}
  <2>1. PICK x \in T : TRUE
    BY <1>3
  <2>2. IsFiniteSet(Units(f, T \ {x}))
    BY <1>1, <2>1
  <2> QED BY <2>1, <2>2, UnitsStep
<1> QED BY <1>2, <1>3

\* SumFunction adds up: what it returns is the number of units, by the same
\* descent to the smallest part for which it would not be.
LEMMA SumIsCount ==
  ASSUME NEW S, IsFiniteSet(S), NEW f \in [S -> Nat]
  PROVE  SumFunction(f) = Cardinality(Units(f, S)) /\ IsFiniteSet(Units(f, S))
<1> DEFINE Some(s) == CHOOSE x \in s : TRUE
           Def(h, s) == IF s = {} THEN 0 ELSE f[Some(s)] + h[s \ {Some(s)}]
           iter == CHOOSE h : h = [s \in SUBSET S |-> Def(h, s)]
           count == [s \in SUBSET S |-> Cardinality(Units(f, s))]
<1>0. \A T \in SUBSET S : IsFiniteSet(Units(f, T))
  BY UnitsFinite
<1>1. SumFunction(f) = iter[S]
  BY DEF SumFunction, SumFunctionOnSet, FoldFunctionOnSet, MapThenFoldSet
<1>2. ASSUME NEW s \in SUBSET S PROVE count[s] = Def(count, s)
  <2>1. CASE s = {}
    BY <2>1, FS_EmptySet DEF Units
  <2>2. CASE s # {}
    <3>1. Some(s) \in s
      BY <2>2
    <3>2. Cardinality(Units(f, s)) = f[Some(s)] + Cardinality(Units(f, s \ {Some(s)}))
      <4> HIDE DEF Some
      <4> QED BY <1>0, <3>1, UnitsStep
    <3> QED BY <2>2, <3>2
  <2> QED BY <2>1, <2>2
<1>3. count = [s \in SUBSET S |-> Def(count, s)]
  BY <1>2
<1>4. iter = [s \in SUBSET S |-> Def(iter, s)]
  <2> HIDE DEF count, Def
  <2> QED BY <1>3
<1>5. ASSUME NEW s \in SUBSET S, iter[s] # count[s] PROVE FALSE
  <2> HIDE DEF iter
  <2> DEFINE K == {t \in SUBSET S : iter[t] # count[t]}
  <2>0. K \subseteq SUBSET S /\ K # {}
    BY <1>5
  <2>1. PICK t \in K : \A u \in K : u \subseteq t => u = t
    <3> HIDE DEF K
    <3> QED BY <2>0, SmallestSubset
  <2>2. CASE t = {}
    BY <1>4, <1>2, <2>1, <2>2
  <2>3. CASE t # {}
    <3>1. Some(t) \in t
      BY <2>3
    <3> HIDE DEF Some
    <3>2. iter[t \ {Some(t)}] = count[t \ {Some(t)}]
      <4>1. t \ {Some(t)} \in SUBSET S /\ t \ {Some(t)} \notin K
        BY <2>1, <3>1
      <4> HIDE DEF count
      <4> QED BY <4>1
    <3>3. iter[t] = Def(iter, t) /\ count[t] = Def(count, t)
      BY <1>4, <1>2, <2>1
    <3> QED BY <3>2, <3>3, <2>1, <2>3
  <2> QED BY <2>2, <2>3
<1> QED BY <1>0, <1>1, <1>5

\* A function that is no greater anywhere has no greater sum.
LEMMA SumMonotone ==
  ASSUME NEW S, IsFiniteSet(S), NEW f \in [S -> Nat], NEW g \in [S -> Nat],
         \A x \in S : f[x] <= g[x]
  PROVE  SumFunction(f) \in Nat /\ SumFunction(f) <= SumFunction(g)
<1>1. /\ SumFunction(f) = Cardinality(Units(f, S)) /\ IsFiniteSet(Units(f, S))
      /\ SumFunction(g) = Cardinality(Units(g, S)) /\ IsFiniteSet(Units(g, S))
  BY SumIsCount
<1>2. Units(f, S) \in SUBSET Units(g, S)
  BY DEF Units
<1> QED BY <1>1, <1>2, FS_Subset, FS_CardinalityType

\* A function that is changed at one argument has a sum changed by as much.
LEMMA SumReplaced ==
  ASSUME NEW S, IsFiniteSet(S), NEW f \in [S -> Nat], NEW g \in [S -> Nat], NEW c \in S,
         \A x \in S : x # c => g[x] = f[x]
  PROVE  SumFunction(g) + f[c] = SumFunction(f) + g[c]
<1>1. /\ SumFunction(f) = Cardinality(Units(f, S)) /\ SumFunction(g) = Cardinality(Units(g, S))
  BY SumIsCount
<1>2. S \ {c} \in SUBSET S /\ IsFiniteSet(Units(f, S \ {c})) /\ IsFiniteSet(Units(g, S \ {c}))
  BY UnitsFinite
<1>3. Cardinality(Units(f, S)) = f[c] + Cardinality(Units(f, S \ {c}))
  BY <1>2, UnitsStep
<1>4. Cardinality(Units(g, S)) = g[c] + Cardinality(Units(g, S \ {c}))
  BY <1>2, UnitsStep
<1>5. Units(f, S \ {c}) = Units(g, S \ {c})
  BY DEF Units
<1>6. Cardinality(Units(f, S \ {c})) \in Nat /\ f[c] \in Nat /\ g[c] \in Nat
  BY <1>2, FS_CardinalityType
<1> QED BY <1>1, <1>3, <1>4, <1>5, <1>6

\* Zeros sum up to zero.
LEMMA SumOfNone ==
  ASSUME NEW S, IsFiniteSet(S), NEW f \in [S -> Nat], \A x \in S : f[x] = 0
  PROVE  SumFunction(f) = 0
<1>1. Units(f, S) = {}
  BY DEF Units
<1> QED BY <1>1, SumIsCount, FS_EmptySet

-----------------------------------------------------------------------------
\* The budget of turns.

\* What Reserved adds up, and what of it the children have used.
LimitsGiven == [c \in Children |-> child[c].limit]
TurnsTaken == [c \in Children |-> child[c].turns]

\* The budget's invariant: the checkpoint has counted the root's turns, what the
\* children were given fits in what these leave, a turn that is started or whose
\* end is due fits as well, and no child has had more turns than its limit.
BudgetKept ==
  /\ root.turns + 1 = cp.turn
  /\ root.turns + Reserved <= MaxTurns
  /\ cp.phase \in {"turn_started", "turn_failed"} => cp.turn + Reserved <= MaxTurns
  /\ \A c \in Children : child[c].turns <= child[c].limit

\* The types of the accounts.
LEMMA BudgetTypes ==
  ASSUME Core
  PROVE  /\ LimitsGiven \in [Children -> Nat] /\ TurnsTaken \in [Children -> Nat]
         /\ Reserved \in Nat /\ Reserved = SumFunction(LimitsGiven)
         /\ root.turns \in Nat /\ cp.turn \in Nat \ {0} /\ MaxTurns \in Nat
<1>1. child \in [Children -> ChildRow]
  BY CoreParts DEF ChildGroup
<1>2. \A c \in Children : child[c].limit \in Nat /\ child[c].turns \in Nat
  BY <1>1 DEF ChildRow
<1>3. LimitsGiven \in [Children -> Nat] /\ TurnsTaken \in [Children -> Nat]
  BY <1>2 DEF LimitsGiven, TurnsTaken
<1>4. Reserved = SumFunction(LimitsGiven)
  BY DEF Reserved, LimitsGiven
<1>5. SumFunction(LimitsGiven) \in Nat
  <2>1. \A c \in Children : LimitsGiven[c] <= LimitsGiven[c]
    BY <1>3
  <2> QED BY <1>3, <2>1, AgentsAssumption, SumMonotone
<1> QED BY <1>3, <1>4, <1>5, CoreTypes, CheckpointTypes, LimitsAssumption DEF RootRow

\* What the run's status makes of a child leaves its turns and its limit.
LEMMA ProjectedKeeps ==
  ASSUME NEW r \in ChildRow, NEW to, NEW status
  PROVE  /\ Projected(r, to, status).turns = r.turns
         /\ Projected(r, to, status).limit = r.limit
<1>1. CASE r.status \in AgentEnded \cup {"absent"}
  BY <1>1 DEF Projected
<1>2. CASE r.status \notin AgentEnded \cup {"absent"} /\ Stops(to, r)
  BY <1>2 DEF Projected, ChildRow
<1>3. CASE r.status \notin AgentEnded \cup {"absent"} /\ ~Stops(to, r) /\ Resumes(to, status, r)
  BY <1>3 DEF Projected, ChildRow
<1>4. CASE /\ r.status \notin AgentEnded \cup {"absent"} /\ ~Stops(to, r)
           /\ ~Resumes(to, status, r) /\ to \in TerminalRun
  BY <1>4 DEF Projected, Closed, ChildRow
<1>5. CASE /\ r.status \notin AgentEnded \cup {"absent"} /\ ~Stops(to, r)
           /\ ~Resumes(to, status, r) /\ to \notin TerminalRun
  BY <1>5 DEF Projected
<1> QED BY <1>1, <1>2, <1>3, <1>4, <1>5

\* Every child keeps its turns and its limit.
AccountsKept ==
  \A c \in Children : child'[c].limit = child[c].limit /\ child'[c].turns = child[c].turns

\* What the children were given is the same when their limits are.
LEMMA KeptAccounts ==
  ASSUME AccountsKept
  PROVE  Reserved' = Reserved
<1>1. [c \in Children |-> child'[c].limit] = [c \in Children |-> child[c].limit]
  BY DEF AccountsKept
<1> QED BY <1>1 DEF Reserved

\* syncAgentSupervisorProjectionTx moves no limit and no turn of a child, and
\* gives the root the turns that its checkpoint has counted.
LEMMA SyncAccounts ==
  ASSUME Core, NEW to, NEW status, NEW new, NEW D, Sync(to, status, new, D), cp' = new
  PROVE  AccountsKept /\ root'.turns = cp'.turn - 1
<1>1. child \in [Children -> ChildRow]
  BY CoreParts DEF ChildGroup
<1>2. root'.turns = cp'.turn - 1
  BY DEF Sync
<1>3. ASSUME NEW c \in Children
      PROVE  child'[c].limit = child[c].limit /\ child'[c].turns = child[c].turns
  <2>1. child'[c] = Projected(child[c], to, status)
    BY DEF Sync
  <2> QED BY <1>1, <2>1, ProjectedKeeps
<1> QED BY <1>2, <1>3 DEF AccountsKept

\* A step of the supervisor: its new checkpoint has counted the same turns as
\* the root, and a turn that is started or may be ended as failed is covered.
LEMMA RootAccounts ==
  ASSUME Core, Core', BudgetKept, AccountsKept, root'.turns = cp'.turn - 1,
         \/ cp'.turn = cp.turn
         \/ cp'.turn = cp.turn + 1 /\ cp.turn + Reserved <= MaxTurns,
         cp'.phase \in {"turn_started", "turn_failed"} => cp'.turn + Reserved <= MaxTurns
  PROVE  BudgetKept'
<1>1. Reserved' = Reserved
  BY KeptAccounts
<1>2. /\ root.turns \in Nat /\ cp.turn \in Nat \ {0} /\ Reserved \in Nat /\ MaxTurns \in Nat
      /\ root'.turns \in Nat /\ cp'.turn \in Nat \ {0}
  BY BudgetTypes, CheckpointTypes, CoreTypes DEF Core, TypeOK, RootRow, Checkpoint
<1>3. \A c \in Children : child'[c].turns <= child'[c].limit
  BY DEF AccountsKept, BudgetKept
<1> QED BY <1>1, <1>2, <1>3 DEF BudgetKept

\* A step that leaves the supervisor and the root alone, and of one child at
\* most its turns within its limit.
LEMMA ChildAccounts ==
  ASSUME Core, BudgetKept, UNCHANGED <<cp, root>>, Reserved' = Reserved,
         \A c \in Children : child'[c].turns <= child'[c].limit
  PROVE  BudgetKept'
BY DEF BudgetKept

\* No step of the supervisor overdraws the budget: a turn is started only where
\* root and children leave one.
LEMMA RunStepBudget ==
  ASSUME Core, Core', BudgetKept, RunStep
  PROVE  BudgetKept'
<1>0. /\ root.turns \in Nat /\ cp.turn \in Nat \ {0} /\ Reserved \in Nat /\ MaxTurns \in Nat
  BY BudgetTypes
<1>00. /\ root.turns + 1 = cp.turn /\ root.turns + Reserved <= MaxTurns
       /\ cp.phase \in {"turn_started", "turn_failed"} => cp.turn + Reserved <= MaxTurns
  BY DEF BudgetKept
<1>1. CASE RootBegin
  <2> DEFINE new == [phase |-> "turn_started", turn |-> cp.turn, attempt |-> cp.begun + 1,
                     begun |-> cp.begun + 1]
  <2>1. cp' = new /\ Sync(run, "running", new, deliveries) /\ cp.turn <= MaxTurns - Reserved
    BY <1>1 DEF RootBegin, RootTurns
  <2>2. cp'.turn = cp.turn
    BY <2>1
  <2>3. AccountsKept /\ root'.turns = cp'.turn - 1
    BY <2>1, SyncAccounts
  <2> QED BY <1>0, <2>1, <2>2, <2>3, RootAccounts
<1>2. CASE \E action \in {"continue", "wait", "finish", "retain"} : RootComplete(action)
  <2>1. PICK action \in {"continue", "wait", "finish", "retain"} : RootComplete(action)
    BY <1>2
  <2> DEFINE phase == CASE action = "continue" -> "idle"
                        [] action \in {"wait", "retain"} -> "waiting"
                        [] action = "finish" -> "run_completed"
             new == [cp EXCEPT !.turn = @ + 1, !.attempt = 0, !.phase = phase]
             status == CASE action = "continue" -> "ready" [] action = "finish" -> "completed"
                         [] OTHER -> "waiting"
  <2>2. phase \in {"idle", "waiting", "run_completed"}
    OBVIOUS
  <2>3. cp' = new /\ Sync(run', status, new, Committed(Root)) /\ cp.phase = "turn_started"
    BY <2>1 DEF RootComplete, Supervising
  <2> HIDE DEF phase, status
  <2>4. cp'.turn = cp.turn + 1 /\ cp'.phase = phase
    BY <2>3, CoreTypes DEF Checkpoint
  <2>5. AccountsKept /\ root'.turns = cp'.turn - 1
    BY <2>3, SyncAccounts
  <2> QED BY <1>00, <2>2, <2>3, <2>4, <2>5, RootAccounts
<1>3. CASE RootBoundary
  <2>1. /\ cp'.turn = cp.turn + 1 /\ root'.turns = cp.turn /\ cp.turn < MaxTurns - Reserved
        /\ child' = [c \in Children |-> Projected(child[c], "running", "ready")]
    BY <1>3, CoreTypes DEF RootBoundary, RootTurns, Checkpoint
  <2>2. AccountsKept
    BY <2>1, CoreParts, ProjectedKeeps DEF ChildGroup, AccountsKept
  <2> QED BY <1>0, <2>1, <2>2, RootAccounts
<1>4. CASE RootFail
  <2> DEFINE new == [cp EXCEPT !.phase = "turn_failed"]
             status == IF run = "running" THEN "waiting" ELSE RootStatusFor(run, FALSE)
  <2>1. cp' = new /\ Sync(run', status, new, deliveries) /\ cp.phase = "turn_started"
    BY <1>4 DEF RootFail
  <2>2. cp'.turn = cp.turn
    BY <2>1, CoreTypes DEF Checkpoint
  <2>3. AccountsKept /\ root'.turns = cp'.turn - 1
    BY <2>1, SyncAccounts
  <2> QED BY <1>00, <2>1, <2>2, <2>3, RootAccounts
<1>5. CASE EndFailedTurn
  <2> DEFINE new == [cp EXCEPT !.phase = "idle", !.turn = @ + 1, !.attempt = 0]
  <2>1. /\ cp' = new /\ Sync(run, "ready", new, deliveries)
        /\ cp.phase \in {"turn_started", "turn_failed"}
    BY <1>5 DEF EndFailedTurn
  <2>2. cp'.turn = cp.turn + 1 /\ cp'.phase = "idle"
    BY <2>1, CoreTypes DEF Checkpoint
  <2>3. AccountsKept /\ root'.turns = cp'.turn - 1
    BY <2>1, SyncAccounts
  <2> QED BY <1>00, <2>1, <2>2, <2>3, RootAccounts
<1>6. CASE \E to \in {"completed", "failed"} : Finalize(to)
  <2>1. PICK to \in {"completed", "failed"} : Finalize(to)
    BY <1>6
  <2> DEFINE new == [cp EXCEPT !.attempt = 0,
                               !.phase = IF to = "completed" THEN "run_completed" ELSE "run_failed"]
  <2>2. cp' = new /\ Sync(to, to, new, deliveries)
    BY <2>1 DEF Finalize
  <2>3. cp'.turn = cp.turn /\ cp'.phase \in {"run_completed", "run_failed"}
    BY <2>2, CoreTypes DEF Checkpoint
  <2>4. AccountsKept /\ root'.turns = cp'.turn - 1
    BY <2>2, SyncAccounts
  <2> QED BY <2>3, <2>4, RootAccounts
<1>7. CASE \E to \in RunStatuses : Transition(to)
  <2>1. PICK to \in RunStatuses : Transition(to)
    BY <1>7
  <2>2. cp' = cp /\ Sync(to, RootStatusFor(to, cp.phase = "turn_started"), cp, deliveries)
    BY <2>1 DEF Transition
  <2>3. AccountsKept /\ root'.turns = cp'.turn - 1
    BY <2>2, SyncAccounts
  <2> QED BY <1>00, <2>2, <2>3, RootAccounts
<1>8. CASE Acquire \/ Expire \/ RootPrepareInbox \/ AskApproval \/ AnswerApproval
  <2>1. UNCHANGED <<cp, root, child>>
    BY <1>8 DEF Acquire, Expire, RootPrepareInbox, AskApproval, AnswerApproval
  <2>2. AccountsKept
    BY <2>1 DEF AccountsKept
  <2>3. Reserved' = Reserved
    BY <2>2, KeptAccounts
  <2> QED BY <2>1, <2>3, ChildAccounts DEF BudgetKept
<1> QED BY <1>1, <1>2, <1>3, <1>4, <1>5, <1>6, <1>7, <1>8 DEF RunStep

\* A child that is admitted takes its limit out of what the root has left.
LEMMA AdmitBudget ==
  ASSUME Core, Core', BudgetKept, NEW c \in Children, NEW limit \in Limits, Admit(c, limit)
  PROVE  BudgetKept'
<1>1. /\ UNCHANGED <<cp, root>> /\ root.status = "ready"
      /\ MaxTurns - Reserved - root.turns - limit >= 1
      /\ child' = [child EXCEPT ![c] = [NewChild EXCEPT !.status = "ready", !.limit = limit,
                                                        !.session = "active"]]
  BY DEF Admit, RootTurns
<1>2. limit \in Nat /\ child \in [Children -> ChildRow]
  BY CoreParts, LimitsAssumption DEF ChildGroup
<1>3. /\ child'[c].limit = limit /\ child'[c].turns = 0
      /\ \A d \in Children : d # c => child'[d] = child[d]
  BY <1>1, <1>2 DEF NewChild
<1>4. /\ LimitsGiven \in [Children -> Nat] /\ Reserved \in Nat /\ Reserved = SumFunction(LimitsGiven)
      /\ root.turns \in Nat /\ cp.turn \in Nat \ {0} /\ MaxTurns \in Nat
  BY BudgetTypes
<1> DEFINE given == [d \in Children |-> child'[d].limit]
<1>5. /\ given \in [Children -> Nat] /\ Reserved' = SumFunction(given) /\ Reserved' \in Nat
  <2>1. child' \in [Children -> ChildRow]
    BY CoreParts DEF Core, TypeOK
  <2>2. given \in [Children -> Nat]
    BY <2>1 DEF ChildRow
  <2>3. Reserved' = SumFunction(given)
    BY DEF Reserved
  <2>4. \A d \in Children : given[d] <= given[d]
    BY <2>2
  <2> HIDE DEF given
  <2>5. SumFunction(given) \in Nat
    BY <2>2, <2>4, AgentsAssumption, SumMonotone
  <2> QED BY <2>2, <2>3, <2>5
<1>6. Reserved' + child[c].limit = Reserved + limit
  <2>1. given[c] = limit /\ LimitsGiven[c] = child[c].limit
    BY <1>3 DEF LimitsGiven
  <2>2. \A d \in Children : d # c => given[d] = LimitsGiven[d]
    BY <1>3 DEF LimitsGiven
  <2> HIDE DEF given
  <2>3. SumFunction(given) + LimitsGiven[c] = SumFunction(LimitsGiven) + given[c]
    BY <1>4, <1>5, <2>2, AgentsAssumption, SumReplaced
  <2> QED BY <1>4, <1>5, <2>1, <2>3
<1>7. child[c].limit \in Nat
  BY <1>2 DEF ChildRow
<1>8. root.turns + 1 = cp.turn /\ root.turns + 1 + Reserved' <= MaxTurns
  BY <1>1, <1>2, <1>4, <1>5, <1>6, <1>7 DEF BudgetKept
<1>9. \A d \in Children : child'[d].turns <= child'[d].limit
  BY <1>2, <1>3 DEF BudgetKept
<1> QED BY <1>1, <1>4, <1>5, <1>8, <1>9 DEF BudgetKept

\* Nor does any other step: a child is admitted with a limit that is left, and a
\* child's turn counts against its limit.
LEMMA BudgetStep ==
  ASSUME Core, Core', BudgetKept, Next
  PROVE  BudgetKept'
<1>0. child \in [Children -> ChildRow]
  BY CoreParts DEF ChildGroup
<1>1. CASE RunStep
  BY <1>1, RunStepBudget
<1>2. ASSUME UNCHANGED <<cp, root>>, AccountsKept PROVE BudgetKept'
  BY <1>2, KeptAccounts, ChildAccounts DEF BudgetKept, AccountsKept
<1>3. ASSUME NEW c \in Children, ChildStep(c) PROVE BudgetKept'
  <2>1. CASE \E limit \in Limits : Admit(c, limit)
    BY <2>1, AdmitBudget
  <2>2. CASE BeginAttempt(c)
    <3>1. /\ UNCHANGED <<cp, root>> /\ child[c].turns < child[c].limit
          /\ child' = [child EXCEPT ![c].status = "running", ![c].active = child[c].turns + 1,
                                    ![c].turns = @ + 1]
      BY <2>2 DEF BeginAttempt, HasBudget
    <3>2. \A d \in Children :
            /\ child'[d].limit = child[d].limit
            /\ child'[d].turns = IF d = c THEN child[c].turns + 1 ELSE child[d].turns
      BY <1>0, <3>1 DEF ChildRow
    <3>3. [d \in Children |-> child'[d].limit] = [d \in Children |-> child[d].limit]
      BY <3>2
    <3>4. Reserved' = Reserved
      BY <3>3 DEF Reserved
    <3>5. child[c].turns \in Nat /\ child[c].limit \in Nat
      BY <1>0 DEF ChildRow
    <3>6. \A d \in Children : child'[d].turns <= child'[d].limit
      <4>1. \A d \in Children : child[d].turns <= child[d].limit
        BY DEF BudgetKept
      <4>2. child[c].turns + 1 <= child[c].limit
        BY <3>1, <3>5
      <4> QED BY <3>2, <4>1, <4>2
    <3> QED BY <3>1, <3>4, <3>6, ChildAccounts
  <2>3. CASE PrepareContext(c)
    BY <1>2, <2>3 DEF PrepareContext, AccountsKept
  <2>4. CASE RecordUsage(c) \/ Continue(c) \/ Finish(c) \/ Wake(c)
    <3>1. UNCHANGED <<cp, root>>
      BY <2>4 DEF RecordUsage, Continue, Finish, Wake
    <3>2. \/ child' = [child EXCEPT ![c].tokens = @ + 1]
          \/ child' = [child EXCEPT ![c].status = "ready", ![c].active = 0]
          \/ child' = [child EXCEPT ![c].status = "completed", ![c].active = 0,
                                    ![c].session = "archived"]
          \/ child' = [child EXCEPT ![c].status = "ready", ![c].held = FALSE]
      BY <2>4 DEF RecordUsage, Continue, Finish, Wake
    <3>3. AccountsKept
      BY <1>0, <3>2 DEF AccountsKept, ChildRow
    <3> QED BY <1>2, <3>1, <3>3
  <2>5. CASE Crash(c)
    BY <1>0, <1>2, <2>5 DEF Crash, CrashAll, Crashed, AccountsKept, ChildRow
  <2> QED BY <1>3, <2>1, <2>2, <2>3, <2>4, <2>5 DEF ChildStep
<1>4. CASE Recover
  <2>1. PICK s \in SetToSeqs(Stale) : CrashAll(s)
    BY <1>4 DEF Recover
  <2> QED BY <1>0, <1>2, <2>1 DEF CrashAll, Crashed, AccountsKept, ChildRow
<1>5. CASE \E a \in Agents : Consume(a)
  BY <1>2, <1>5 DEF Consume, AccountsKept
<1>6. CASE \E a \in Addressed, kind \in {"instruction", "other"} : Send(a, kind)
  BY <1>2, <1>6 DEF Send, AccountsKept
<1> QED BY <1>1, <1>3, <1>4, <1>5, <1>6 DEF Next

\* At the start nothing is used or given.
LEMMA InitBudget == Init => BudgetKept
<1> SUFFICES ASSUME Init PROVE BudgetKept
  OBVIOUS
<1>1. Core
  BY InitAgentInv, AgentInvIsCore
<1>2. \A c \in Children : child[c].limit = 0 /\ child[c].turns = 0
  BY DEF Init, NewChild
<1>3. Reserved = 0
  <2>1. \A c \in Children : LimitsGiven[c] = 0
    BY <1>2 DEF LimitsGiven
  <2> QED BY <1>1, <2>1, BudgetTypes, AgentsAssumption, SumOfNone
<1>4. root.turns = 0 /\ cp.turn = 1 /\ cp.phase = "idle"
  BY DEF Init
<1> QED BY <1>2, <1>3, <1>4, LimitsAssumption DEF BudgetKept

\* Root and children together take no more turns than the run has, however
\* admissions, turns, crashes and takeovers interleave (AdmitSpecialist,
\* supervisorTurnBudgetTx and RecordUsage each see a part of the accounts only).
THEOREM TurnsStayWithinBudget == Spec => []BudgetHolds
<1>1. Init => AgentInv /\ BudgetKept
  BY InitAgentInv, InitBudget
<1>2. AgentInv /\ AgentInv' /\ BudgetKept /\ [Next]_vars => BudgetKept'
  <2>1. AgentInv /\ AgentInv' /\ BudgetKept /\ Next => BudgetKept'
    <3>1. AgentInv => Core
      BY AgentInvIsCore
    <3>2. AgentInv' => Core'
      BY DEF AgentInv, Core
    <3> QED BY <3>1, <3>2, BudgetStep
  <2>2. BudgetKept /\ UNCHANGED vars => BudgetKept'
    BY DEF vars, BudgetKept, Reserved
  <2> QED BY <2>1, <2>2
<1>3. AgentInv /\ BudgetKept => BudgetHolds
  <2> SUFFICES ASSUME AgentInv, BudgetKept PROVE BudgetHolds
    OBVIOUS
  <2>1. Core
    BY AgentInvIsCore
  <2>2. /\ LimitsGiven \in [Children -> Nat] /\ TurnsTaken \in [Children -> Nat]
        /\ Reserved \in Nat /\ Reserved = SumFunction(LimitsGiven)
        /\ root.turns \in Nat /\ cp.turn \in Nat \ {0} /\ MaxTurns \in Nat
    BY <2>1, BudgetTypes
  <2>3. \A c \in Children : TurnsTaken[c] <= LimitsGiven[c]
    BY DEF BudgetKept, TurnsTaken, LimitsGiven
  <2>4. SumFunction(TurnsTaken) \in Nat /\ SumFunction(TurnsTaken) <= Reserved
    BY <2>2, <2>3, AgentsAssumption, SumMonotone
  <2>5. SumFunction(TurnsTaken) = SumFunction([c \in Children |-> child[c].turns])
    BY DEF TurnsTaken
  <2> QED BY <2>2, <2>4, <2>5 DEF BudgetHolds, BudgetKept
<1> QED BY AgentInvariant, <1>1, <1>2, <1>3, PTL DEF Spec

-----------------------------------------------------------------------------
\* What is prepared for the agents.

\* An agent is at work, and on which attempt.
Working(a) == IF a = Root THEN root.status = "running" ELSE child[a].status = "running"

At(a) == IF a = Root THEN root.attempt ELSE child[a].active

\* What is prepared for an agent is what validateRootInboxDeliveryProjectionTx
\* wants and what listEligibleInboxTx would list, a first part of it.
BatchRight(a) ==
  /\ \A d \in PreparedTo(a) :
       /\ Working(a) /\ d.attempt = At(a)
       /\ d.seq \in Eligible(a)
       /\ d.ordinal = Cardinality({e \in PreparedTo(a) : e.seq <= d.seq})
  /\ \A d \in PreparedTo(a) : \A i \in Eligible(a) :
       i < d.seq => \E e \in PreparedTo(a) : e.seq = i

Batches == \A a \in Agents : BatchRight(a)

\* Both properties of the prepared deliveries in one.
LEMMA BatchesAreRight == Batches <=> PreparedBelongs /\ OrderKept
BY DEF Batches, BatchRight, PreparedBelongs, OrderKept, Working, At

\* An agent's inbox gets new messages at its end only.
Grows(a) ==
  /\ Eligible(a) \subseteq Eligible(a)'
  /\ \A i \in Eligible(a)' \ Eligible(a) : \A j \in Eligible(a) : j < i

\* What a step makes of an agent's batch: it is gone, it stays with its agent
\* at work on the same attempt, or it is prepared anew.
BatchGone(a) == PreparedTo(a)' = {}

BatchKept(a) ==
  /\ PreparedTo(a)' = PreparedTo(a)
  /\ Working(a)' /\ At(a)' = At(a)
  /\ Grows(a)

BatchNew(a) ==
  /\ PreparedTo(a)' = NewRows(a, At(a))
  /\ Working(a)' /\ At(a)' = At(a)
  /\ Eligible(a)' = Eligible(a)

BatchStep(a) == BatchGone(a) \/ BatchKept(a) \/ BatchNew(a)

\* What an agent could be given are rows of its inbox.
LEMMA EligibleTypes ==
  ASSUME Core, NEW a \in Agents
  PROVE  /\ Eligible(a) \subseteq 1..Len(inbox[a]) /\ Eligible(a) \subseteq Nat
         /\ IsFiniteSet(Eligible(a)) /\ Len(inbox[a]) \in Nat
<1>1. inbox[a] \in Seq(MessageRow)
  BY CoreTypes
<1>2. Eligible(a) \subseteq 1..Len(inbox[a]) /\ Len(inbox[a]) \in Nat
  BY <1>1, LenProperties DEF Eligible, Unread
<1>3. IsFiniteSet(1..Len(inbox[a]))
  BY <1>2, FS_Interval
<1>4. IsFiniteSet(Eligible(a))
  BY <1>2, <1>3, FS_Subset
<1> QED BY <1>2, <1>4

\* The rows of a new batch are numbered by their messages, without a gap.
LEMMA NewRowsRight ==
  ASSUME Core, NEW a \in Agents, NEW n
  PROVE  /\ \A d \in NewRows(a, n) :
              /\ d.to = a /\ d.attempt = n /\ d.status = "prepared"
              /\ d.seq \in Eligible(a)
              /\ d.ordinal = Cardinality({e \in NewRows(a, n) : e.seq <= d.seq})
         /\ \A d \in NewRows(a, n) : \A i \in Eligible(a) :
              i < d.seq => \E e \in NewRows(a, n) : e.seq = i
<1> DEFINE Upto(i) == {j \in Eligible(a) : j <= i}
           Row(i) == [to |-> a, attempt |-> n, seq |-> i, ordinal |-> Cardinality(Upto(i)),
                      status |-> "prepared"]
           R == NewRows(a, n)
<1>1. Eligible(a) \subseteq Nat /\ IsFiniteSet(Eligible(a)) /\ Batch \in Nat
  BY EligibleTypes, LimitsAssumption
<1>2. R = {Row(i) : i \in {i \in Eligible(a) : Cardinality(Upto(i)) <= Batch}}
  BY DEF NewRows
<1>3. \A i \in Eligible(a) : IsFiniteSet(Upto(i)) /\ Cardinality(Upto(i)) \in Nat
  BY <1>1, FS_Subset, FS_CardinalityType
<1>4. \A i, j \in Eligible(a) : i <= j => Cardinality(Upto(i)) <= Cardinality(Upto(j))
  <2> TAKE i, j \in Eligible(a)
  <2> HAVE i <= j
  <2>1. Upto(i) \in SUBSET Upto(j)
    BY <1>1
  <2> HIDE DEF Upto
  <2> QED BY <1>3, <2>1, FS_Subset
<1> HIDE DEF R, Upto
<1>5. \A d \in R : d.seq \in Eligible(a) /\ Cardinality(Upto(d.seq)) <= Batch /\ d = Row(d.seq)
  BY <1>2
<1>6. \A i \in Eligible(a) : Cardinality(Upto(i)) <= Batch => Row(i) \in R
  BY <1>2
<1>7. \A d \in R, i \in Eligible(a) : i <= d.seq => Row(i) \in R /\ Row(i).seq = i
  <2> TAKE d \in R, i \in Eligible(a)
  <2> HAVE i <= d.seq
  <2>1. Cardinality(Upto(i)) <= Cardinality(Upto(d.seq)) /\ Cardinality(Upto(d.seq)) <= Batch
    BY <1>4, <1>5
  <2>2. Cardinality(Upto(i)) <= Batch
    BY <1>1, <1>3, <1>5, <2>1
  <2> QED BY <1>6, <2>2
<1>8. ASSUME NEW d \in R PROVE d.ordinal = Cardinality({e \in R : e.seq <= d.seq})
  <2> DEFINE E == {e \in R : e.seq <= d.seq}
             f == [i \in Upto(d.seq) |-> Row(i)]
  <2>1. d.seq \in Eligible(a) /\ d.ordinal = Cardinality(Upto(d.seq))
    BY <1>5
  <2>2. IsFiniteSet(Upto(d.seq))
    BY <1>3, <2>1
  <2>3. \A i \in Upto(d.seq) : i \in Eligible(a) /\ i <= d.seq
    BY DEF Upto
  <2>4. f \in [Upto(d.seq) -> E]
    BY <1>7, <2>3
  <2>5. \A e \in E : e.seq \in Upto(d.seq) /\ f[e.seq] = e
    BY <1>5 DEF Upto
  <2>6. f \in Surjection(Upto(d.seq), E)
    BY <2>4, <2>5 DEF Surjection
  <2>7. f \in Injection(Upto(d.seq), E)
    BY <2>4 DEF Injection, IsInjective
  <2> HIDE DEF f, E
  <2>8. Cardinality(E) = Cardinality(Upto(d.seq))
    BY <2>2, <2>6, <2>7, FS_Surjection
  <2> QED BY <2>1, <2>8 DEF E
<1>9. \A d \in R : d.to = a /\ d.attempt = n /\ d.status = "prepared"
  BY <1>5
<1>10. ASSUME NEW d \in R, NEW i \in Eligible(a), i < d.seq PROVE \E e \in R : e.seq = i
  <2>1. i <= d.seq
    BY <1>1, <1>5, <1>10
  <2>2. Row(i) \in R /\ Row(i).seq = i
    BY <1>7, <2>1
  <2> HIDE DEF Row
  <2> QED BY <2>2
<1> QED BY <1>5, <1>8, <1>9, <1>10 DEF R

\* A new batch is the agent's own.
LEMMA NewRowsOwn ==
  ASSUME NEW a, NEW n
  PROVE  \A d \in NewRows(a, n) : d.to = a /\ d.attempt = n /\ d.status = "prepared"
<1> SUFFICES ASSUME NEW d \in NewRows(a, n)
             PROVE  d.to = a /\ d.attempt = n /\ d.status = "prepared"
  OBVIOUS
<1>1. PICK i \in Eligible(a) :
        d = [to |-> a, attempt |-> n, seq |-> i,
             ordinal |-> Cardinality({j \in Eligible(a) : j <= i}), status |-> "prepared"]
  BY DEF NewRows
<1> QED BY <1>1

\* A batch that is gone, that stays while the inbox grows at its end, or that is
\* new is right.
LEMMA BatchStays ==
  ASSUME Core, Core', NEW a \in Agents, BatchRight(a), BatchStep(a)
  PROVE  BatchRight(a)'
<1>1. CASE BatchGone(a)
  BY <1>1 DEF BatchGone, BatchRight
<1>2. CASE BatchKept(a)
  <2>1. Eligible(a) \subseteq Nat
    BY EligibleTypes
  <2>2. \A d \in PreparedTo(a)' :
          /\ Working(a)' /\ d.attempt = At(a)' /\ d.seq \in Eligible(a)'
          /\ d.ordinal = Cardinality({e \in PreparedTo(a)' : e.seq <= d.seq})
    BY <1>2 DEF BatchKept, BatchRight, Grows
  <2>3. ASSUME NEW d \in PreparedTo(a)', NEW i \in Eligible(a)', i < d.seq
        PROVE  \E e \in PreparedTo(a)' : e.seq = i
    <3>1. d \in PreparedTo(a) /\ d.seq \in Eligible(a)
      BY <1>2 DEF BatchKept, BatchRight
    <3>2. i \in Eligible(a)
      <4>1. i \notin Eligible(a) => d.seq < i
        BY <1>2, <3>1 DEF BatchKept, Grows
      <4>2. d.seq \in Nat
        BY <2>1, <3>1
      <4>3. i \in Nat
        <5>1. inbox'[a] \in Seq(MessageRow)
          BY DEF Core, TypeOK
        <5> QED BY <5>1, LenProperties DEF Eligible, Unread
      <4> QED BY <2>3, <4>1, <4>2, <4>3
    <3> QED BY <1>2, <2>3, <3>1, <3>2 DEF BatchKept, BatchRight
  <2> QED BY <2>2, <2>3 DEF BatchRight
<1>3. CASE BatchNew(a)
  <2> DEFINE N == NewRows(a, At(a))
  <2>1. PreparedTo(a)' = N /\ Working(a)' /\ At(a)' = At(a) /\ Eligible(a)' = Eligible(a)
    BY <1>3 DEF BatchNew
  <2>2. /\ \A d \in N : /\ d.attempt = At(a) /\ d.seq \in Eligible(a)
                      /\ d.ordinal = Cardinality({e \in N : e.seq <= d.seq})
        /\ \A d \in N : \A i \in Eligible(a) : i < d.seq => \E e \in N : e.seq = i
    BY NewRowsRight
  <2> HIDE DEF N
  <2>3. \A d \in PreparedTo(a)' :
          /\ Working(a)' /\ d.attempt = At(a)' /\ d.seq \in Eligible(a)'
          /\ d.ordinal = Cardinality({e \in PreparedTo(a)' : e.seq <= d.seq})
    BY <2>1, <2>2
  <2>4. \A d \in PreparedTo(a)' : \A i \in Eligible(a)' :
          i < d.seq => \E e \in PreparedTo(a)' : e.seq = i
    BY <2>1, <2>2
  <2> QED BY <2>3, <2>4 DEF BatchRight
<1> QED BY <1>1, <1>2, <1>3 DEF BatchStep

-----------------------------------------------------------------------------
\* The rows that are prepared, before and after.
PreparedIn(D, a) == {d \in D : d.to = a /\ d.status = "prepared"}

\* What is superseded is prepared no more, and nothing else changes.
LEMMA SupersededPrepared ==
  ASSUME NEW D, D \subseteq Delivery, NEW S, NEW a
  PROVE  /\ a \in S => PreparedIn(Superseded(D, S), a) = {}
         /\ a \notin S => PreparedIn(Superseded(D, S), a) = PreparedIn(D, a)
<1>1. \A d \in Superseded(D, S) : d.status = "prepared" => d \in D /\ d.to \notin S
  BY SupersededRows
<1>2. a \notin S => \A d \in D : d.to = a => d \in Superseded(D, S)
  BY DEF Superseded
<1> QED BY <1>1, <1>2 DEF PreparedIn

\* A new batch in place of the one that an agent had.
LEMMA ReplacedPrepared ==
  ASSUME Core, NEW a, NEW rows, \A d \in rows : d.to = a /\ d.status = "prepared",
         deliveries' = Superseded(deliveries, {a}) \cup rows, NEW b
  PROVE  PreparedTo(b)' = IF b = a THEN rows ELSE PreparedTo(b)
<1> DEFINE S == {a}
           D == Superseded(deliveries, S)
<1>1. deliveries \subseteq Delivery
  BY CoreTypes
<1>2. /\ b \in S => PreparedIn(D, b) = {}
      /\ b \notin S => PreparedIn(D, b) = PreparedIn(deliveries, b)
  <2> HIDE DEF S
  <2> QED BY <1>1, SupersededPrepared
<1>3. deliveries' = D \cup rows
  OBVIOUS
<1> HIDE DEF D
<1>4. PreparedTo(b)' = PreparedIn(D, b) \cup IF b = a THEN rows ELSE {}
  BY <1>3 DEF PreparedTo, PreparedIn
<1> QED BY <1>2, <1>4 DEF PreparedTo, PreparedIn

\* An attempt that succeeds commits its whole batch and no other.
LEMMA CommittedPrepared ==
  ASSUME Core, NEW a \in Agents, BatchRight(a), a = Root => root.attempt = cp.attempt, NEW b
  PROVE  /\ Given(a) = PreparedTo(a)
         /\ PreparedIn(Committed(a), b) = IF b = a THEN {} ELSE PreparedTo(b)
<1>1. Given(a) = PreparedTo(a)
  BY DEF Given, AttemptOf, BatchRight, At
<1>2. deliveries \subseteq Delivery
  BY CoreTypes
<1>3. ASSUME NEW d \in Committed(a), d.status = "prepared" PROVE d \in deliveries \ PreparedTo(a)
  <2>1. PICK e \in deliveries : d = IF e \in Given(a) THEN [e EXCEPT !.status = "committed"] ELSE e
    BY DEF Committed
  <2>2. e \in Delivery
    BY <1>2
  <2>3. e \notin Given(a)
    BY <1>3, <2>1, <2>2 DEF Delivery
  <2> QED BY <1>1, <2>1, <2>3
<1>4. \A d \in deliveries \ PreparedTo(a) : d \in Committed(a)
  BY <1>1 DEF Committed
<1> QED BY <1>1, <1>3, <1>4 DEF PreparedIn, PreparedTo

\* Messages at the end of an inbox.
LEMMA SameInboxGrows ==
  ASSUME NEW a, inbox'[a] = inbox[a]
  PROVE  Eligible(a)' = Eligible(a) /\ Grows(a)
<1>1. Eligible(a)' = Eligible(a)
  BY DEF Eligible, Unread
<1> QED BY <1>1 DEF Grows

\* An inbox with rows added at its end grows.
LEMMA LongerInboxGrows ==
  ASSUME Core, NEW a \in Agents, inbox'[a] \in Seq(MessageRow), Len(inbox[a]) <= Len(inbox'[a]),
         \A i \in 1..Len(inbox[a]) : inbox'[a][i] = inbox[a][i]
  PROVE  Grows(a)
<1>1. /\ DOMAIN inbox[a] = 1..Len(inbox[a]) /\ DOMAIN inbox'[a] = 1..Len(inbox'[a])
      /\ Len(inbox[a]) \in Nat /\ Len(inbox'[a]) \in Nat
  BY CoreTypes, LenProperties
<1>2. Eligible(a) \subseteq Eligible(a)'
  BY <1>1 DEF Eligible, Unread
<1>3. ASSUME NEW i \in Eligible(a)', i \notin Eligible(a), NEW j \in Eligible(a) PROVE j < i
  <2>1. i \in 1..Len(inbox'[a]) /\ j \in 1..Len(inbox[a])
    BY <1>1 DEF Eligible, Unread
  <2>2. i \notin 1..Len(inbox[a])
    BY <1>1, <1>3 DEF Eligible, Unread
  <2> QED BY <1>1, <2>1, <2>2
<1> QED BY <1>2, <1>3 DEF Grows

\* So does one with one message more.
LEMMA AppendedGrows ==
  ASSUME Core, NEW a \in Agents, NEW m \in MessageRow, inbox'[a] = Append(inbox[a], m)
  PROVE  Grows(a)
<1>1. inbox[a] \in Seq(MessageRow) /\ Len(inbox[a]) \in Nat
  BY CoreTypes, LenProperties
<1>2. /\ inbox'[a] \in Seq(MessageRow) /\ Len(inbox'[a]) = Len(inbox[a]) + 1
      /\ \A i \in 1..Len(inbox[a]) : inbox'[a][i] = inbox[a][i]
  BY <1>1, AppendProperties
<1>3. Len(inbox[a]) <= Len(inbox'[a])
  BY <1>1, <1>2
<1> QED BY <1>2, <1>3, LongerInboxGrows

\* An agent whose deliveries a step leaves alone.
LEMMA BatchFrame ==
  ASSUME NEW a, BatchRight(a), PreparedTo(a)' = PreparedTo(a), Grows(a),
         Working(a) => Working(a)' /\ At(a)' = At(a)
  PROVE  BatchStep(a)
BY DEF BatchRight, BatchStep, BatchGone, BatchKept

\* A batch whose agent is put to rest by the run is superseded with it; the
\* others stay (supersedeInboxDeliveriesTx).
LEMMA SyncBatch ==
  ASSUME Core, NEW a \in Agents, BatchRight(a), NEW to \in RunStatuses, NEW status, NEW new,
         NEW D, D \subseteq Delivery, Sync(to, status, new, D),
         PreparedIn(D, a) = {} \/ (PreparedIn(D, a) = PreparedTo(a) /\ Grows(a))
  PROVE  BatchStep(a)
<1>1. /\ deliveries' = Superseded(D, Losing(to, status))
      /\ root' = [status |-> status, turns |-> new.turn - 1,
                  attempt |-> IF status = "running" THEN new.attempt ELSE 0]
      /\ child' = [c \in Children |-> Projected(child[c], to, status)]
      /\ root.status = "running" /\ status = "running" => root.attempt = new.attempt
  BY DEF Sync
<1>2. PreparedTo(a)' = IF a \in Losing(to, status) THEN {} ELSE PreparedIn(D, a)
  <2>1. PreparedTo(a)' = PreparedIn(deliveries', a)
    BY DEF PreparedTo, PreparedIn
  <2> QED BY <1>1, <2>1, SupersededPrepared
<1>3. CASE PreparedTo(a)' = {}
  BY <1>3 DEF BatchStep, BatchGone
<1>4. CASE a \notin Losing(to, status) /\ PreparedTo(a)' = PreparedTo(a) /\ Grows(a)
  <2>1. CASE a = Root
    <3>1. status = "running"
      BY <1>4, <2>1 DEF Losing
    <3>2. Working(a) => Working(a)' /\ At(a)' = At(a)
      BY <1>1, <2>1, <3>1 DEF Working, At
    <3> QED BY <1>4, <3>2, BatchFrame
  <2>2. CASE a # Root
    <3>1. a \in Children
      BY <2>2 DEF Agents
    <3>2. child[a] \in ChildRow /\ child[a].session = SessionFor(child[a].status)
      BY <3>1, ChildParts
    <3>3. Follows(child[a], child'[a], to, status) /\ child'[a] = Projected(child[a], to, status)
      BY <1>1, <3>1, <3>2, ProjectedFollows
    <3>4. child[a].status = "running" => child'[a].status = "running"
      BY <1>4, <3>1, <3>3 DEF Losing, Interrupted
    <3>5. child[a].status = "running" => child'[a] = child[a]
      BY <3>3, <3>4 DEF Follows
    <3>6. Working(a) => Working(a)' /\ At(a)' = At(a)
      BY <2>2, <3>5 DEF Working, At
    <3> QED BY <1>4, <3>6, BatchFrame
  <2> QED BY <2>1, <2>2
<1> QED BY <1>2, <1>3, <1>4

-----------------------------------------------------------------------------
\* What the supervisor's steps make of the batches.

\* The supervisor's own steps: the root's batch is prepared for the present
\* attempt, and committed or superseded with it.
LEMMA RootBatches ==
  ASSUME Core, Batches, RunStep, NEW a \in Agents
  PROVE  BatchStep(a)
<1>0. BatchRight(a) /\ BatchRight(Root) /\ Root \in Agents /\ deliveries \subseteq Delivery
      /\ run \in RunStatuses
  BY CoreTypes DEF Batches, Agents
<1>1. ASSUME NEW to \in RunStatuses, NEW status, NEW new, Sync(to, status, new, deliveries),
             inbox' = inbox
      PROVE  BatchStep(a)
  <2>1. PreparedIn(deliveries, a) = PreparedTo(a)
    BY DEF PreparedIn, PreparedTo
  <2> QED BY <1>0, <1>1, <2>1, SameInboxGrows, SyncBatch
<1>2. CASE RootBegin
  BY <1>0, <1>1, <1>2 DEF RootBegin
<1>3. CASE RootFail
  <2>1. (IF run = "running" THEN "paused" ELSE run) \in RunStatuses
    BY <1>0 DEF RunStatuses
  <2> QED BY <1>1, <1>3, <2>1 DEF RootFail
<1>4. CASE EndFailedTurn
  BY <1>0, <1>1, <1>4 DEF EndFailedTurn
<1>5. CASE \E to \in {"completed", "failed"} : Finalize(to)
  <2>1. {"completed", "failed"} \subseteq RunStatuses
    BY DEF RunStatuses
  <2> QED BY <1>1, <1>5, <2>1 DEF Finalize
<1>6. CASE \E to \in RunStatuses : Transition(to)
  BY <1>1, <1>6 DEF Transition
<1>7. ASSUME root.attempt = cp.attempt, inbox' = [inbox EXCEPT ![Root] = Delivered(Root)]
      PROVE  /\ Committed(Root) \subseteq Delivery
             /\ \/ PreparedIn(Committed(Root), a) = {}
                \/ a # Root /\ PreparedIn(Committed(Root), a) = PreparedTo(a) /\ Grows(a)
  <2>1. PreparedIn(Committed(Root), a) = IF a = Root THEN {} ELSE PreparedTo(a)
    BY <1>0, <1>7, CommittedPrepared
  <2>2. Committed(Root) \subseteq Delivery
    BY <1>0, CommittedRows
  <2>3. a # Root => inbox'[a] = inbox[a]
    BY <1>7, CoreTypes
  <2> QED BY <2>1, <2>2, <2>3, SameInboxGrows
<1>8. CASE \E action \in {"continue", "wait", "finish", "retain"} : RootComplete(action)
  <2>1. PICK action \in {"continue", "wait", "finish", "retain"} : RootComplete(action)
    BY <1>8
  <2> DEFINE status == CASE action = "continue" -> "ready" [] action = "finish" -> "completed"
                         [] OTHER -> "waiting"
             new == [cp EXCEPT !.turn = @ + 1, !.attempt = 0,
                               !.phase = CASE action = "continue" -> "idle"
                                           [] action \in {"wait", "retain"} -> "waiting"
                                           [] action = "finish" -> "run_completed"]
  <2>2. /\ root.attempt = cp.attempt /\ inbox' = [inbox EXCEPT ![Root] = Delivered(Root)]
        /\ Sync(run', status, new, Committed(Root))
        /\ run' = CASE action = "finish" -> "completed" [] action = "wait" -> "paused"
                    [] OTHER -> run
    BY <2>1 DEF RootComplete
  <2>3. run' \in RunStatuses
    BY <1>0, <2>2 DEF RunStatuses
  <2> HIDE DEF status, new
  <2> DEFINE D == Committed(Root)
  <2>4. /\ D \subseteq Delivery
        /\ PreparedIn(D, a) = {} \/ (PreparedIn(D, a) = PreparedTo(a) /\ Grows(a))
    BY <1>7, <2>2
  <2>5. Sync(run', status, new, D)
    BY <2>2
  <2> HIDE DEF D
  <2> QED BY <1>0, <2>3, <2>4, <2>5, SyncBatch
<1>9. CASE RootBoundary
  <2>1. /\ root.attempt = cp.attempt /\ inbox' = [inbox EXCEPT ![Root] = Delivered(Root)]
        /\ deliveries' = Committed(Root)
        /\ child' = [c \in Children |-> Projected(child[c], "running", "ready")]
    BY <1>9 DEF RootBoundary
  <2>2. PreparedTo(a)' = PreparedIn(Committed(Root), a)
    BY <2>1 DEF PreparedTo, PreparedIn
  <2>3. CASE PreparedTo(a)' = {}
    BY <2>3 DEF BatchStep, BatchGone
  <2>4. CASE a # Root /\ PreparedTo(a)' = PreparedTo(a) /\ Grows(a)
    <3>1. a \in Children
      BY <2>4 DEF Agents
    <3>2. child[a] \in ChildRow /\ child[a].session = SessionFor(child[a].status)
      BY <3>1, ChildParts
    <3>3. Follows(child[a], child'[a], "running", "ready")
      BY <2>1, <3>1, <3>2, ProjectedFollows DEF RunStatuses
    <3>4. child[a].status = "running" => child'[a] = child[a]
      BY <3>3 DEF Follows
    <3>5. Working(a) => Working(a)' /\ At(a)' = At(a)
      BY <2>4, <3>4 DEF Working, At
    <3> QED BY <1>0, <2>4, <3>5, BatchFrame
  <2> QED BY <1>7, <2>1, <2>2, <2>3, <2>4
<1>10. CASE RootPrepareInbox
  <2>1. /\ deliveries' = Superseded(deliveries, {Root}) \cup NewRows(Root, cp.attempt)
        /\ root.status = "running" /\ root.attempt = cp.attempt
        /\ root' = root /\ child' = child /\ inbox' = inbox
    BY <1>10 DEF RootPrepareInbox
  <2>2. \A d \in NewRows(Root, cp.attempt) : d.to = Root /\ d.status = "prepared"
    BY NewRowsOwn
  <2>4. PreparedTo(a)' = IF a = Root THEN NewRows(Root, cp.attempt) ELSE PreparedTo(a)
    BY <2>1, <2>2, ReplacedPrepared
  <2>5. Eligible(a)' = Eligible(a) /\ Grows(a)
    BY <2>1, SameInboxGrows
  <2>6. CASE a = Root
    BY <2>1, <2>4, <2>5, <2>6 DEF BatchStep, BatchNew, Working, At
  <2>7. CASE a # Root
    BY <1>0, <2>1, <2>4, <2>5, <2>7, BatchFrame DEF Working, At
  <2> QED BY <2>6, <2>7
<1>11. CASE Acquire \/ Expire \/ AskApproval \/ AnswerApproval
  <2>1. UNCHANGED <<root, child, inbox, deliveries>>
    BY <1>11 DEF Acquire, Expire, AskApproval, AnswerApproval
  <2> QED BY <1>0, <2>1, SameInboxGrows, BatchFrame DEF PreparedTo, Working, At
<1> QED BY <1>2, <1>3, <1>4, <1>5, <1>6, <1>8, <1>9, <1>10, <1>11 DEF RunStep

-----------------------------------------------------------------------------
\* What the other steps make of them.

\* The steps of a child's attempt.
LEMMA ChildBatches ==
  ASSUME Core, Batches, NEW c \in Children, ChildStep(c), ~Crash(c), NEW a \in Agents
  PROVE  BatchStep(a)
<1>0. /\ BatchRight(a) /\ BatchRight(c) /\ c \in Agents /\ c # Root /\ deliveries \subseteq Delivery
      /\ child \in [Children -> ChildRow] /\ inbox \in [Agents -> Seq(MessageRow)]
  BY CoreTypes, CoreParts, AgentsAssumption DEF Batches, Agents, ChildGroup
<1>1. ASSUME root' = root, inbox' = inbox, deliveries' = deliveries,
             a = c /\ child[c].status = "running" =>
               child'[c].status = "running" /\ child'[c].active = child[c].active,
             a \notin {c, Root} => child'[a] = child[a]
      PROVE  BatchStep(a)
  BY <1>0, <1>1, SameInboxGrows, BatchFrame DEF PreparedTo, Working, At
<1>2. CASE \E limit \in Limits : Admit(c, limit)
  <2>1. PICK limit \in Limits : Admit(c, limit)
    BY <1>2
  <2>2. /\ child[c].status = "absent" /\ UNCHANGED <<root, inbox, deliveries>>
        /\ child' = [child EXCEPT ![c] = [NewChild EXCEPT !.status = "ready", !.limit = limit,
                                                          !.session = "active"]]
    BY <2>1 DEF Admit
  <2> QED BY <1>0, <1>1, <2>2 DEF Agents
<1>3. CASE BeginAttempt(c)
  BY <1>0, <1>1, <1>3 DEF BeginAttempt, Agents
<1>4. CASE RecordUsage(c)
  BY <1>0, <1>1, <1>4 DEF RecordUsage, ChildRow, Agents
<1>5. CASE PrepareContext(c)
  <2> DEFINE n == child[c].active
             rows == NewRows(c, n)
  <2>1. /\ deliveries' = Superseded(deliveries, {c}) \cup rows /\ Active(c)
        /\ root' = root /\ child' = child /\ inbox' = inbox
    BY <1>5 DEF PrepareContext
  <2>2. \A d \in rows : d.to = c /\ d.status = "prepared"
    BY NewRowsOwn
  <2> HIDE DEF rows
  <2>4. PreparedTo(a)' = IF a = c THEN rows ELSE PreparedTo(a)
    BY <2>1, <2>2, ReplacedPrepared
  <2>5. Eligible(a)' = Eligible(a) /\ Grows(a)
    BY <2>1, SameInboxGrows
  <2>6. child[c].status = "running"
    BY <2>1 DEF Active
  <2>7. CASE a = c
    BY <1>0, <2>1, <2>4, <2>5, <2>6, <2>7 DEF BatchStep, BatchNew, Working, At, rows
  <2>8. CASE a # c
    BY <1>0, <2>1, <2>4, <2>5, <2>8, BatchFrame DEF Working, At
  <2> QED BY <2>7, <2>8
<1>6. ASSUME deliveries' = Committed(c), root' = root, a # c => Grows(a),
             a \notin {c, Root} => child'[a] = child[a]
      PROVE  BatchStep(a)
  <2>1. PreparedTo(a)' = PreparedIn(Committed(c), a)
    BY <1>6 DEF PreparedTo, PreparedIn
  <2>2. PreparedTo(a)' = IF a = c THEN {} ELSE PreparedTo(a)
    BY <1>0, <2>1, CommittedPrepared
  <2>3. CASE a = c
    BY <2>2, <2>3 DEF BatchStep, BatchGone
  <2>4. CASE a # c
    BY <1>0, <1>6, <2>2, <2>4, BatchFrame DEF Working, At
  <2> QED BY <2>3, <2>4
<1>7. CASE Continue(c)
  <2>1. /\ deliveries' = Committed(c) /\ root' = root
        /\ inbox' = [inbox EXCEPT ![c] = Delivered(c)]
        /\ child' = [child EXCEPT ![c].status = "ready", ![c].active = 0]
    BY <1>7 DEF Continue
  <2>2. a # c => inbox'[a] = inbox[a]
    BY <1>0, <2>1
  <2>3. a \notin {c, Root} => child'[a] = child[a]
    BY <1>0, <2>1 DEF Agents
  <2> QED BY <1>6, <2>1, <2>2, <2>3, SameInboxGrows
<1>8. CASE Finish(c)
  <2> DEFINE m == Message("result", c, child[c].active)
  <2>1. /\ deliveries' = Committed(c) /\ root' = root
        /\ inbox' = [inbox EXCEPT ![c] = Delivered(c), ![Root] = Append(@, m)]
        /\ child' = [child EXCEPT ![c].status = "completed", ![c].active = 0,
                                  ![c].session = "archived"]
    BY <1>8 DEF Finish
  <2>2. m \in MessageRow
    BY ChildParts DEF Message, MessageRow, Agents
  <2> HIDE DEF m
  <2>3. a # c => inbox'[a] = IF a = Root THEN Append(inbox[a], m) ELSE inbox[a]
    BY <1>0, <2>1
  <2>4. a # c => Grows(a)
    BY <2>2, <2>3, SameInboxGrows, AppendedGrows
  <2>5. a \notin {c, Root} => child'[a] = child[a]
    BY <1>0, <2>1 DEF Agents
  <2> QED BY <1>6, <2>1, <2>4, <2>5
<1>9. CASE Wake(c)
  <2>1. /\ child[c].status = "waiting" /\ deliveries' = deliveries /\ root' = root
        /\ inbox' = [inbox EXCEPT ![c] = Append(@, Message("wake", Root, 0))]
        /\ child' = [child EXCEPT ![c].status = "ready", ![c].held = FALSE]
    BY <1>9 DEF Wake
  <2>2. PreparedTo(a)' = PreparedTo(a)
    BY <2>1 DEF PreparedTo
  <2>3. CASE a = c
    <3>1. PreparedTo(a) = {}
      BY <1>0, <2>1, <2>3 DEF BatchRight, Working
    <3> QED BY <2>2, <3>1 DEF BatchStep, BatchGone
  <2>4. CASE a # c
    <3>1. inbox'[a] = inbox[a]
      BY <1>0, <2>1, <2>4
    <3>2. a # Root => child'[a] = child[a]
      BY <1>0, <2>1, <2>4 DEF Agents
    <3>3. Working(a) => Working(a)' /\ At(a)' = At(a)
      BY <2>1, <3>2 DEF Working, At
    <3> QED BY <1>0, <2>2, <3>1, <3>3, SameInboxGrows, BatchFrame
  <2> QED BY <2>3, <2>4
<1> QED BY <1>2, <1>3, <1>4, <1>5, <1>7, <1>8, <1>9 DEF ChildStep

\* The notices of crashes are messages, one of each child.
LEMMA NoticesType ==
  ASSUME Core, NEW s \in Seq(Children)
  PROVE  Notices(s) \in Seq(MessageRow) /\ Len(Notices(s)) = Len(s)
<1>1. Len(s) \in Nat /\ DOMAIN s = 1..Len(s)
  BY LenProperties
<1>2. \A i \in 1..Len(s) : Message("crash", s[i], child[s[i]].active) \in MessageRow
  <2> TAKE i \in 1..Len(s)
  <2>1. s[i] \in Children
    BY ElementOfSeq
  <2> QED BY <2>1, ChildParts DEF Message, MessageRow, Agents
<1>3. Notices(s) \in [1..Len(s) -> MessageRow]
  BY <1>1, <1>2 DEF Notices
<1> QED BY <1>1, <1>3, IsASeq, LenProperties

\* The rows of the root's inbox once the notices are told.
LEMMA NoticedInbox ==
  ASSUME Core, NEW s \in Seq(Children), inbox' = [inbox EXCEPT ![Root] = @ \o Notices(s)]
  PROVE  /\ inbox'[Root] \in Seq(MessageRow) /\ Len(inbox[Root]) \in Nat /\ Len(s) \in Nat
         /\ Len(inbox'[Root]) = Len(inbox[Root]) + Len(s)
         /\ \A i \in 1..Len(inbox[Root]) : inbox'[Root][i] = inbox[Root][i]
         /\ \A i \in 1..Len(s) : inbox'[Root][Len(inbox[Root]) + i]
                                   = Message("crash", s[i], child[s[i]].active)
<1> DEFINE old == inbox[Root]
           new == Notices(s)
<1>1. /\ old \in Seq(MessageRow) /\ new \in Seq(MessageRow) /\ Len(new) = Len(s)
      /\ Len(old) \in Nat /\ Len(s) \in Nat /\ DOMAIN s = 1..Len(s)
  BY CoreTypes, NoticesType, LenProperties DEF Agents
<1>2. inbox'[Root] = old \o new
  BY CoreTypes DEF Agents
<1>3. \A i \in 1..Len(s) : new[i] = Message("crash", s[i], child[s[i]].active)
  BY <1>1 DEF Notices
<1> HIDE DEF old, new
<1>4. /\ old \o new \in Seq(MessageRow) /\ Len(old \o new) = Len(old) + Len(new)
      /\ \A i \in 1..(Len(old) + Len(new)) :
           (old \o new)[i] = IF i <= Len(old) THEN old[i] ELSE new[i - Len(old)]
  BY <1>1, ConcatProperties
<1>5. \A i \in 1..Len(old) : (old \o new)[i] = old[i]
  BY <1>1, <1>4
<1>6. \A i \in 1..Len(s) : (old \o new)[Len(old) + i] = new[i]
  BY <1>1, <1>4
<1> QED BY <1>1, <1>2, <1>3, <1>4, <1>5, <1>6 DEF old

\* The crashes that a recovery records.
LEMMA CrashBatches ==
  ASSUME Core, Batches, NEW s \in Seq(Children), CrashAll(s), NEW a \in Agents
  PROVE  BatchStep(a)
<1>1. /\ inbox' = [inbox EXCEPT ![Root] = @ \o Notices(s)] /\ root' = root
      /\ deliveries' = Superseded(deliveries, ToSet(s))
      /\ child' = [c \in Children |-> IF c \in ToSet(s) THEN Crashed(child[c]) ELSE child[c]]
  BY DEF CrashAll
<1>2. BatchRight(a) /\ deliveries \subseteq Delivery /\ inbox \in [Agents -> Seq(MessageRow)]
  BY CoreTypes DEF Batches
<1>3. PreparedTo(a)' = PreparedIn(deliveries', a)
  BY DEF PreparedTo, PreparedIn
<1>4. PreparedTo(a)' = IF a \in ToSet(s) THEN {} ELSE PreparedTo(a)
  BY <1>1, <1>2, <1>3, SupersededPrepared DEF PreparedTo, PreparedIn
<1>5. CASE a \in ToSet(s)
  BY <1>4, <1>5 DEF BatchStep, BatchGone
<1>6. CASE a \notin ToSet(s)
  <2>1. CASE a = Root
    <3>1. Grows(a)
      <4>1. /\ inbox'[Root] \in Seq(MessageRow) /\ Len(inbox[Root]) \in Nat /\ Len(s) \in Nat
            /\ Len(inbox'[Root]) = Len(inbox[Root]) + Len(s)
            /\ \A i \in 1..Len(inbox[Root]) : inbox'[Root][i] = inbox[Root][i]
        BY <1>1, NoticedInbox
      <4>2. Len(inbox[Root]) <= Len(inbox'[Root])
        BY <4>1
      <4> QED BY <2>1, <4>1, <4>2, LongerInboxGrows
    <3> QED BY <1>1, <1>2, <1>4, <1>6, <2>1, <3>1, BatchFrame DEF Working, At
  <2>2. CASE a # Root
    <3>1. inbox'[a] = inbox[a] /\ child'[a] = child[a]
      BY <1>1, <1>2, <1>6, <2>2 DEF Agents
    <3>2. Working(a) => Working(a)' /\ At(a)' = At(a)
      BY <2>2, <3>1 DEF Working, At
    <3> QED BY <1>2, <1>4, <1>6, <3>1, <3>2, SameInboxGrows, BatchFrame
  <2> QED BY <2>1, <2>2
<1> QED BY <1>5, <1>6

\* A message that is sent goes to the end of an inbox, and one that is consumed
\* by hand is in no batch.
LEMMA MessageBatches ==
  ASSUME Core, Batches, NEW a \in Agents, NEW b \in Agents,
         Consume(b) \/ \E kind \in {"instruction", "other"} : Send(b, kind)
  PROVE  BatchStep(a)
<1>0. BatchRight(a) /\ inbox \in [Agents -> Seq(MessageRow)]
  BY CoreTypes DEF Batches
<1>1. PreparedTo(a)' = PreparedTo(a) /\ root' = root /\ child' = child
  BY DEF Consume, Send, PreparedTo
<1>2. CASE Consume(b)
  <2> DEFINE first == {i \in Unread(b) : Cardinality({j \in Unread(b) : j <= i}) <= MessageBatch}
  <2>1. /\ inbox' = [inbox EXCEPT ![b] = Read(@, first)]
        /\ IF b = Root THEN root.status # "running" ELSE child[b].status # "running"
    BY <1>2 DEF Consume
  <2> HIDE DEF first
  <2>2. CASE a = b
    <3>1. PreparedTo(a) = {}
      BY <1>0, <2>1, <2>2 DEF BatchRight, Working
    <3> QED BY <1>1, <3>1 DEF BatchStep, BatchGone
  <2>3. CASE a # b
    <3>1. inbox'[a] = inbox[a]
      BY <1>0, <2>1, <2>3
    <3> QED BY <1>0, <1>1, <3>1, SameInboxGrows, BatchFrame DEF Working, At
  <2> QED BY <2>2, <2>3
<1>3. CASE \E kind \in {"instruction", "other"} : Send(b, kind)
  <2>1. PICK kind \in {"instruction", "other"} :
          inbox' = [inbox EXCEPT ![b] = Append(@, Message(kind, Root, 0))]
    BY <1>3 DEF Send
  <2>2. Message(kind, Root, 0) \in MessageRow
    BY DEF Message, MessageRow, Agents
  <2>3. inbox'[a] = IF a = b THEN Append(inbox[a], Message(kind, Root, 0)) ELSE inbox[a]
    BY <1>0, <2>1
  <2>4. Grows(a)
    BY <2>2, <2>3, SameInboxGrows, AppendedGrows
  <2> QED BY <1>0, <1>1, <2>4, BatchFrame DEF Working, At
<1> QED BY <1>2, <1>3

\* The children that a recovery takes up, each once.
LEMMA StaleInSeq ==
  ASSUME NEW s \in SetToSeqs(Stale)
  PROVE  s \in Seq(Children) /\ \A i, j \in DOMAIN s : s[i] = s[j] => i = j
<1>1. Stale \subseteq Children
  BY DEF Stale
<1>2. IsFiniteSet(Stale)
  BY <1>1, AgentsAssumption, FS_Subset
<1>3. Cardinality(Stale) \in Nat
  BY <1>2, FS_CardinalityType
<1>4. s \in [1..Cardinality(Stale) -> Children]
  BY <1>1 DEF SetToSeqs
<1>5. s \in Seq(Children)
  BY <1>3, <1>4, IsASeq
<1>6. \A i, j \in DOMAIN s : s[i] = s[j] => i = j
  BY DEF SetToSeqs, IsInjective
<1> QED BY <1>5, <1>6

\* Every step keeps every batch right.
LEMMA NextBatches ==
  ASSUME Core, Core', Batches, Next
  PROVE  Batches'
<1>1. ASSUME NEW a \in Agents PROVE BatchStep(a)
  <2>1. CASE RunStep
    BY <2>1, RootBatches
  <2>2. ASSUME NEW c \in Children, ChildStep(c) PROVE BatchStep(a)
    <3>1. CASE Crash(c)
      <4>1. CrashAll(<<c>>) /\ <<c>> \in Seq(Children)
        BY <3>1 DEF Crash
      <4> QED BY <4>1, CrashBatches
    <3>2. CASE ~Crash(c)
      BY <2>2, <3>2, ChildBatches
    <3> QED BY <3>1, <3>2
  <2>3. CASE Recover
    <3>1. PICK s \in SetToSeqs(Stale) : CrashAll(s)
      BY <2>3 DEF Recover
    <3>2. s \in Seq(Children)
      BY StaleInSeq
    <3> QED BY <3>1, <3>2, CrashBatches
  <2>4. CASE \E b \in Agents : Consume(b)
    BY <2>4, MessageBatches
  <2>5. CASE \E b \in Addressed, kind \in {"instruction", "other"} : Send(b, kind)
    <3>1. Addressed \subseteq Agents
      BY AgentsAssumption DEF Agents
    <3> QED BY <2>5, <3>1, MessageBatches
  <2> QED BY <2>1, <2>2, <2>3, <2>4, <2>5 DEF Next
<1>2. \A a \in Agents : BatchRight(a)'
  BY <1>1, BatchStays DEF Batches
<1> QED BY <1>2 DEF Batches

\* The batches are right in every state.
LEMMA BatchesAlways == Spec => []Batches
<1>1. Init => Batches
  BY DEF Init, Batches, BatchRight, PreparedTo
<1>2. AgentInv /\ AgentInv' /\ Batches /\ [Next]_vars => Batches'
  <2>1. AgentInv /\ AgentInv' /\ Batches /\ Next => Batches'
    <3>1. AgentInv => Core
      BY AgentInvIsCore
    <3>2. AgentInv' => Core'
      BY DEF AgentInv, Core
    <3> QED BY <3>1, <3>2, NextBatches
  <2>2. Batches /\ UNCHANGED vars => Batches'
    BY DEF vars, Batches, BatchRight, PreparedTo, Eligible, Unread, Working, At
  <2> QED BY <2>1, <2>2
<1> QED BY AgentInvariant, <1>1, <1>2, PTL DEF Spec

\* What is prepared is prepared for the attempt that its agent works on, of
\* messages that still wait, numbered from one: whichever of the steps
\* pause, crash, recovery, new turn and new message comes between the
\* preparation and the attempt's end (validateRootInboxDeliveryProjectionTx).
THEOREM PreparedWhereItBelongs == Spec => []PreparedBelongs
<1>1. Batches => PreparedBelongs
  BY BatchesAreRight
<1> QED BY BatchesAlways, <1>1, PTL

\* No message is passed over for a later one, whatever arrives while a batch is
\* prepared (listEligibleInboxTx and its order by sequence).
THEOREM MessagesInOrder == Spec => []OrderKept
<1>1. Batches => OrderKept
  BY BatchesAreRight
<1> QED BY BatchesAlways, <1>1, PTL

-----------------------------------------------------------------------------
\* What a step makes of messages, attempts and committed deliveries.

\* An agent's inbox only grows, and of a message only its status changes, once.
Keeps(a) ==
  /\ Len(inbox[a]) <= Len(inbox'[a])
  /\ \A i \in 1..Len(inbox[a]) :
       /\ inbox'[a][i].kind = inbox[a][i].kind /\ inbox'[a][i].from = inbox[a][i].from
       /\ inbox'[a][i].turn = inbox[a][i].turn
       /\ inbox[a][i].status = "consumed" => inbox'[a][i].status = "consumed"

\* A child's attempts keep their status, at most a running one is added; or
\* the attempt that it works on gets the status x.
Stays(c) ==
  /\ DOMAIN attempt[c] \subseteq DOMAIN attempt'[c]
  /\ \A t \in DOMAIN attempt[c] : attempt'[c][t].status = attempt[c][t].status
  /\ \A t \in DOMAIN attempt'[c] : t \notin DOMAIN attempt[c] => attempt'[c][t].status = "running"

\* The attempt that a child works on ends as x, and no other changes.
Goes(c, x) ==
  /\ DOMAIN attempt'[c] = DOMAIN attempt[c] /\ Len(attempt[c]) \in DOMAIN attempt[c]
  /\ attempt[c][Len(attempt[c])].status = "running"
  /\ \A t \in DOMAIN attempt[c] :
       attempt'[c][t].status = IF t = Len(attempt[c]) THEN x ELSE attempt[c][t].status

\* The deliveries that were committed.
Commits(D) == {d \in D : d.status = "committed"}

\* No delivery is committed.
NoneRead == Commits(deliveries') = Commits(deliveries)

\* An agent's batch is committed: its messages are consumed, and if it is a
\* child's, the attempt that it was prepared for succeeds.
Reads(a) ==
  /\ StillWaiting(a)
  /\ Commits(deliveries') = Commits(deliveries)
                              \cup {[d EXCEPT !.status = "committed"] : d \in Given(a)}
  /\ \A d \in Given(a) : inbox'[a][d.seq].status = "consumed"
  /\ a \in Children => /\ child[a].active = Len(attempt[a])
                       /\ \E x \in {"continued", "finished"} : Goes(a, x)

\* The root is told of no attempt's end and there is none; or it is told of
\* the end of one attempt of each child in s.
EndOf(kind) == IF kind = "result" THEN "finished" ELSE "crashed"

\* A step that tells the root of no end.
Quiet ==
  /\ \A i \in DOMAIN inbox'[Root] :
       i \notin DOMAIN inbox[Root] => inbox'[Root][i].kind \notin {"result", "crash"}
  /\ \A c \in Children : Stays(c) \/ \E x \in {"interrupted", "continued"} : Goes(c, x)

\* A step that tells the root of the end of the attempts of the children in s.
Tells(s, kind) ==
  /\ s \in Seq(Children) /\ \A i, j \in 1..Len(s) : s[i] = s[j] => i = j
  /\ \A c \in Children :
       IF \E i \in 1..Len(s) : s[i] = c THEN Goes(c, EndOf(kind)) ELSE Stays(c)
  /\ Len(inbox'[Root]) = Len(inbox[Root]) + Len(s)
  /\ \A i \in 1..Len(s) :
       /\ inbox'[Root][Len(inbox[Root]) + i].kind = kind
       /\ inbox'[Root][Len(inbox[Root]) + i].from = s[i]
       /\ inbox'[Root][Len(inbox[Root]) + i].turn = Len(attempt[s[i]])

\* What every step does to messages, attempts and committed deliveries.
Effects ==
  /\ \A a \in Agents : Keeps(a)
  /\ NoneRead \/ \E a \in Agents : Reads(a)
  /\ Quiet \/ \E s, kind : kind \in {"result", "crash"} /\ Tells(s, kind)

\* An inbox that is left alone.
LEMMA SameKeeps == ASSUME NEW a, inbox'[a] = inbox[a], Len(inbox[a]) \in Nat PROVE Keeps(a)
BY DEF Keeps

\* An inbox in which messages are marked as consumed.
LEMMA ReadKeeps ==
  ASSUME Core, NEW a \in Agents, NEW S, inbox'[a] = Read(inbox[a], S)
  PROVE  /\ Keeps(a) /\ DOMAIN inbox'[a] = DOMAIN inbox[a]
         /\ \A i \in S : i \in DOMAIN inbox[a] => inbox'[a][i].status = "consumed"
<1>1. /\ inbox[a] \in Seq(MessageRow) /\ Len(inbox[a]) \in Nat /\ DOMAIN inbox[a] = 1..Len(inbox[a])
      /\ Len(inbox'[a]) = Len(inbox[a])
  BY CoreTypes, ReadType, LenProperties
<1>2. \A i \in 1..Len(inbox[a]) : inbox[a][i] \in MessageRow
  BY <1>1, ElementOfSeq
<1>3. DOMAIN inbox'[a] = DOMAIN inbox[a]
  BY DEF Read
<1>4. \A i \in 1..Len(inbox[a]) :
        inbox'[a][i] = IF i \in S THEN [inbox[a][i] EXCEPT !.status = "consumed"] ELSE inbox[a][i]
  BY <1>1 DEF Read
<1>5. \A i \in 1..Len(inbox[a]) :
        /\ inbox'[a][i].kind = inbox[a][i].kind /\ inbox'[a][i].from = inbox[a][i].from
        /\ inbox'[a][i].turn = inbox[a][i].turn
        /\ inbox'[a][i].status = IF i \in S THEN "consumed" ELSE inbox[a][i].status
  BY <1>2, <1>4 DEF MessageRow
<1> QED BY <1>1, <1>3, <1>5 DEF Keeps

\* A message that is added.
LEMMA AppendKeeps ==
  ASSUME Core, NEW a \in Agents, NEW m \in MessageRow, inbox'[a] = Append(inbox[a], m)
  PROVE  /\ Keeps(a) /\ Len(inbox[a]) \in Nat /\ Len(inbox'[a]) = Len(inbox[a]) + 1
         /\ inbox'[a][Len(inbox[a]) + 1] = m
         /\ \A i \in DOMAIN inbox'[a] : i \notin DOMAIN inbox[a] => inbox'[a][i] = m
<1>1. /\ inbox[a] \in Seq(MessageRow) /\ Len(inbox[a]) \in Nat /\ DOMAIN inbox[a] = 1..Len(inbox[a])
  BY CoreTypes, LenProperties
<1>2. /\ inbox'[a] \in Seq(MessageRow) /\ Len(inbox'[a]) = Len(inbox[a]) + 1
      /\ DOMAIN inbox'[a] = 1..(Len(inbox[a]) + 1)
      /\ inbox'[a][Len(inbox[a]) + 1] = m
      /\ \A i \in 1..Len(inbox[a]) : inbox'[a][i] = inbox[a][i]
  BY <1>1, AppendProperties
<1>3. Keeps(a)
  BY <1>1, <1>2 DEF Keeps
<1>4. \A i \in DOMAIN inbox'[a] : i \notin DOMAIN inbox[a] => i = Len(inbox[a]) + 1
  BY <1>1, <1>2
<1> QED BY <1>1, <1>2, <1>3, <1>4

\* Attempts that are left alone.
LEMMA SameStays == ASSUME NEW c, attempt'[c] = attempt[c] PROVE Stays(c)
BY DEF Stays

\* An attempt's end, whoever records it.
LEMMA EndedGoes ==
  ASSUME Core, NEW c \in Children, child[c].status = "running", NEW x \in AttemptStatuses,
         attempt'[c] = Ended(attempt[c], x)
  PROVE  Goes(c, x)
<1>1. attempt[c] \in Seq(AttemptRow) /\ Matches(child[c], attempt[c])
  BY ChildParts
<1>2. Len(attempt[c]) > 0
  BY <1>1 DEF Matches
<1>3. Len(attempt[c]) \in DOMAIN attempt[c]
  BY <1>1, <1>2, LenProperties
<1>4. attempt[c][Len(attempt[c])].status = "running"
  BY <1>1, <1>3 DEF Matches
<1>5. /\ DOMAIN attempt'[c] = DOMAIN attempt[c]
      /\ \A t \in DOMAIN attempt[c] :
           attempt'[c][t].status = IF t = Len(attempt[c]) THEN x ELSE attempt[c][t].status
  BY <1>1, <1>2, EndedRows
<1> QED BY <1>3, <1>4, <1>5 DEF Goes

\* Superseding commits nothing and takes back nothing.
LEMMA SupersededCommits ==
  ASSUME NEW D, D \subseteq Delivery, NEW S
  PROVE  Commits(Superseded(D, S)) = Commits(D)
<1>1. ASSUME NEW d \in Superseded(D, S), d.status = "committed" PROVE d \in D
  <2>1. PICK e \in D : d = IF e.to \in S /\ e.status = "prepared"
                           THEN [e EXCEPT !.status = "superseded"] ELSE e
    BY DEF Superseded
  <2>2. e \in Delivery
    OBVIOUS
  <2>3. d = e
    BY <1>1, <2>1, <2>2 DEF Delivery
  <2> QED BY <2>3
<1>2. \A d \in D : d.status = "committed" => d \in Superseded(D, S)
  BY DEF Superseded
<1> QED BY <1>1, <1>2 DEF Commits

\* What is committed with an attempt are the rows given to it.
LEMMA CommittedCommits ==
  ASSUME deliveries \subseteq Delivery, NEW a
  PROVE  Commits(Committed(a)) = Commits(deliveries)
                                   \cup {[d EXCEPT !.status = "committed"] : d \in Given(a)}
<1>1. ASSUME NEW d \in Committed(a), d.status = "committed"
      PROVE  d \in Commits(deliveries) \cup {[e EXCEPT !.status = "committed"] : e \in Given(a)}
  <2>1. PICK e \in deliveries : d = IF e \in Given(a) THEN [e EXCEPT !.status = "committed"] ELSE e
    BY DEF Committed
  <2>2. CASE e \in Given(a)
    BY <2>1, <2>2
  <2>3. CASE e \notin Given(a)
    BY <1>1, <2>1, <2>3 DEF Commits
  <2> QED BY <2>2, <2>3
<1>2. ASSUME NEW d \in Commits(deliveries) PROVE d \in Committed(a) /\ d.status = "committed"
  <2>1. d \notin Given(a) /\ d \in deliveries /\ d.status = "committed"
    BY DEF Commits, Given, PreparedTo
  <2> QED BY <2>1 DEF Committed
<1>3. ASSUME NEW e \in Given(a)
      PROVE  /\ [e EXCEPT !.status = "committed"] \in Committed(a)
             /\ [e EXCEPT !.status = "committed"].status = "committed"
  <2>1. e \in deliveries /\ e \in Delivery
    BY DEF Given, PreparedTo
  <2>2. [e EXCEPT !.status = "committed"].status = "committed"
    BY <2>1 DEF Delivery
  <2> QED BY <2>1, <2>2 DEF Committed
<1> QED BY <1>1, <1>2, <1>3 DEF Commits

\* What is prepared adds nothing to it.
LEMMA ReplacedCommits ==
  ASSUME Core, NEW a, NEW n, deliveries' = Superseded(deliveries, {a}) \cup NewRows(a, n)
  PROVE  NoneRead
<1>1. Commits(Superseded(deliveries, {a})) = Commits(deliveries)
  BY CoreTypes, SupersededCommits
<1>2. \A d \in NewRows(a, n) : d.status # "committed"
  BY NewRowsOwn
<1> QED BY <1>1, <1>2 DEF NoneRead, Commits

\* An attempt that succeeds reads its batch.
LEMMA DeliveredReads ==
  ASSUME Core, NEW a \in Agents, StillWaiting(a), inbox'[a] = Delivered(a),
         Commits(deliveries') = Commits(Committed(a)),
         a \in Children => /\ child[a].active = Len(attempt[a])
                           /\ \E x \in {"continued", "finished"} : Goes(a, x)
  PROVE  Reads(a)
<1>1. Commits(deliveries') = Commits(deliveries)
                               \cup {[d EXCEPT !.status = "committed"] : d \in Given(a)}
  BY CoreTypes, CommittedCommits
<1> DEFINE S == {d.seq : d \in Given(a)}
<1>2. inbox'[a] = Read(inbox[a], S) /\ \A d \in Given(a) : d.seq \in S
  BY DEF Delivered
<1>3. \A d \in Given(a) : d.seq \in DOMAIN inbox[a]
  BY DEF StillWaiting, Eligible, Unread
<1> HIDE DEF S
<1>4. \A d \in Given(a) : inbox'[a][d.seq].status = "consumed"
  BY <1>2, <1>3, ReadKeeps
<1> QED BY <1>1, <1>4 DEF Reads

-----------------------------------------------------------------------------
\* The effects of the supervisor's steps.

\* The run interrupts an attempt or leaves it.
LEMMA SyncStays ==
  ASSUME Core, NEW to \in RunStatuses, NEW status, NEW new, NEW D, Sync(to, status, new, D)
  PROVE  \A c \in Children : Stays(c) \/ Goes(c, "interrupted")
<1> TAKE c \in Children
<1>1. attempt'[c] = IF c \in Interrupted(to, status) THEN Ended(attempt[c], "interrupted")
                    ELSE attempt[c]
  BY DEF Sync
<1>2. CASE c \in Interrupted(to, status)
  <2>1. child[c].status = "running"
    BY <1>2 DEF Interrupted
  <2> QED BY <1>1, <1>2, <2>1, EndedGoes DEF AttemptStatuses
<1>3. CASE c \notin Interrupted(to, status)
  BY <1>1, <1>3, SameStays
<1> QED BY <1>2, <1>3

\* Inboxes are sequences of messages.
LEMMA InboxLengths ==
  ASSUME Core
  PROVE  \A a \in Agents : /\ inbox[a] \in Seq(MessageRow) /\ Len(inbox[a]) \in Nat
                           /\ DOMAIN inbox[a] = 1..Len(inbox[a])
BY CoreTypes, LenProperties

\* The supervisor's steps read the root's batch at most, and tell of no end.
LEMMA RunStepEffects ==
  ASSUME Core, RunStep
  PROVE  Effects
<1>0. /\ run \in RunStatuses /\ deliveries \subseteq Delivery /\ Root \in Agents
      /\ inbox \in [Agents -> Seq(MessageRow)]
  BY CoreTypes DEF Agents
<1>1. ASSUME inbox' = inbox PROVE \A a \in Agents : Keeps(a)
  BY <1>1, InboxLengths, SameKeeps
<1>2. ASSUME DOMAIN inbox'[Root] = DOMAIN inbox[Root],
             \A c \in Children : Stays(c) \/ Goes(c, "interrupted")
      PROVE  Quiet
  BY <1>2 DEF Quiet
<1>3. ASSUME NEW to \in RunStatuses, NEW status, NEW new, Sync(to, status, new, deliveries),
             inbox' = inbox
      PROVE  Effects
  <2>1. deliveries' = Superseded(deliveries, Losing(to, status))
    BY <1>3 DEF Sync
  <2>2. NoneRead
    BY <1>0, <2>1, SupersededCommits DEF NoneRead
  <2>3. Quiet
    BY <1>2, <1>3, SyncStays
  <2> QED BY <1>1, <1>3, <2>2, <2>3 DEF Effects
<1>4. ASSUME attempt' = attempt, inbox' = inbox, NoneRead PROVE Effects
  BY <1>1, <1>2, <1>4, SameStays DEF Effects
<1>5. ASSUME inbox' = [inbox EXCEPT ![Root] = Delivered(Root)], StillWaiting(Root),
             Commits(deliveries') = Commits(Committed(Root)),
             \A c \in Children : Stays(c) \/ Goes(c, "interrupted")
      PROVE  Effects
  <2>1. inbox'[Root] = Delivered(Root) /\ \A a \in Agents : a # Root => inbox'[a] = inbox[a]
    BY <1>0, <1>5
  <2>2. Keeps(Root) /\ DOMAIN inbox'[Root] = DOMAIN inbox[Root]
    BY <1>0, <2>1, ReadKeeps DEF Delivered
  <2>3. \A a \in Agents : Keeps(a)
    BY <2>1, <2>2, InboxLengths, SameKeeps
  <2>4. Root \notin Children
    BY AgentsAssumption
  <2>5. Reads(Root)
    BY <1>0, <1>5, <2>1, <2>4, DeliveredReads
  <2>6. Quiet
    BY <1>2, <1>5, <2>2
  <2> QED BY <1>0, <2>3, <2>5, <2>6 DEF Effects
<1>6. CASE RootBegin
  BY <1>0, <1>3, <1>6 DEF RootBegin
<1>7. CASE RootFail
  <2>1. (IF run = "running" THEN "paused" ELSE run) \in RunStatuses
    BY <1>0 DEF RunStatuses
  <2> QED BY <1>3, <1>7, <2>1 DEF RootFail
<1>8. CASE EndFailedTurn
  BY <1>0, <1>3, <1>8 DEF EndFailedTurn
<1>9. CASE \E to \in {"completed", "failed"} : Finalize(to)
  <2>1. {"completed", "failed"} \subseteq RunStatuses
    BY DEF RunStatuses
  <2> QED BY <1>3, <1>9, <2>1 DEF Finalize
<1>10. CASE \E to \in RunStatuses : Transition(to)
  BY <1>3, <1>10 DEF Transition
<1>11. CASE \E action \in {"continue", "wait", "finish", "retain"} : RootComplete(action)
  <2>1. PICK action \in {"continue", "wait", "finish", "retain"} : RootComplete(action)
    BY <1>11
  <2> DEFINE status == CASE action = "continue" -> "ready" [] action = "finish" -> "completed"
                         [] OTHER -> "waiting"
             new == [cp EXCEPT !.turn = @ + 1, !.attempt = 0,
                               !.phase = CASE action = "continue" -> "idle"
                                           [] action \in {"wait", "retain"} -> "waiting"
                                           [] action = "finish" -> "run_completed"]
             D == Committed(Root)
  <2>2. /\ inbox' = [inbox EXCEPT ![Root] = Delivered(Root)] /\ StillWaiting(Root)
        /\ Sync(run', status, new, D)
        /\ run' = CASE action = "finish" -> "completed" [] action = "wait" -> "paused"
                    [] OTHER -> run
    BY <2>1 DEF RootComplete
  <2>3. run' \in RunStatuses
    BY <1>0, <2>2 DEF RunStatuses
  <2>4. D \subseteq Delivery
    BY <1>0, CommittedRows
  <2> HIDE DEF status, new, D
  <2>5. deliveries' = Superseded(D, Losing(run', status))
    BY <2>2 DEF Sync
  <2>6. Commits(deliveries') = Commits(D)
    BY <2>4, <2>5, SupersededCommits
  <2>7. \A c \in Children : Stays(c) \/ Goes(c, "interrupted")
    BY <2>2, <2>3, SyncStays
  <2> QED BY <1>5, <2>2, <2>6, <2>7 DEF D
<1>12. CASE RootBoundary
  <2>1. /\ inbox' = [inbox EXCEPT ![Root] = Delivered(Root)] /\ StillWaiting(Root)
        /\ deliveries' = Committed(Root) /\ attempt' = attempt
    BY <1>12 DEF RootBoundary
  <2> QED BY <1>5, <2>1, SameStays
<1>13. CASE RootPrepareInbox
  <2>1. /\ deliveries' = Superseded(deliveries, {Root}) \cup NewRows(Root, cp.attempt)
        /\ attempt' = attempt /\ inbox' = inbox
    BY <1>13 DEF RootPrepareInbox
  <2>2. NoneRead
    BY <2>1, ReplacedCommits
  <2> QED BY <1>4, <2>1, <2>2
<1>14. CASE Acquire \/ Expire \/ AskApproval \/ AnswerApproval
  <2>1. attempt' = attempt /\ inbox' = inbox /\ deliveries' = deliveries
    BY <1>14 DEF Acquire, Expire, AskApproval, AnswerApproval
  <2> QED BY <1>4, <2>1 DEF NoneRead
<1> QED BY <1>6, <1>7, <1>8, <1>9, <1>10, <1>11, <1>12, <1>13, <1>14 DEF RunStep

-----------------------------------------------------------------------------
\* The effects of the other steps.

\* A child's attempt reads its batch when it succeeds, and its result is told of
\* in the same step.
LEMMA ChildStepEffects ==
  ASSUME Core, NEW c \in Children, ChildStep(c), ~Crash(c)
  PROVE  Effects
<1>0. /\ c \in Agents /\ c # Root /\ Root \in Agents /\ deliveries \subseteq Delivery
      /\ inbox \in [Agents -> Seq(MessageRow)] /\ attempt \in [Children -> Seq(AttemptRow)]
  BY CoreTypes, CoreParts, AgentsAssumption DEF Agents, ChildGroup
<1>1. ASSUME inbox' = inbox, NoneRead, Stays(c),
             \A d \in Children : d # c => attempt'[d] = attempt[d]
      PROVE  Effects
  <2>1. \A a \in Agents : Keeps(a)
    BY <1>1, InboxLengths, SameKeeps
  <2>2. \A d \in Children : Stays(d)
    BY <1>1, SameStays
  <2> QED BY <1>1, <2>1, <2>2 DEF Effects, Quiet
<1>2. CASE \E limit \in Limits : Admit(c, limit)
  BY <1>1, <1>2, SameStays DEF Admit, NoneRead
<1>3. CASE BeginAttempt(c)
  <2> DEFINE row == [status |-> "running", gen |-> lease.gen, briefed |-> FALSE, used |-> FALSE]
  <2>1. /\ inbox' = inbox /\ deliveries' = deliveries
        /\ attempt' = [attempt EXCEPT ![c] = Append(@, row)]
    BY <1>3 DEF BeginAttempt
  <2>2. row \in AttemptRow /\ row.status = "running"
    BY CoreTypes DEF AttemptRow
  <2> HIDE DEF row
  <2>3. /\ DOMAIN attempt[c] = 1..Len(attempt[c]) /\ Len(attempt[c]) \in Nat
        /\ attempt'[c] = Append(attempt[c], row)
        /\ DOMAIN attempt'[c] = 1..(Len(attempt[c]) + 1)
        /\ attempt'[c][Len(attempt[c]) + 1] = row
        /\ \A t \in 1..Len(attempt[c]) : attempt'[c][t] = attempt[c][t]
    BY <1>0, <2>1, <2>2, AppendProperties, LenProperties
  <2>4. \A t \in 1..(Len(attempt[c]) + 1) : t \notin 1..Len(attempt[c]) => t = Len(attempt[c]) + 1
    BY <2>3
  <2>5. Stays(c)
    BY <2>2, <2>3, <2>4 DEF Stays
  <2> QED BY <1>0, <1>1, <2>1, <2>5 DEF NoneRead
<1>4. ASSUME NEW s, attempt' = [attempt EXCEPT ![c] = s], inbox' = inbox, NoneRead,
             DOMAIN s = DOMAIN attempt[c],
             \A t \in DOMAIN s : s[t].status = attempt[c][t].status
      PROVE  Effects
  <2>1. Stays(c)
    BY <1>0, <1>4 DEF Stays
  <2> QED BY <1>0, <1>1, <1>4, <2>1
<1>5. CASE PrepareContext(c)
  <2> DEFINE n == child[c].active
             s == [attempt[c] EXCEPT ![n].briefed = TRUE]
  <2>1. /\ attempt' = [attempt EXCEPT ![c] = s] /\ inbox' = inbox
        /\ deliveries' = Superseded(deliveries, {c}) \cup NewRows(c, n)
    BY <1>5 DEF PrepareContext
  <2>2. NoneRead
    BY <2>1, ReplacedCommits
  <2>3. \A t \in DOMAIN attempt[c] : attempt[c][t] \in AttemptRow
    BY <1>0, ElementOfSeq, LenProperties
  <2>4. DOMAIN s = DOMAIN attempt[c] /\ \A t \in DOMAIN s : s[t].status = attempt[c][t].status
    BY <2>3 DEF AttemptRow
  <2> HIDE DEF s
  <2> QED BY <1>4, <2>1, <2>2, <2>4
<1>6. CASE RecordUsage(c)
  <2> DEFINE n == child[c].active
             s == [attempt[c] EXCEPT ![n].used = TRUE]
  <2>1. /\ attempt' = [attempt EXCEPT ![c] = s] /\ inbox' = inbox /\ deliveries' = deliveries
    BY <1>6 DEF RecordUsage
  <2>2. \A t \in DOMAIN attempt[c] : attempt[c][t] \in AttemptRow
    BY <1>0, ElementOfSeq, LenProperties
  <2>3. DOMAIN s = DOMAIN attempt[c] /\ \A t \in DOMAIN s : s[t].status = attempt[c][t].status
    BY <2>2 DEF AttemptRow
  <2> HIDE DEF s
  <2> QED BY <1>4, <2>1, <2>3 DEF NoneRead
<1>7. ASSUME Active(c), NEW x \in {"continued", "finished"},
             attempt' = [attempt EXCEPT ![c] = Ended(@, x)],
             StillWaiting(c), inbox'[c] = Delivered(c), deliveries' = Committed(c)
      PROVE  /\ Goes(c, x) /\ Reads(c) /\ Keeps(c) /\ child[c].active = Len(attempt[c])
             /\ \A d \in Children : d # c => Stays(d)
  <2>1. child[c].status = "running" /\ child[c].active = Len(attempt[c])
    BY <1>7 DEF Active
  <2>2. attempt'[c] = Ended(attempt[c], x) /\ \A d \in Children : d # c => attempt'[d] = attempt[d]
    BY <1>0, <1>7
  <2>3. Goes(c, x)
    BY <2>1, <2>2, EndedGoes DEF AttemptStatuses
  <2>4. Reads(c)
    BY <1>0, <1>7, <2>1, <2>3, DeliveredReads
  <2>5. Keeps(c)
    BY <1>0, <1>7, ReadKeeps DEF Delivered
  <2> QED BY <2>1, <2>2, <2>3, <2>4, <2>5, SameStays
<1>8. CASE Continue(c)
  <2>1. /\ Active(c) /\ StillWaiting(c) /\ deliveries' = Committed(c)
        /\ attempt' = [attempt EXCEPT ![c] = Ended(@, "continued")]
        /\ inbox' = [inbox EXCEPT ![c] = Delivered(c)]
    BY <1>8 DEF Continue
  <2>2. inbox'[c] = Delivered(c) /\ \A a \in Agents : a # c => inbox'[a] = inbox[a]
    BY <1>0, <2>1
  <2>3. /\ Goes(c, "continued") /\ Reads(c) /\ Keeps(c)
        /\ \A d \in Children : d # c => Stays(d)
    BY <1>7, <2>1, <2>2
  <2>4. \A a \in Agents : Keeps(a)
    BY <2>2, <2>3, InboxLengths, SameKeeps
  <2>5. Quiet
    BY <1>0, <2>2, <2>3 DEF Quiet
  <2> QED BY <1>0, <2>3, <2>4, <2>5 DEF Effects
<1>9. CASE Finish(c)
  <2> DEFINE m == Message("result", c, child[c].active)
             s == <<c>>
  <2>1. /\ Active(c) /\ StillWaiting(c) /\ deliveries' = Committed(c)
        /\ attempt' = [attempt EXCEPT ![c] = Ended(@, "finished")]
        /\ inbox' = [inbox EXCEPT ![c] = Delivered(c), ![Root] = Append(@, m)]
    BY <1>9 DEF Finish
  <2>2. m \in MessageRow /\ m.kind = "result" /\ m.from = c /\ m.turn = child[c].active
    BY ChildParts DEF Message, MessageRow, Agents
  <2> HIDE DEF m
  <2>3. /\ inbox'[c] = Delivered(c) /\ inbox'[Root] = Append(inbox[Root], m)
        /\ \A a \in Agents : a \notin {c, Root} => inbox'[a] = inbox[a]
    BY <1>0, <2>1
  <2>4. /\ Goes(c, "finished") /\ Reads(c) /\ Keeps(c) /\ child[c].active = Len(attempt[c])
        /\ \A d \in Children : d # c => Stays(d)
    BY <1>7, <2>1, <2>3
  <2>5. /\ Keeps(Root) /\ Len(inbox'[Root]) = Len(inbox[Root]) + 1
        /\ inbox'[Root][Len(inbox[Root]) + 1] = m
    BY <1>0, <2>2, <2>3, AppendKeeps
  <2>6. \A a \in Agents : Keeps(a)
    BY <2>3, <2>4, <2>5, InboxLengths, SameKeeps
  <2>7. s \in Seq(Children) /\ Len(s) = 1 /\ s[1] = c /\ 1..1 = {1}
    OBVIOUS
  <2> HIDE DEF s
  <2>8. Tells(s, "result")
    <3>1. \A i \in 1..Len(s) : i = 1 /\ s[i] = c
      BY <2>7
    <3>2. 1 \in 1..Len(s)
      BY <2>7
    <3>3. \A i, j \in 1..Len(s) : s[i] = s[j] => i = j
      BY <3>1
    <3>4. \A d \in Children :
            IF \E i \in 1..Len(s) : s[i] = d THEN Goes(d, EndOf("result")) ELSE Stays(d)
      BY <2>4, <2>7, <3>1, <3>2 DEF EndOf
    <3>5. \A i \in 1..Len(s) :
            /\ inbox'[Root][Len(inbox[Root]) + i].kind = "result"
            /\ inbox'[Root][Len(inbox[Root]) + i].from = s[i]
            /\ inbox'[Root][Len(inbox[Root]) + i].turn = Len(attempt[s[i]])
      BY <2>2, <2>4, <2>5, <3>1
    <3> QED BY <2>5, <2>7, <3>3, <3>4, <3>5 DEF Tells
  <2> QED BY <1>0, <2>4, <2>6, <2>8 DEF Effects
<1>10. CASE Wake(c)
  <2> DEFINE m == Message("wake", Root, 0)
  <2>1. /\ inbox' = [inbox EXCEPT ![c] = Append(@, m)] /\ attempt' = attempt
        /\ deliveries' = deliveries
    BY <1>10 DEF Wake
  <2>2. m \in MessageRow
    BY DEF Message, MessageRow, Agents
  <2> HIDE DEF m
  <2>3. /\ inbox'[c] = Append(inbox[c], m)
        /\ \A a \in Agents : a # c => inbox'[a] = inbox[a]
    BY <1>0, <2>1
  <2>4. Keeps(c)
    BY <1>0, <2>2, <2>3, AppendKeeps
  <2>5. \A a \in Agents : Keeps(a)
    BY <2>3, <2>4, InboxLengths, SameKeeps
  <2>6. Quiet
    BY <1>0, <2>1, <2>3, SameStays DEF Quiet
  <2> QED BY <2>1, <2>5, <2>6 DEF Effects, NoneRead
<1> QED BY <1>2, <1>3, <1>5, <1>6, <1>8, <1>9, <1>10 DEF ChildStep

\* A recovery tells of each crash that it records.
LEMMA CrashEffects ==
  ASSUME Core, NEW s \in Seq(Children), CrashAll(s), \A i, j \in DOMAIN s : s[i] = s[j] => i = j
  PROVE  Effects
<1>1. /\ inbox' = [inbox EXCEPT ![Root] = @ \o Notices(s)]
      /\ deliveries' = Superseded(deliveries, ToSet(s))
      /\ attempt' = [c \in Children |-> IF c \in ToSet(s) THEN Ended(attempt[c], "crashed")
                                        ELSE attempt[c]]
      /\ \A c \in ToSet(s) : child[c].status = "running" /\ child[c].active = Len(attempt[c])
  BY DEF CrashAll
<1>2. /\ deliveries \subseteq Delivery /\ inbox \in [Agents -> Seq(MessageRow)]
      /\ DOMAIN s = 1..Len(s) /\ Len(s) \in Nat
      /\ \A i \in 1..Len(s) : s[i] \in Children
  BY CoreTypes, LenProperties, ElementOfSeq
<1>3. NoneRead
  BY <1>1, <1>2, SupersededCommits DEF NoneRead
<1>4. /\ Len(inbox[Root]) \in Nat
      /\ Len(inbox'[Root]) = Len(inbox[Root]) + Len(s)
      /\ \A i \in 1..Len(inbox[Root]) : inbox'[Root][i] = inbox[Root][i]
      /\ \A i \in 1..Len(s) : inbox'[Root][Len(inbox[Root]) + i]
                                = Message("crash", s[i], child[s[i]].active)
  BY <1>1, NoticedInbox
<1>5. \A a \in Agents : Keeps(a)
  <2>1. Keeps(Root)
    BY <1>2, <1>4 DEF Keeps
  <2>2. \A a \in Agents : a # Root => inbox'[a] = inbox[a]
    BY <1>1, <1>2
  <2> QED BY <2>1, <2>2, InboxLengths, SameKeeps
<1>6. \A c \in Children : c \in ToSet(s) <=> \E i \in 1..Len(s) : s[i] = c
  BY <1>2 DEF ToSet
<1>7. ASSUME NEW c \in Children
      PROVE  IF \E i \in 1..Len(s) : s[i] = c THEN Goes(c, EndOf("crash")) ELSE Stays(c)
  <2>1. CASE c \in ToSet(s)
    <3>1. child[c].status = "running" /\ attempt'[c] = Ended(attempt[c], "crashed")
      BY <1>1, <2>1
    <3>2. Goes(c, "crashed")
      BY <3>1, EndedGoes DEF AttemptStatuses
    <3> QED BY <1>6, <2>1, <3>2 DEF EndOf
  <2>2. CASE c \notin ToSet(s)
    <3>1. attempt'[c] = attempt[c]
      BY <1>1, <2>2
    <3> QED BY <1>6, <2>2, <3>1, SameStays
  <2> QED BY <2>1, <2>2
<1>8. \A i \in 1..Len(s) :
        /\ inbox'[Root][Len(inbox[Root]) + i].kind = "crash"
        /\ inbox'[Root][Len(inbox[Root]) + i].from = s[i]
        /\ inbox'[Root][Len(inbox[Root]) + i].turn = Len(attempt[s[i]])
  <2> TAKE i \in 1..Len(s)
  <2>1. s[i] \in ToSet(s)
    BY <1>2 DEF ToSet
  <2>2. child[s[i]].active = Len(attempt[s[i]])
    BY <1>1, <2>1
  <2>3. inbox'[Root][Len(inbox[Root]) + i] = Message("crash", s[i], child[s[i]].active)
    BY <1>4
  <2> QED BY <2>2, <2>3 DEF Message
<1>9. Tells(s, "crash")
  BY <1>2, <1>4, <1>7, <1>8 DEF Tells
<1> QED BY <1>3, <1>5, <1>9 DEF Effects

\* Messages that are sent or consumed by hand are no notices.
LEMMA MessageEffects ==
  ASSUME Core, NEW b \in Agents,
         Consume(b) \/ \E kind \in {"instruction", "other"} : Send(b, kind)
  PROVE  Effects
<1>0. Root \in Agents /\ inbox \in [Agents -> Seq(MessageRow)]
  BY CoreTypes DEF Agents
<1>1. attempt' = attempt /\ deliveries' = deliveries
  BY DEF Consume, Send
<1>2. ASSUME Keeps(b), \A a \in Agents : a # b => inbox'[a] = inbox[a],
             b = Root => \A i \in DOMAIN inbox'[Root] : i \notin DOMAIN inbox[Root] =>
                           inbox'[Root][i].kind \notin {"result", "crash"}
      PROVE  Effects
  <2>1. \A a \in Agents : Keeps(a)
    BY <1>2, InboxLengths, SameKeeps
  <2>2. Quiet
    BY <1>0, <1>1, <1>2, SameStays DEF Quiet
  <2> QED BY <1>1, <2>1, <2>2 DEF Effects, NoneRead
<1>3. CASE Consume(b)
  <2> DEFINE first == {i \in Unread(b) : Cardinality({j \in Unread(b) : j <= i}) <= MessageBatch}
  <2>1. inbox' = [inbox EXCEPT ![b] = Read(@, first)]
    BY <1>3 DEF Consume
  <2> HIDE DEF first
  <2>2. inbox'[b] = Read(inbox[b], first) /\ \A a \in Agents : a # b => inbox'[a] = inbox[a]
    BY <1>0, <2>1
  <2>3. Keeps(b) /\ DOMAIN inbox'[b] = DOMAIN inbox[b]
    BY <2>2, ReadKeeps
  <2> QED BY <1>2, <2>2, <2>3
<1>4. CASE \E kind \in {"instruction", "other"} : Send(b, kind)
  <2>1. PICK kind \in {"instruction", "other"} : Send(b, kind)
    BY <1>4
  <2> DEFINE m == Message(kind, Root, 0)
  <2>2. m \in MessageRow /\ m.kind \notin {"result", "crash"}
    BY DEF Message, MessageRow, Agents
  <2>3. inbox' = [inbox EXCEPT ![b] = Append(@, m)]
    BY <2>1 DEF Send
  <2> HIDE DEF m
  <2>4. inbox'[b] = Append(inbox[b], m) /\ \A a \in Agents : a # b => inbox'[a] = inbox[a]
    BY <1>0, <2>3
  <2>5. Keeps(b) /\ \A i \in DOMAIN inbox'[b] : i \notin DOMAIN inbox[b] => inbox'[b][i] = m
    BY <2>2, <2>4, AppendKeeps
  <2> QED BY <1>2, <2>2, <2>4, <2>5
<1> QED BY <1>3, <1>4

\* Every step is one of these.
LEMMA NextEffects == ASSUME Core, Next PROVE Effects
<1>1. CASE RunStep
  BY <1>1, RunStepEffects
<1>2. ASSUME NEW c \in Children, ChildStep(c) PROVE Effects
  <2>1. CASE Crash(c)
    <3> DEFINE s == <<c>>
    <3>1. CrashAll(s) /\ s \in Seq(Children) /\ \A i, j \in DOMAIN s : i = j
      BY <2>1 DEF Crash
    <3> HIDE DEF s
    <3> QED BY <3>1, CrashEffects
  <2>2. CASE ~Crash(c)
    BY <1>2, <2>2, ChildStepEffects
  <2> QED BY <2>1, <2>2
<1>3. CASE Recover
  <2>1. PICK s \in SetToSeqs(Stale) : CrashAll(s)
    BY <1>3 DEF Recover
  <2>2. s \in Seq(Children) /\ \A i, j \in DOMAIN s : s[i] = s[j] => i = j
    BY StaleInSeq
  <2> QED BY <2>1, <2>2, CrashEffects
<1>4. CASE \E b \in Agents : Consume(b)
  BY <1>4, MessageEffects
<1>5. CASE \E b \in Addressed, kind \in {"instruction", "other"} : Send(b, kind)
  <2>1. Addressed \subseteq Agents
    BY AgentsAssumption DEF Agents
  <2> QED BY <1>5, <2>1, MessageEffects
<1> QED BY <1>1, <1>2, <1>3, <1>4, <1>5 DEF Next

-----------------------------------------------------------------------------
\* Once read.

\* What is committed is read: once, and by an attempt that succeeded.
ReadInv ==
  \A d \in deliveries : d.status = "committed" =>
    /\ d.seq \in DOMAIN inbox[d.to] /\ inbox[d.to][d.seq].status = "consumed"
    /\ \A e \in deliveries : e.to = d.to /\ e.seq = d.seq /\ e.status = "committed" => e = d
    /\ d.to \in Children => /\ d.attempt \in DOMAIN attempt[d.to]
                            /\ attempt[d.to][d.attempt].status \in {"continued", "finished"}

\* What is given to an attempt are its messages once each.
LEMMA GivenOnce ==
  ASSUME Core, NEW a \in Agents, BatchRight(a), NEW d \in Given(a), NEW e \in Given(a),
         d.seq = e.seq
  PROVE  d = e
<1>1. d \in Delivery /\ e \in Delivery
  BY CoreTypes DEF Given, PreparedTo
<1>2. d.to = e.to /\ d.attempt = e.attempt /\ d.status = e.status
  BY DEF Given, PreparedTo
<1>3. d.ordinal = e.ordinal
  <2>1. d \in PreparedTo(a) /\ e \in PreparedTo(a)
    BY DEF Given
  <2> QED BY <2>1 DEF BatchRight
<1> QED BY <1>1, <1>2, <1>3 DEF Delivery

\* An attempt that has ended stays as it ended.
LEMMA EndedStay ==
  ASSUME Quiet \/ (\E s, kind : kind \in {"result", "crash"} /\ Tells(s, kind)),
         NEW c \in Children, NEW t \in DOMAIN attempt[c], attempt[c][t].status # "running"
  PROVE  t \in DOMAIN attempt'[c] /\ attempt'[c][t].status = attempt[c][t].status
<1>1. Stays(c) \/ \E x : Goes(c, x)
  BY DEF Quiet, Tells
<1>2. CASE Stays(c)
  BY <1>2 DEF Stays
<1>3. CASE \E x : Goes(c, x)
  BY <1>3 DEF Goes
<1> QED BY <1>1, <1>2, <1>3

\* A step with these effects keeps what is read read, and reads what is still
\* waiting.
LEMMA ReadStep ==
  ASSUME Core, Core', Batches, ReadInv, Effects
  PROVE  ReadInv'
<1>0. \A a \in Agents : /\ Keeps(a) /\ Len(inbox[a]) \in Nat /\ Len(inbox'[a]) \in Nat
                        /\ DOMAIN inbox[a] = 1..Len(inbox[a])
                        /\ DOMAIN inbox'[a] = 1..Len(inbox'[a])
  <2>1. inbox' \in [Agents -> Seq(MessageRow)]
    BY DEF Core, TypeOK
  <2> QED BY <2>1, InboxLengths, LenProperties DEF Effects
<1>1. deliveries \subseteq Delivery
  BY CoreTypes
<1>2. ASSUME NEW d \in Commits(deliveries)
      PROVE  /\ d.to \in Agents /\ d.seq \in DOMAIN inbox'[d.to]
             /\ inbox[d.to][d.seq].status = "consumed" /\ inbox'[d.to][d.seq].status = "consumed"
             /\ d.to \in Children =>
                  /\ d.attempt \in DOMAIN attempt'[d.to]
                  /\ attempt'[d.to][d.attempt].status \in {"continued", "finished"}
  <2>1. /\ d.to \in Agents /\ d.seq \in DOMAIN inbox[d.to] /\ inbox[d.to][d.seq].status = "consumed"
        /\ d.to \in Children =>
             /\ d.attempt \in DOMAIN attempt[d.to]
             /\ attempt[d.to][d.attempt].status \in {"continued", "finished"}
    BY <1>1 DEF Commits, ReadInv, Delivery
  <2>2. d.seq \in DOMAIN inbox'[d.to] /\ inbox'[d.to][d.seq].status = "consumed"
    BY <1>0, <2>1 DEF Keeps
  <2>3. d.to \in Children =>
             /\ d.attempt \in DOMAIN attempt'[d.to]
             /\ attempt'[d.to][d.attempt].status = attempt[d.to][d.attempt].status
    BY <2>1, EndedStay DEF Effects
  <2> QED BY <2>1, <2>2, <2>3
<1>3. CASE NoneRead
  <2>1. \A d \in deliveries' : d.status = "committed" => d \in Commits(deliveries)
    BY <1>3 DEF NoneRead, Commits
  <2>2. \A d, e \in Commits(deliveries) : e.to = d.to /\ e.seq = d.seq => e = d
    BY DEF Commits, ReadInv
  <2> QED BY <1>2, <2>1, <2>2 DEF ReadInv
<1>4. ASSUME NEW a \in Agents, Reads(a) PROVE ReadInv'
  <2> DEFINE Done(d) == [d EXCEPT !.status = "committed"]
             N == {Done(d) : d \in Given(a)}
  <2>1. /\ Commits(deliveries') = Commits(deliveries) \cup N /\ StillWaiting(a)
        /\ \A d \in Given(a) : inbox'[a][d.seq].status = "consumed"
        /\ a \in Children => /\ child[a].active = Len(attempt[a])
                             /\ \E x \in {"continued", "finished"} : Goes(a, x)
    BY <1>4 DEF Reads
  <2>2. ASSUME NEW d \in Given(a)
        PROVE  /\ d \in Delivery /\ d.to = a /\ d.attempt = AttemptOf(a)
               /\ Done(d).to = a /\ Done(d).seq = d.seq /\ Done(d).attempt = d.attempt
               /\ d.seq \in DOMAIN inbox[a] /\ inbox[a][d.seq].status = "pending"
    <3>1. d \in Delivery /\ d.to = a /\ d.attempt = AttemptOf(a)
      BY <1>1 DEF Given, PreparedTo
    <3>2. d.seq \in DOMAIN inbox[a] /\ inbox[a][d.seq].status = "pending"
      BY <2>1 DEF StillWaiting, Eligible, Unread
    <3> QED BY <3>1, <3>2 DEF Delivery
  <2> HIDE DEF Done
  <2>3. ASSUME NEW e \in N
        PROVE  /\ e.to = a /\ e.seq \in DOMAIN inbox'[a]
               /\ inbox[a][e.seq].status = "pending" /\ inbox'[a][e.seq].status = "consumed"
               /\ a \in Children =>
                    /\ e.attempt \in DOMAIN attempt'[a]
                    /\ attempt'[a][e.attempt].status \in {"continued", "finished"}
    <3>1. PICK d \in Given(a) : e = Done(d)
      OBVIOUS
    <3>2. /\ e.to = a /\ e.seq = d.seq /\ e.attempt = AttemptOf(a)
          /\ d.seq \in DOMAIN inbox[a] /\ inbox[a][d.seq].status = "pending"
      BY <2>2, <3>1
    <3>3. e.seq \in DOMAIN inbox'[a]
      BY <1>0, <3>2 DEF Keeps
    <3>4. a \in Children => e.attempt = Len(attempt[a])
      BY <2>1, <3>2, AgentsAssumption DEF AttemptOf
    <3>5. a \in Children => /\ e.attempt \in DOMAIN attempt'[a]
                            /\ attempt'[a][e.attempt].status \in {"continued", "finished"}
      BY <2>1, <3>4 DEF Goes
    <3> QED BY <2>1, <3>1, <3>2, <3>3, <3>5
  <2>4. ASSUME NEW d \in N, NEW e \in N, d.seq = e.seq PROVE d = e
    <3>1. PICK d0 \in Given(a) : d = Done(d0)
      OBVIOUS
    <3>2. PICK e0 \in Given(a) : e = Done(e0)
      OBVIOUS
    <3>3. d0.seq = e0.seq
      BY <2>2, <2>4, <3>1, <3>2
    <3>4. BatchRight(a)
      BY DEF Batches
    <3>5. d0 = e0
      BY <3>3, <3>4, GivenOnce
    <3> QED BY <3>1, <3>2, <3>5
  <2>5. \A d, e \in Commits(deliveries) : e.to = d.to /\ e.seq = d.seq => e = d
    BY DEF Commits, ReadInv
  <2>6. \A d \in deliveries' : d.status = "committed" => d \in Commits(deliveries) \/ d \in N
    BY <2>1 DEF Commits
  <2> HIDE DEF N
  <2>7. ASSUME NEW d \in deliveries', NEW e \in deliveries', d.status = "committed",
               e.status = "committed", e.to = d.to, e.seq = d.seq
        PROVE  e = d
    <3>1. CASE d \in Commits(deliveries) /\ e \in Commits(deliveries)
      BY <2>5, <2>7, <3>1
    <3>2. CASE d \in N /\ e \in N
      BY <2>4, <2>7, <3>2
    <3>3. CASE d \in Commits(deliveries) /\ e \in N
      BY <1>2, <2>3, <2>7, <3>3
    <3>4. CASE d \in N /\ e \in Commits(deliveries)
      BY <1>2, <2>3, <2>7, <3>4
    <3> QED BY <2>6, <2>7, <3>1, <3>2, <3>3, <3>4
  <2>8. ASSUME NEW d \in deliveries', d.status = "committed"
        PROVE  /\ d.seq \in DOMAIN inbox'[d.to] /\ inbox'[d.to][d.seq].status = "consumed"
               /\ d.to \in Children =>
                    /\ d.attempt \in DOMAIN attempt'[d.to]
                    /\ attempt'[d.to][d.attempt].status \in {"continued", "finished"}
    BY <1>2, <2>3, <2>6, <2>8
  <2> QED BY <2>7, <2>8 DEF ReadInv
<1> QED BY <1>3, <1>4 DEF Effects

\* A message is read by one attempt only, and by one that succeeded, whatever is
\* redelivered after a crash, an interruption or a takeover
\* (commitInboxDeliveriesTx).
THEOREM MessagesReadOnce == Spec => []ReadOnce
<1>1. Init => ReadInv
  BY DEF Init, ReadInv
<1>2. AgentInv /\ AgentInv' /\ Batches /\ ReadInv /\ [Next]_vars => ReadInv'
  <2>1. AgentInv /\ AgentInv' /\ Batches /\ ReadInv /\ Next => ReadInv'
    <3>1. AgentInv => Core
      BY AgentInvIsCore
    <3>2. AgentInv' => Core'
      BY DEF AgentInv, Core
    <3> QED BY <3>1, <3>2, NextEffects, ReadStep
  <2>2. ReadInv /\ UNCHANGED vars => ReadInv'
    BY DEF vars, ReadInv
  <2> QED BY <2>1, <2>2
<1>3. ReadInv => ReadOnce
  BY DEF ReadInv, ReadOnce
<1> QED BY AgentInvariant, BatchesAlways, <1>1, <1>2, <1>3, PTL DEF Spec

-----------------------------------------------------------------------------
\* Each end is told once.

\* The notices of an attempt's end.
Told(kind, c, t) ==
  {i \in DOMAIN inbox[Root] :
     inbox[Root][i].kind = kind /\ inbox[Root][i].from = c /\ inbox[Root][i].turn = t}

\* An attempt that ended in this way.
Has(c, t, status) == t \in DOMAIN attempt[c] /\ attempt[c][t].status = status

\* One notice of an attempt that ended in this way, none of another.
Reported(kind, c, t) ==
  IF Has(c, t, EndOf(kind)) THEN \E i : Told(kind, c, t) = {i} ELSE Told(kind, c, t) = {}

ReportsMatch == \A kind \in {"result", "crash"}, c \in Children, t \in Nat : Reported(kind, c, t)

\* The reports of an attempt that neither ends nor is told of.
LEMMA SameReport ==
  ASSUME NEW kind, NEW c, NEW t, Reported(kind, c, t), Told(kind, c, t)' = Told(kind, c, t),
         Has(c, t, EndOf(kind))' <=> Has(c, t, EndOf(kind))
  PROVE  Reported(kind, c, t)'
BY DEF Reported, EndOf

\* An attempt that a step does not end in this way.
LEMMA SameEnds ==
  ASSUME NEW c \in Children, NEW t, NEW status, status # "running",
         Stays(c) \/ \E x : x # status /\ Goes(c, x)
  PROVE  Has(c, t, status)' <=> Has(c, t, status)
<1>1. CASE Stays(c)
  BY <1>1 DEF Stays, Has
<1>2. CASE \E x : x # status /\ Goes(c, x)
  BY <1>2 DEF Goes, Has
<1> QED BY <1>1, <1>2

\* An old message tells what it told.
LEMMA OldTold ==
  ASSUME Core, Core', Keeps(Root), NEW kind, NEW c, NEW t
  PROVE  /\ Told(kind, c, t) \subseteq Told(kind, c, t)'
         /\ \A i \in Told(kind, c, t)' : i \in DOMAIN inbox[Root] => i \in Told(kind, c, t)
         /\ Len(inbox[Root]) \in Nat /\ Len(inbox'[Root]) \in Nat
         /\ DOMAIN inbox[Root] = 1..Len(inbox[Root]) /\ DOMAIN inbox'[Root] = 1..Len(inbox'[Root])
<1>1. /\ Len(inbox[Root]) \in Nat /\ Len(inbox'[Root]) \in Nat
      /\ DOMAIN inbox[Root] = 1..Len(inbox[Root]) /\ DOMAIN inbox'[Root] = 1..Len(inbox'[Root])
  <2>1. inbox'[Root] \in Seq(MessageRow)
    BY DEF Core, TypeOK, Agents
  <2> QED BY <2>1, InboxLengths, LenProperties DEF Agents
<1>2. \A i \in DOMAIN inbox[Root] :
        /\ i \in DOMAIN inbox'[Root]
        /\ inbox'[Root][i].kind = inbox[Root][i].kind
        /\ inbox'[Root][i].from = inbox[Root][i].from
        /\ inbox'[Root][i].turn = inbox[Root][i].turn
  BY <1>1 DEF Keeps
<1> QED BY <1>1, <1>2 DEF Told

\* A step that tells of no end keeps the reports right.
LEMMA QuietReports ==
  ASSUME Core, Core', ReportsMatch, Keeps(Root), Quiet
  PROVE  ReportsMatch'
<1> SUFFICES ASSUME NEW kind \in {"result", "crash"}, NEW c \in Children, NEW t \in Nat
             PROVE  Reported(kind, c, t)'
  BY DEF ReportsMatch
<1>1. Told(kind, c, t)' = Told(kind, c, t)
  <2>1. \A i \in Told(kind, c, t)' : i \in DOMAIN inbox'[Root] /\ inbox'[Root][i].kind = kind
    BY DEF Told
  <2>2. /\ Told(kind, c, t) \subseteq Told(kind, c, t)'
        /\ \A i \in Told(kind, c, t)' : i \in DOMAIN inbox[Root] => i \in Told(kind, c, t)
    BY OldTold
  <2>3. \A i \in Told(kind, c, t)' : i \in DOMAIN inbox[Root]
    BY <2>1 DEF Quiet
  <2> QED BY <2>2, <2>3
<1>2. EndOf(kind) \in {"finished", "crashed"}
  BY DEF EndOf
<1>3. Has(c, t, EndOf(kind))' <=> Has(c, t, EndOf(kind))
  <2> DEFINE status == EndOf(kind)
  <2>1. Stays(c) \/ \E x : x # status /\ Goes(c, x)
    BY <1>2 DEF Quiet
  <2>2. status # "running"
    BY <1>2
  <2>3. Has(c, t, status)' <=> Has(c, t, status)
    <3> HIDE DEF status
    <3> QED BY <2>1, <2>2, SameEnds
  <2> QED BY <2>3
<1>4. Reported(kind, c, t)
  BY DEF ReportsMatch
<1> QED BY <1>1, <1>3, <1>4, SameReport

\* A step that tells of ends tells of just those that it records.
LEMMA ToldReports ==
  ASSUME Core, Core', ReportsMatch, Keeps(Root), NEW s, NEW what \in {"result", "crash"},
         Tells(s, what)
  PROVE  ReportsMatch'
<1> SUFFICES ASSUME NEW kind \in {"result", "crash"}, NEW c \in Children, NEW t \in Nat
             PROVE  Reported(kind, c, t)'
  BY DEF ReportsMatch
<1> DEFINE n == Len(inbox[Root])
           status == EndOf(kind)
<1>1. /\ Told(kind, c, t) \subseteq Told(kind, c, t)'
      /\ \A i \in Told(kind, c, t)' : i \in DOMAIN inbox[Root] => i \in Told(kind, c, t)
      /\ n \in Nat /\ DOMAIN inbox[Root] = 1..n
      /\ DOMAIN inbox'[Root] = 1..(n + Len(s)) /\ Len(s) \in Nat
  BY OldTold, LenProperties DEF Tells
<1>2. status \in {"finished", "crashed"} /\ (kind # what <=> status # EndOf(what))
  BY DEF EndOf
<1>3. Reported(kind, c, t)
  BY DEF ReportsMatch
\* A new message tells of one of the children in s.
<1>4. ASSUME NEW i \in Told(kind, c, t)', i \notin Told(kind, c, t)
      PROVE  /\ kind = what
             /\ \E k \in 1..Len(s) : i = n + k /\ s[k] = c /\ t = Len(attempt[c])
  <2>1. i \in 1..(n + Len(s)) /\ i \notin 1..n
    BY <1>1, <1>4 DEF Told
  <2>2. PICK k \in 1..Len(s) : i = n + k
    <3>1. i - n \in 1..Len(s) /\ i = n + (i - n)
      BY <1>1, <2>1
    <3> QED BY <3>1
  <2>3. /\ inbox'[Root][i].kind = what /\ inbox'[Root][i].from = s[k]
        /\ inbox'[Root][i].turn = Len(attempt[s[k]])
    BY <2>2 DEF Tells
  <2>4. inbox'[Root][i].kind = kind /\ inbox'[Root][i].from = c /\ inbox'[Root][i].turn = t
    BY DEF Told
  <2> QED BY <2>2, <2>3, <2>4
<1>5. ASSUME kind # what \/ ~\E k \in 1..Len(s) : s[k] = c
      PROVE  Reported(kind, c, t)'
  <2>1. Told(kind, c, t)' = Told(kind, c, t)
    BY <1>1, <1>4, <1>5
  <2>2. Stays(c) \/ \E x : x # status /\ Goes(c, x)
    BY <1>2, <1>5 DEF Tells
  <2>3. status # "running"
    BY <1>2
  <2>4. Has(c, t, status)' <=> Has(c, t, status)
    <3> HIDE DEF status
    <3> QED BY <2>2, <2>3, SameEnds
  <2> QED BY <1>3, <2>1, <2>4, SameReport
<1>6. ASSUME kind = what, NEW k \in 1..Len(s), s[k] = c
      PROVE  Reported(kind, c, t)'
  <2>1. Goes(c, status)
    BY <1>6 DEF Tells
  <2>2. CASE t # Len(attempt[c])
    <3>1. Told(kind, c, t)' = Told(kind, c, t)
      BY <1>1, <1>4, <2>2
    <3>2. Has(c, t, status)' <=> Has(c, t, status)
      BY <2>1, <2>2 DEF Goes, Has
    <3> QED BY <1>3, <3>1, <3>2, SameReport
  <2>3. CASE t = Len(attempt[c])
    <3>1. Has(c, t, status)' /\ ~Has(c, t, status)
      BY <1>2, <2>1, <2>3 DEF Goes, Has
    <3>2. Told(kind, c, t) = {}
      BY <1>3, <3>1 DEF Reported
    <3>3. n + k \in Told(kind, c, t)'
      <4>1. n + k \in DOMAIN inbox'[Root]
        BY <1>1
      <4>2. /\ inbox'[Root][n + k].kind = kind /\ inbox'[Root][n + k].from = c
            /\ inbox'[Root][n + k].turn = t
        BY <1>6, <2>3 DEF Tells
      <4> HIDE DEF n
      <4> QED BY <4>1, <4>2 DEF Told
    <3>4. \A i \in Told(kind, c, t)' : i = n + k
      BY <1>4, <1>6, <3>2 DEF Tells
    <3>5. Told(kind, c, t)' = {n + k}
      BY <3>3, <3>4
    <3>6. Has(c, t, EndOf(kind))'
      BY <3>1 DEF EndOf
    <3> HIDE DEF n
    <3> QED BY <3>5, <3>6 DEF Reported
  <2> QED BY <2>2, <2>3
<1> QED BY <1>5, <1>6

\* Reports that match say what the root has to be told.
LEMMA ReportsAreEnds ==
  ASSUME Core, ReportsMatch
  PROVE  EveryEndIsReported
<1> SUFFICES ASSUME NEW c \in Children, NEW t \in DOMAIN attempt[c]
             PROVE  LET status == attempt[c][t].status IN
                    Cardinality({i \in DOMAIN inbox[Root] :
                        /\ inbox[Root][i].from = c /\ inbox[Root][i].turn = t
                        /\ inbox[Root][i].kind = IF status = "finished" THEN "result" ELSE "crash"})
                      = IF status \in {"finished", "crashed"} THEN 1 ELSE 0
  BY DEF EveryEndIsReported
<1> DEFINE status == attempt[c][t].status
           kind == IF status = "finished" THEN "result" ELSE "crash"
<1>1. t \in Nat
  BY ChildParts, LenProperties
<1>2. kind \in {"result", "crash"} /\ (Has(c, t, EndOf(kind)) <=> status \in {"finished", "crashed"})
  BY DEF Has, EndOf
<1>3. Reported(kind, c, t)
  BY <1>1, <1>2 DEF ReportsMatch
<1>4. {i \in DOMAIN inbox[Root] : /\ inbox[Root][i].from = c /\ inbox[Root][i].turn = t
                                  /\ inbox[Root][i].kind = kind} = Told(kind, c, t)
  BY DEF Told
<1> HIDE DEF kind
<1>5. Cardinality(Told(kind, c, t)) = IF status \in {"finished", "crashed"} THEN 1 ELSE 0
  BY <1>2, <1>3, FS_EmptySet, FS_Singleton DEF Reported
<1> QED BY <1>4, <1>5 DEF kind

\* The root is told once of each attempt that finished or crashed, whoever
\* recorded it, the worker itself or a recovery, and of no other.
THEOREM EndsReported == Spec => []EveryEndIsReported
<1>1. Init => ReportsMatch
  BY DEF Init, ReportsMatch, Reported, Told, Has, Agents
<1>2. AgentInv /\ AgentInv' /\ ReportsMatch /\ [Next]_vars => ReportsMatch'
  <2>1. ASSUME AgentInv, AgentInv', ReportsMatch, Next PROVE ReportsMatch'
    <3>1. Core /\ Core'
      BY <2>1, AgentInvIsCore DEF AgentInv, Core
    <3>2. Effects
      BY <2>1, <3>1, NextEffects
    <3>3. Keeps(Root)
      BY <3>2 DEF Effects, Agents
    <3> QED BY <2>1, <3>1, <3>2, <3>3, QuietReports, ToldReports DEF Effects
  <2>2. ASSUME ReportsMatch, UNCHANGED vars PROVE ReportsMatch'
    <3> SUFFICES ASSUME NEW kind \in {"result", "crash"}, NEW c \in Children, NEW t \in Nat
                 PROVE  Reported(kind, c, t)'
      BY DEF ReportsMatch
    <3>1. Told(kind, c, t)' = Told(kind, c, t) /\ (Has(c, t, EndOf(kind))' <=> Has(c, t, EndOf(kind)))
      BY <2>2 DEF vars, Told, Has, EndOf
    <3>2. Reported(kind, c, t)
      BY <2>2 DEF ReportsMatch
    <3> QED BY <3>1, <3>2, SameReport
  <2> QED BY <2>1, <2>2
<1>3. AgentInv /\ ReportsMatch => EveryEndIsReported
  BY AgentInvIsCore, ReportsAreEnds
<1> QED BY AgentInvariant, <1>1, <1>2, <1>3, PTL DEF Spec
==============================================================================
