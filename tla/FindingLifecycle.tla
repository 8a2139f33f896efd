--------------------------- MODULE FindingLifecycle ---------------------------
(* The life of vulnerability candidates and the row that shows them.  Several *)
(* detectors and verifiers record what they see of the same candidates at the *)
(* same time, one SQL statement after the other and without a transaction; the *)
(* candidates (same type, URL and parameter) share one row of vuln_findings,     *)
(* which the scoring pass and the operator write as well.                       *)
EXTENDS Naturals, FiniteSets
CONSTANTS
    Candidates,  \* candidates at one type, URL and parameter
    Recorders,   \* goroutines that record observations
    NoCand,      \* the link of a row that belongs to no candidate
    MaxRecords,  \* bound: observations
    MaxOthers    \* bound: rows scored, operator's decisions and recorders that end
                 \* halfway (stopped scan, busy database), taken together
ASSUME LifecycleAssumption == /\ NoCand \notin Candidates
                              /\ {MaxRecords, MaxOthers} \subseteq Nat

States == {"DETECTED", "TRIAGED", "VERIFYING", "VERIFIED", "CONFIRMED", "REJECTED",
           "INCONCLUSIVE", "DUPLICATE"}
Absent == "absent"     \* no candidate, or no row, of this kind yet
Verdicts == {"verified", "rejected", "inconclusive", "detected"}

VARIABLES
    cand,     \* status and state_version of each candidate
    trail,    \* candidate_transitions
    row,      \* the row of vuln_findings: status, lifecycle, candidate_id
    rec,      \* what each recorder does
    scorer,   \* the scoring pass: the row as it read it, or not at work
    been,     \* history: the states each candidate has been in
    vouched,  \* history: the row was a finding before candidates, the operator confirmed
              \* it, or the scoring pass overwrote a row that had changed since it read it
    records, others
lifeVars == <<cand, trail, row, rec, scorer, been, vouched, records, others>>

NoRow == [status |-> Absent, lifecycle |-> "LEGACY", link |-> NoCand]
LegacyRow == [NoRow EXCEPT !.status = "finding"]
Resting == [pc |-> "idle", c |-> NoCand, verdict |-> "detected", visible |-> FALSE,
            goal |-> "DETECTED", from |-> Absent, ver |-> 0, state |-> Absent]
NotScoring == [on |-> FALSE, seen |-> NoRow]

LifeInit ==
    /\ cand = [c \in Candidates |-> [status |-> Absent, ver |-> 0]]
    /\ trail = {} /\ row \in {NoRow, LegacyRow} /\ vouched = (row = LegacyRow)
    /\ rec = [r \in Recorders |-> Resting] /\ scorer = NotScoring
    /\ been = [c \in Candidates |-> {}] /\ records = 0 /\ others = 0

\* legalFrom.
LegalFrom(to) ==
    CASE to = "TRIAGED"      -> {"DETECTED"}
      [] to = "VERIFYING"    -> {"DETECTED", "TRIAGED", "INCONCLUSIVE"}
      [] to = "VERIFIED"     -> {"VERIFYING"}
      [] to = "CONFIRMED"    -> {"VERIFYING", "VERIFIED", "DETECTED"}
      [] to \in {"REJECTED", "INCONCLUSIVE"} -> {"VERIFYING", "VERIFIED"}
      [] to = "DUPLICATE"    -> {"DETECTED", "TRIAGED", "VERIFYING", "VERIFIED", "CONFIRMED",
                                 "INCONCLUSIVE"}
      [] OTHER               -> {}
Terminal == {"CONFIRMED", "REJECTED", "DUPLICATE"}
Reopenable == {"REJECTED", "INCONCLUSIVE"}

At(r, pc) == rec[r].pc = pc
Goto(r, changed) == rec' = [rec EXCEPT ![r] = changed]

--------------------------------------------------------------------------------
(* RecordCandidateResult and RecordCandidateDetection. *)

\* StoreCandidateE inserts a DETECTED candidate or finds the one there is.  A
\* verdict of "verified" is always above the bar for being visible, a rejection below.
Store(r, c, verdict, visible) ==
    /\ At(r, "idle") /\ records < MaxRecords /\ records' = records + 1
    /\ cand' = IF cand[c].status # Absent THEN cand
               ELSE [cand EXCEPT ![c] = [status |-> "DETECTED", ver |-> 0]]
    /\ Goto(r, [Resting EXCEPT !.pc = "look", !.c = c, !.verdict = verdict,
                               !.visible = visible])
    /\ UNCHANGED <<trail, row, scorer, been, vouched, others>>

\* The recorder goes on with the state it believes the candidate to be in.
Onward(r, s) ==
    LET calm == [rec[r] EXCEPT !.from = Absent, !.ver = 0] IN
    IF rec[r].verdict = "detected" \/ s = "CONFIRMED"
    THEN [calm EXCEPT !.pc = "upsert", !.goal = "DETECTED", !.state = s]
    ELSE [calm EXCEPT !.pc = "read", !.goal = "VERIFYING"]
\* candidateState: a rejected or inconclusive candidate is opened again.
Look(r) ==
    /\ At(r, "look")
    /\ LET s == cand[rec[r].c].status IN
       Goto(r, IF s \in Reopenable
               THEN [rec[r] EXCEPT !.pc = "reopen", !.goal = "DETECTED"] ELSE Onward(r, s))
    /\ UNCHANGED <<cand, trail, row, scorer, been, vouched, records, others>>
ReopenRead(r) ==
    /\ At(r, "reopen")
    /\ LET now == cand[rec[r].c] IN
       Goto(r, IF now.status \in Reopenable
               THEN [rec[r] EXCEPT !.pc = "cas", !.from = now.status, !.ver = now.ver]
               ELSE [rec[r] EXCEPT !.pc = "look again"])
    /\ UNCHANGED <<cand, trail, row, scorer, been, vouched, records, others>>
\* The reopening failed; the state is read once more and taken as it is.
LookAgain(r) ==
    /\ At(r, "look again") /\ Goto(r, Onward(r, cand[rec[r].c].status))
    /\ UNCHANGED <<cand, trail, row, scorer, been, vouched, records, others>>

\* What follows a transition that returned the state s.
Returned(r, s) ==
    LET next == CASE rec[r].goal = "VERIFYING" /\ s # "CONFIRMED" ->
                        (CASE rec[r].verdict = "verified" -> "VERIFIED"
                           [] rec[r].verdict = "rejected" -> "REJECTED"
                           [] OTHER -> "INCONCLUSIVE")
                  [] rec[r].goal = "VERIFIED" /\ s = "VERIFIED" -> "CONFIRMED"
                  [] OTHER -> Absent
        calm == [rec[r] EXCEPT !.from = Absent, !.ver = 0] IN
    IF next = Absent THEN [calm EXCEPT !.pc = "upsert", !.goal = "DETECTED", !.state = s]
    ELSE [calm EXCEPT !.pc = "read", !.goal = next]

\* applyState reads the candidate: nothing to do, not allowed, or go on to swap.
Read(r) ==
    /\ At(r, "read")
    /\ LET now == cand[rec[r].c] IN
       Goto(r, IF now.status = rec[r].goal \/ now.status \in Terminal
                    \/ now.status \notin LegalFrom(rec[r].goal)
               THEN Returned(r, now.status)
               ELSE [rec[r] EXCEPT !.pc = "cas", !.from = now.status, !.ver = now.ver])
    /\ UNCHANGED <<cand, trail, row, scorer, been, vouched, records, others>>

\* A bug: the update names the candidate alone.
MatchesAny(r) == TRUE
\* The update names the status and the version that were read.
Matches(r) == cand[rec[r].c] = [status |-> rec[r].from, ver |-> rec[r].ver]
Swap(r) ==
    /\ At(r, "cas") /\ Matches(r)
    /\ cand' = [cand EXCEPT ![rec[r].c] = [status |-> rec[r].goal, ver |-> @.ver + 1]]
    /\ been' = [been EXCEPT ![rec[r].c] = @ \union {rec[r].goal}]
    /\ Goto(r, [rec[r] EXCEPT !.pc = "audit"])
    /\ UNCHANGED <<trail, row, scorer, vouched, records, others>>
\* Lost: the state returned is the one that was read, and may be out of date.
SwapLost(r) ==
    /\ At(r, "cas") /\ ~Matches(r)
    /\ Goto(r, IF rec[r].goal = "DETECTED" THEN [rec[r] EXCEPT !.pc = "look again"]
               ELSE Returned(r, rec[r].from))
    /\ UNCHANGED <<cand, trail, row, scorer, been, vouched, records, others>>

Audit(r) ==
    /\ At(r, "audit")
    /\ trail' = trail \union {[c |-> rec[r].c, from |-> rec[r].from, to |-> rec[r].goal,
                               ver |-> rec[r].ver + 1]}
    /\ Goto(r, IF rec[r].goal = "DETECTED" THEN Onward(r, "DETECTED")
               ELSE [rec[r] EXCEPT !.pc = "project"])
    /\ UNCHANGED <<cand, row, scorer, been, vouched, records, others>>

--------------------------------------------------------------------------------
(* The row of vuln_findings. *)

\* findingStatusForLifecycle; Absent: the status is left alone.
StatusFor(s) ==
    CASE s \in {"CONFIRMED", "VERIFIED"} -> "finding" [] s = "REJECTED" -> "rejected"
      [] s = "DUPLICATE" -> "duplicate"  [] s = "INCONCLUSIVE" -> "candidate"
      [] OTHER -> Absent
\* A bug: any outcome takes the row over.
AdoptsAlways(s) == TRUE
\* A row without a candidate is taken over on a positive outcome or on the way to
\* one, never by a negative one.
Adopts(s) == s \notin {"REJECTED", "INCONCLUSIVE", "DUPLICATE"}
\* projectFinding.
Projected(c, s) ==
    IF row.status # Absent /\ (row.link = c \/ (row.link = NoCand /\ Adopts(s)))
    THEN [status |-> IF StatusFor(s) = Absent THEN row.status ELSE StatusFor(s),
          lifecycle |-> s, link |-> c]
    ELSE row
Project(r) ==
    /\ At(r, "project") /\ row' = Projected(rec[r].c, rec[r].goal)
    /\ Goto(r, Returned(r, rec[r].goal))
    /\ UNCHANGED <<cand, trail, scorer, been, vouched, records, others>>

\* upsertFindingProjection: a finding takes the row, a rejection marks the row of
\* its own candidate, anything else shows as a candidate unless there is a finding.
Upserted(c, s, visible) ==
    CASE StatusFor(s) = "finding" -> [status |-> "finding", lifecycle |-> s, link |-> c]
      [] s = "REJECTED" /\ row.link = c -> [row EXCEPT !.status = "rejected", !.lifecycle = s]
      [] s \notin {"CONFIRMED", "VERIFIED", "REJECTED", "DUPLICATE"} /\ visible
            /\ row.status # "finding" -> [status |-> "candidate", lifecycle |-> s, link |-> c]
      [] OTHER -> row
Upsert(r) ==
    /\ At(r, "upsert") /\ Goto(r, Resting)
    /\ row' = Upserted(rec[r].c, rec[r].state, rec[r].visible)
    /\ UNCHANGED <<cand, trail, scorer, been, vouched, records, others>>

\* The scan is stopped or the database is busy: the rest is not done.
Abandon(r) ==
    /\ rec[r].pc # "idle" /\ others < MaxOthers /\ others' = others + 1 /\ Goto(r, Resting)
    /\ UNCHANGED <<cand, trail, row, scorer, been, vouched, records>>

\* VerifyScanner.Run reads the rows, replays some, and writes their status.
ScoreRead ==
    /\ ~scorer.on /\ row.status # Absent /\ others < MaxOthers /\ others' = others + 1
    /\ scorer' = [on |-> TRUE, seen |-> row]
    /\ UNCHANGED <<cand, trail, row, rec, been, vouched, records>>
\* A bug: the score of its type alone decides about a row.
PendingNever(seen) == FALSE
Pending(seen) == seen.link # NoCand /\ seen.lifecycle \notin {"CONFIRMED", "VERIFIED"}
Scored(seen, high) ==
    IF seen.link # NoCand /\ seen.lifecycle \in {"REJECTED", "DUPLICATE"} THEN "rejected"
    ELSE IF high /\ ~Pending(seen) THEN "finding" ELSE "candidate"
\* The confidence, kept or measured by a replay, is high or low.
ScoreWrite ==
    /\ scorer.on /\ scorer' = NotScoring
    /\ \E high \in BOOLEAN : row' = [row EXCEPT !.status = Scored(scorer.seen, high)]
    /\ vouched' = (vouched \/ row # scorer.seen)
    /\ UNCHANGED <<cand, trail, rec, been, records, others>>

\* handleSetFindingTriage: the operator confirms what the row shows.
Triage ==
    /\ row.status # Absent /\ others < MaxOthers /\ others' = others + 1
    /\ row' = [row EXCEPT !.status = "finding"] /\ vouched' = TRUE
    /\ UNCHANGED <<cand, trail, rec, scorer, been, records>>

RecorderStep(r) ==
    \/ Look(r) \/ ReopenRead(r) \/ LookAgain(r) \/ Read(r) \/ Swap(r) \/ SwapLost(r)
    \/ Audit(r) \/ Project(r) \/ Upsert(r)
LifeNext ==
    \/ \E r \in Recorders :
          \/ \E c \in Candidates, v \in Verdicts, visible \in BOOLEAN :
                /\ v = "verified" => visible
                /\ v = "rejected" => ~visible
                /\ Store(r, c, v, visible)
          \/ RecorderStep(r) \/ Abandon(r)
    \/ ScoreRead \/ ScoreWrite \/ Triage
LifeSpec == LifeInit /\ [][LifeNext]_lifeVars

--------------------------------------------------------------------------------
FindingRows == [status : {Absent, "finding", "candidate", "rejected", "duplicate"},
                lifecycle : States \union {"LEGACY"}, link : Candidates \union {NoCand}]
Works == [pc : {"idle", "look", "look again", "reopen", "read", "cas", "audit", "project", "upsert"},
          c : Candidates \union {NoCand}, verdict : Verdicts, visible : BOOLEAN,
          goal : States, from : States \union {Absent}, ver : Nat, state : States \union {Absent}]
\* Types of the variables of the life of a finding.
LifeTypeOK ==
    /\ cand \in [Candidates -> [status : States \union {Absent}, ver : Nat]]
    /\ trail \subseteq [c : Candidates, from : States, to : States, ver : Nat]
    /\ row \in FindingRows
    /\ rec \in [Recorders -> Works]
    /\ scorer \in [on : BOOLEAN, seen : FindingRows]
    /\ been \in [Candidates -> SUBSET States]
    /\ vouched \in BOOLEAN /\ records \in Nat /\ others \in Nat

\* Proven evidence stays: no verifier, however late or stale, and no detector that
\* sees the candidate again takes a confirmed candidate back (applyState's terminal
\* guard and its swap on the version that was read, reopenCandidate's condition).
ConfirmedIsSticky ==
    [][\A c \in Candidates : cand[c].status = "CONFIRMED" => cand'[c].status = "CONFIRMED"]_lifeVars

\* The audit trail tells one story per candidate: a version has one entry, and the
\* entries of successive versions, up to the state it is in, join.  Entries may be
\* missing when a recorder was cut off, never contradict (applyState's swap).
TrailIsOneStory ==
    \A e \in trail :
        /\ \A f \in trail : f.c = e.c =>
              (f.ver = e.ver => f = e) /\ (f.ver = e.ver + 1 => f.from = e.to)
        /\ e.ver <= cand[e.c].ver
        /\ e.ver = cand[e.c].ver => e.to = cand[e.c].status

\* A row that shows a candidate as a finding shows one that a verifier proved, unless
\* it is vouched for otherwise (see `vouched`): no
\* detection, inconclusive result or score alone makes a finding (Run of the scorer,
\* findingStatusForLifecycle, upsertFindingProjection).
FindingsAreProven ==
    row.status = "finding" /\ ~vouched /\ row.link # NoCand =>
        been[row.link] \cap {"VERIFIED", "CONFIRMED"} # {}

\* A row struck out by a recorder or the operator stands for a candidate that was rejected.
OwnRejectionOnly ==
    row.status = "finding" /\ row'.status = "rejected" /\ UNCHANGED scorer =>
        row.link # NoCand /\ "REJECTED" \in been[row.link]
\* A finding is struck out only for its own candidate, and only if that was rejected:
\* a rejection never reaches a finding that another candidate at the same place, or
\* none, stands for (projectFinding's adoption, upsertFindingProjection).  The scoring
\* pass, which writes what it concluded from the row it read before, is left out.
RejectionSparesOthers == [][OwnRejectionOnly]_lifeVars

\* When nothing is under way, a rejected candidate is not shown as a finding.
Quiet == ~scorer.on /\ \A r \in Recorders : rec[r].pc = "idle"
RejectedIsNotShown ==
    Quiet /\ ~vouched /\ row.status = "finding" /\ row.link # NoCand =>
        cand[row.link].status # "REJECTED"
================================================================================
