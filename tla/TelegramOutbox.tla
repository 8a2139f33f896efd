---------------------------- MODULE TelegramOutbox ----------------------------
(***************************************************************************)
(* How a scan's notices and findings reach the chats of the Telegram bot:  *)
(* NotifyScanStarted, NotifyPhaseFinished, NotifyScanFinished, enqueue,    *)
(* drainOutbox, the chat operations and RetryFailed of                     *)
(* internal/api/telegram_bot.go.                                           *)
(*                                                                         *)
(* A notice becomes one row of telegram_outbox per chat that wants it.  A  *)
(* loop takes a handful of due rows, sends them one after the other and    *)
(* records each outcome; a row that fails waits and is tried again, up to  *)
(* a limit.  Findings are not announced one by one: the end of every phase *)
(* sweeps those stored since the scan started, and the unique key of the   *)
(* row makes the sweep repeatable.  When the scan started is only kept in  *)
(* memory.                                                                 *)
(***************************************************************************)
EXTENDS Naturals, FiniteSets

CONSTANTS
    Chats,        \* entries of telegram_chats
    Findings,     \* findings the scan may store
    Wanted,       \* notices of a scan the chats subscribe to; findings they all do
    BatchLimit,   \* LIMIT of the drain query (20 in the code)
    MaxAttempts,  \* attempts after which a row has failed (8 in the code)
    MaxMishaps    \* bound: restarts, database errors, operator's requests, together

ASSUME OutboxAssumption ==
    /\ Wanted \subseteq {"start", "phase", "finish"}
    /\ BatchLimit \in Nat \ {0} /\ MaxAttempts \in Nat \ {0}
    /\ MaxMishaps \in Nat

VARIABLES
    botOn,     \* the bot has a token and is enabled
    chat,      \* "on", "off" or "gone" (deleted), per chat
    outbox,    \* status of the row of a notice for a chat: "none" (no row), "pending",
               \* "sent", "failed", "gone" (deleted with its chat)
    attempts,  \* telegram_outbox.attempts
    batch,     \* rows of the current drain still to be sent
    sending,   \* the row the drain works on, and what the request said
    shown,     \* notices a chat has seen
    learned,   \* how often a notice was shown and its row knows, or is about to
    scan,      \* "idle", "running" or "done"
    since,     \* findings stored since the entry of b.scans, which memory holds
    stored,    \* findings in the database
    restarted, \* the process ended and began again
    mishaps    \* used up of the bound

outVars == <<botOn, chat, outbox, attempts, batch, sending, shown, learned,
             scan, since, stored, restarted, mishaps>>
senderVars == <<batch, sending, shown, learned>>
scanVars == <<scan, since, stored>>
history == <<restarted, mishaps>>

\* The ends of phases share one notice, as they share everything but the key.
Events == Findings \cup Wanted
Notices == Chats \X Events
NoRow == <<"no", "row">>

OutboxTypeOK ==
    /\ botOn \in BOOLEAN
    /\ chat \in [Chats -> {"on", "off", "gone"}]
    /\ outbox \in [Notices -> {"none", "pending", "sent", "failed", "gone"}]
    /\ attempts \in [Notices -> Nat]
    /\ batch \subseteq Notices
    /\ sending \in [row : Notices \cup {NoRow}, said : {"nothing", "ok", "error"}]
    /\ shown \subseteq Notices
    /\ learned \in [Notices -> Nat]
    /\ scan \in {"idle", "running", "done"}
    /\ since \subseteq Findings /\ stored \subseteq Findings
    /\ restarted \in BOOLEAN /\ mishaps \in Nat

NotSending == [row |-> NoRow, said |-> "nothing"]

-----------------------------------------------------------------------------
\* enqueue: INSERT OR IGNORE for every enabled chat, while the bot is on.
Enqueue(events) ==
    LET new == {n \in Notices : /\ n[2] \in events /\ botOn
                                /\ chat[n[1]] = "on" /\ outbox[n] = "none"}
    IN  outbox' = [n \in Notices |-> IF n \in new THEN "pending" ELSE outbox[n]]

ScanStarts ==
    /\ scan = "idle"
    /\ scan' = "running"
    /\ since' = {}
    /\ Enqueue({"start"})
    /\ UNCHANGED <<botOn, chat, attempts, senderVars, stored, history>>

\* A detector stores a finding that nothing announces on its own.
StoreFinding(f) ==
    /\ scan = "running" /\ f \notin stored
    /\ stored' = stored \cup {f}
    /\ since' = since \cup {f}
    /\ UNCHANGED <<botOn, chat, outbox, attempts, senderVars, scan, history>>

\* findingSweepStart and enqueueValidFindingsSince
Swept == since

\* A bug: a sweep looks back to the end of the previous phase only.
PhaseFinishedForgetting ==
    /\ scan = "running"
    /\ Enqueue(Swept \cup {"phase"})
    /\ since' = {}
    /\ UNCHANGED <<botOn, chat, attempts, senderVars, scan, stored, history>>

PhaseFinished ==
    /\ scan = "running"
    /\ Enqueue(Swept \cup {"phase"})
    /\ UNCHANGED <<botOn, chat, attempts, senderVars, scanVars, history>>

ScanFinished ==
    /\ scan = "running"
    /\ scan' = "done"
    /\ Enqueue(Swept \cup {"finish"})
    /\ UNCHANGED <<botOn, chat, attempts, senderVars, since, stored, history>>

-----------------------------------------------------------------------------
Due == {n \in Notices : outbox[n] = "pending" /\ chat[n[1]] = "on"}

\* The drain reads some rows whose pause is over: pauses are not counted, and which
\* rows come first is left open.
DrainStart ==
    /\ botOn /\ batch = {} /\ sending = NotSending
    /\ \E S \in SUBSET Due \ {{}} :
        /\ Cardinality(S) <= BatchLimit
        /\ batch' = S
    /\ UNCHANGED <<botOn, chat, outbox, attempts, sending, shown, learned, scanVars, history>>

DrainNext(n) ==
    /\ sending = NotSending /\ n \in batch
    /\ batch' = batch \ {n}
    /\ sending' = [row |-> n, said |-> "nothing"]
    /\ UNCHANGED <<botOn, chat, outbox, attempts, shown, learned, scanVars, history>>

\* sendMessage: the chat sees the notice and the answer arrives, or the answer is
\* lost or too late, or the request never gets there.
Send ==
    /\ sending.row # NoRow /\ sending.said = "nothing"
    /\ \/ /\ sending' = [sending EXCEPT !.said = "ok"]
          /\ shown' = shown \cup {sending.row}
          /\ learned' = [learned EXCEPT ![sending.row] = @ + 1]
       \/ /\ sending' = [sending EXCEPT !.said = "error"]
          /\ shown' \in {shown, shown \cup {sending.row}}
          /\ UNCHANGED learned
    /\ UNCHANGED <<botOn, chat, outbox, attempts, batch, scanVars, history>>

\* What the row does not learn when the outcome of a delivery is lost.
Unlearned == IF sending.said = "ok" THEN [learned EXCEPT ![sending.row] = @ - 1] ELSE learned

\* A bug: the row is marked before the answer is looked at.
RecordSentAnyway ==
    /\ sending.row # NoRow /\ sending.said # "nothing"
    /\ outbox' = [outbox EXCEPT ![sending.row] = IF @ = "gone" THEN @ ELSE "sent"]
    /\ sending' = NotSending
    /\ UNCHANGED <<botOn, chat, attempts, batch, shown, learned, scanVars, history>>

\* The UPDATE after a delivery, which finds no row if the chat was deleted.
RecordSent ==
    /\ sending.row # NoRow /\ sending.said = "ok"
    /\ outbox' = [outbox EXCEPT ![sending.row] = IF @ = "gone" THEN @ ELSE "sent"]
    /\ sending' = NotSending
    /\ UNCHANGED <<botOn, chat, attempts, batch, shown, learned, scanVars, history>>

\* A bug: a failure leaves the count of attempts alone.
RecordErrorUncounted ==
    /\ sending.row # NoRow /\ sending.said = "error"
    /\ sending' = NotSending
    /\ UNCHANGED <<botOn, chat, outbox, attempts, batch, shown, learned, scanVars, history>>

\* The UPDATE after a failure: one attempt more, or the end of them.
RecordError ==
    LET n == sending.row
    IN  /\ n # NoRow /\ sending.said = "error"
        /\ IF outbox[n] = "gone" THEN UNCHANGED <<outbox, attempts>>
           ELSE /\ attempts' = [attempts EXCEPT ![n] = @ + 1]
                /\ outbox' = [outbox EXCEPT ![n] = IF attempts[n] + 1 >= MaxAttempts
                                                   THEN "failed" ELSE "pending"]
        /\ sending' = NotSending
        /\ UNCHANGED <<botOn, chat, batch, shown, learned, scanVars, history>>

\* The UPDATE of either kind fails and its error is dropped.
RecordNothing ==
    /\ sending.said # "nothing" /\ mishaps < MaxMishaps
    /\ mishaps' = mishaps + 1
    /\ learned' = Unlearned
    /\ sending' = NotSending
    /\ UNCHANGED <<botOn, chat, outbox, attempts, batch, shown, scanVars,
                   restarted>>

-----------------------------------------------------------------------------
RetryFailed ==
    /\ mishaps < MaxMishaps /\ \E n \in Notices : outbox[n] = "failed"
    /\ mishaps' = mishaps + 1
    /\ outbox' = [n \in Notices |-> IF outbox[n] = "failed" THEN "pending" ELSE outbox[n]]
    /\ attempts' = [n \in Notices |-> IF outbox[n] = "failed" THEN 0 ELSE attempts[n]]
    /\ UNCHANGED <<botOn, chat, senderVars, scanVars, restarted>>

\* UpdateChat: the switch of a chat.
ToggleChat(c) ==
    /\ mishaps < MaxMishaps /\ chat[c] # "gone"
    /\ mishaps' = mishaps + 1
    /\ chat' = [chat EXCEPT ![c] = IF @ = "on" THEN "off" ELSE "on"]
    /\ UNCHANGED <<botOn, outbox, attempts, senderVars, scanVars, restarted>>

\* DeleteChat: the rows of the chat go with it.
DeleteChat(c) ==
    /\ mishaps < MaxMishaps /\ chat[c] # "gone"
    /\ mishaps' = mishaps + 1
    /\ chat' = [chat EXCEPT ![c] = "gone"]
    /\ outbox' = [n \in Notices |-> IF n[1] = c /\ outbox[n] # "none" THEN "gone" ELSE outbox[n]]
    /\ UNCHANGED <<botOn, attempts, senderVars, scanVars, restarted>>

\* Configure: the bot is switched on or off.
ToggleBot ==
    /\ mishaps < MaxMishaps
    /\ mishaps' = mishaps + 1
    /\ botOn' = ~botOn
    /\ UNCHANGED <<chat, outbox, attempts, senderVars, scanVars, restarted>>

\* The process ends, by Stop or by a crash, and starts again; so does the scan.
OutboxRestart ==
    /\ mishaps < MaxMishaps
    /\ mishaps' = mishaps + 1 /\ restarted' = TRUE
    /\ batch' = {} /\ sending' = NotSending
    /\ learned' = Unlearned
    /\ scan' = IF scan = "running" THEN "idle" ELSE scan
    /\ since' = {}
    /\ UNCHANGED <<botOn, chat, outbox, attempts, shown, stored>>

-----------------------------------------------------------------------------
OutboxInit ==
    /\ botOn = TRUE
    /\ chat = [c \in Chats |-> "on"]
    /\ outbox = [n \in Notices |-> "none"]
    /\ attempts = [n \in Notices |-> 0]
    /\ batch = {} /\ sending = NotSending
    /\ shown = {}
    /\ learned = [n \in Notices |-> 0]
    /\ scan = "idle" /\ since = {} /\ stored = {}
    /\ restarted = FALSE /\ mishaps = 0

DrainStep == DrainStart \/ (\E n \in Notices : DrainNext(n)) \/ Send \/ RecordSent \/ RecordError

OutboxNext ==
    \/ ScanStarts \/ (\E f \in Findings : StoreFinding(f)) \/ PhaseFinished \/ ScanFinished
    \/ DrainStart \/ (\E n \in Notices : DrainNext(n)) \/ Send
    \/ RecordSent \/ RecordError \/ RecordNothing
    \/ RetryFailed \/ ToggleBot \/ (\E c \in Chats : ToggleChat(c) \/ DeleteChat(c))
    \/ OutboxRestart

OutboxSpec == OutboxInit /\ [][OutboxNext]_outVars

-----------------------------------------------------------------------------
\* A chat sees a notice twice only if the row could not learn that it was shown:
\* the answer was late, the database refused, or the process ended in between.
RepeatsAreExplained == \A n \in Notices : learned[n] <= 1

\* The sweeps are lossless: when a scan ends in the process it began in, every
\* finding it stored has a row for every chat that is listening then.
NoFindingSlips ==
    [][ScanFinished /\ ~restarted /\ botOn =>
         \A f \in stored : \A c \in Chats : chat[c] = "on" => outbox'[<<c, f>>] # "none"]_outVars

\* A notice that waits is sent or given up, unless nobody may send it: the bot or
\* its chat stays off.
OwedIsSettled ==
    \A n \in Notices : outbox[n] = "pending" ~>
        (outbox[n] # "pending" \/ [](~botOn \/ chat[n[1]] # "on"))

\* The outbox keeps the promise of NotificationLedger.
Ledger == INSTANCE NotificationLedger WITH
    owed <- {n \in Notices : outbox[n] = "pending"},
    settled <- {n \in Notices : outbox[n] = "sent"},
    dropped <- {n \in Notices : outbox[n] \in {"failed", "gone"}},
    told <- shown
KeepsLedger == Ledger!LedgerSpec
=============================================================================
