-------------------------- MODULE NotificationLedger --------------------------
(***************************************************************************)
(* What the outbox of the Telegram bot promises, without the way it keeps  *)
(* the promise: a notice that is owed to a chat stays owed until it was    *)
(* told at least once, or is given up; what was never owed is never told.  *)
(* TelegramOutbox implements it.                                           *)
(***************************************************************************)
CONSTANTS Notices   \* one notice for one chat

VARIABLES
    owed,     \* notices to be told
    settled,  \* notices nobody will tell again
    dropped,  \* notices given up: too many failures, or their chat was removed
    told      \* notices the chat has seen

ledgerVars == <<owed, settled, dropped, told>>

LedgerInit ==
    owed = {} /\ settled = {} /\ dropped = {} /\ told = {}

\* New notices become owed; what was owed, settled or dropped before is not new.
Owe(S) ==
    /\ owed' = owed \cup (S \ (settled \cup dropped))
    /\ UNCHANGED <<settled, dropped, told>>

\* A chat sees a notice, perhaps again, perhaps just after it was dropped.
Tell(n) ==
    /\ n \in owed \cup dropped
    /\ told' = told \cup {n}
    /\ UNCHANGED <<owed, settled, dropped>>

\* A notice is done with only after it was told.
Settle(n) ==
    /\ n \in owed /\ n \in told
    /\ owed' = owed \ {n}
    /\ settled' = settled \cup {n}
    /\ UNCHANGED <<dropped, told>>

Drop(S) ==
    /\ owed' = owed \ S
    /\ settled' = settled \ S
    /\ dropped' = dropped \cup (S \cap (owed \cup settled))
    /\ UNCHANGED told

\* The operator asks for dropped notices again.
Renew(S) ==
    /\ S \subseteq dropped
    /\ dropped' = dropped \ S
    /\ owed' = owed \cup S
    /\ UNCHANGED <<settled, told>>

LedgerNext ==
    \/ \E S \in SUBSET Notices : Owe(S) \/ Drop(S) \/ Renew(S)
    \/ \E n \in Notices : Tell(n) \/ Settle(n)

LedgerSpec == LedgerInit /\ [][LedgerNext]_ledgerVars
=============================================================================
