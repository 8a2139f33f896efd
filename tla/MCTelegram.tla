------------------------------ MODULE MCTelegram ------------------------------
(* Instances of TelegramUpdates and TelegramOutbox for TLC.  The two loops of *)
(* the bot share no state but its settings, which each module changes at will, *)
(* so a behaviour runs one of them: the one `part` names. *)
EXTENDS TelegramUpdates, TelegramOutbox
CONSTANTS tOld, tNew
VARIABLE part

\* The first bot has come further with its update ids than the second.
OldIdsAbove == [b \in Bots |-> IF b = tOld THEN {2, 3} ELSE {1}]

\* A bot is replaced, by the other or by itself, disconnected, or switched.
SomeRequests == {<<tNew, Keep>>, <<tOld, TRUE>>, <<NoToken, Keep>>, <<Keep, FALSE>>}

MCInit == part \in {"updates", "outbox"} /\ UpdatesInit /\ OutboxInit
InUpdates(A) == part = "updates" /\ A /\ UNCHANGED <<part, outVars>>
InOutbox(A) == part = "outbox" /\ A /\ UNCHANGED <<part, updVars>>
MCNext == InUpdates(UpdatesNext) \/ InOutbox(OutboxNext)
MCVars == <<part, updVars, outVars>>

\* Both loops and a settings request go on; a call to the server succeeds now and
\* then.
MCFairness ==
    /\ WF_MCVars(InUpdates(PollStep)) /\ SF_MCVars(InUpdates(PollAnswer))
    /\ \A a \in Admins : WF_MCVars(InUpdates(ConfigureStep(a)))
    /\ WF_MCVars(InOutbox(DrainStep))
MCSpec == MCInit /\ [][MCNext]_MCVars /\ MCFairness
=============================================================================
