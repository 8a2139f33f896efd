--------------------------- MODULE TelegramUpdates ---------------------------
(***************************************************************************)
(* How a command sent to the Telegram bot is taken from the server and     *)
(* executed: pollLoop, Configure and Start of internal/api/telegram_bot.go.*)
(*                                                                         *)
(* One goroutine long-polls the server with an offset.  It claims every    *)
(* update in the row of telegram_config before it executes it, so that a   *)
(* crash loses a command rather than repeating it.  Meanwhile an operator  *)
(* may give the bot another token, or switch it off: Configure bumps a     *)
(* generation counter that invalidates a poll in flight, asks the server   *)
(* about the token, stores it with a cursor of zero, and copies the cursor *)
(* into the offset.                                                        *)
(***************************************************************************)
EXTENDS Naturals, FiniteSets, FiniteSetsExt

CONSTANTS
    Bots,           \* bot tokens
    NoToken,        \* the empty token
    Keep,           \* a field the settings request leaves out
    FirstBot,       \* the token stored when the behaviour starts
    UpdatesOf,      \* update ids the users of a bot send, per bot
    Admins,         \* concurrent settings requests
    Requests,       \* what a settings request may ask for: a token or none, a switch or none
    MaxConfigures,  \* bound: settings requests
    MaxCrashes      \* bound: crashes of the process

ASSUME UpdatesAssumption ==
    /\ NoToken \notin Bots /\ Keep \notin Bots \cup BOOLEAN /\ Keep # NoToken
    /\ FirstBot \in Bots
    /\ UpdatesOf \in [Bots -> SUBSET (Nat \ {0})]
    /\ Requests \subseteq (Bots \cup {NoToken, Keep}) \X (BOOLEAN \cup {Keep})
    /\ MaxConfigures \in Nat /\ MaxCrashes \in Nat

VARIABLES
    config,     \* the row of telegram_config: token, enabled, last_update_id
    offset,     \* b.offset
    generation, \* b.config
    poll,       \* pollLoop: where it is, token and generation it works with, updates left
    admin,      \* Configure, per request
    arrived,    \* updates the server holds, per bot
    confirmed,  \* offset below which the server has forgotten its updates
    executed,   \* how often an update was executed, per bot
    resets,     \* how often another token was stored
    claimant,   \* bot whose update the stored cursor names
    crashes,    \* crashes so far
    struck      \* history: commands claimed and not yet executed when a crash came

updVars == <<config, offset, generation, poll, admin, arrived, confirmed,
             executed, resets, claimant, crashes, struck>>

Ids == UNION {UpdatesOf[b] : b \in Bots}
Tokens == Bots \cup {NoToken}

PollIdle == [at |-> "top", token |-> NoToken, gen |-> 0, batch |-> {}, claimed |-> FALSE]
AdminIdle == [at |-> "idle", token |-> Keep, enabled |-> Keep, changed |-> FALSE, last |-> 0]

\* The shape of every variable; the invariants of the proofs rest on it.
UpdatesTypeOK ==
    /\ config \in [token : Tokens, enabled : BOOLEAN, last : Ids \cup {0}]
    /\ offset \in Nat
    /\ generation \in Nat
    /\ poll \in [at : {"top", "ask", "wait", "batch", "claim", "execute"},
                 token : Tokens, gen : Nat, batch : SUBSET Ids, claimed : BOOLEAN]
    /\ admin \in [Admins -> [at : {"idle", "begun", "checked", "stored", "reread"},
                             token : Tokens \cup {Keep}, enabled : BOOLEAN \cup {Keep},
                             changed : BOOLEAN, last : Nat]]
    /\ arrived \in [Bots -> SUBSET Ids]
    /\ confirmed \in [Bots -> Nat]
    /\ executed \in [Bots -> [Ids -> Nat]]
    /\ resets \in Nat
    /\ claimant \in Tokens
    /\ crashes \in Nat
    /\ struck \subseteq Bots \X Ids

-----------------------------------------------------------------------------
\* The first update of the batch: the server lists them by id.
Head1 == Min(poll.batch)

OffsetAfter(last) == IF last > 0 THEN last + 1 ELSE 0

\* A user sends the bot its next command.
Arrive(b) ==
    \E u \in UpdatesOf[b] \ arrived[b] :
        /\ \A v \in UpdatesOf[b] : v < u => v \in arrived[b]
        /\ arrived' = [arrived EXCEPT ![b] = @ \cup {u}]
        /\ UNCHANGED <<config, offset, generation, poll, admin, confirmed,
                       executed, resets, claimant, crashes, struck>>

\* The loop reads the stored token; without one it waits and tries again.
PollRead ==
    /\ poll.at = "top"
    /\ config.enabled /\ config.token # NoToken
    /\ poll' = [poll EXCEPT !.at = "ask", !.token = config.token]
    /\ UNCHANGED <<config, offset, generation, admin, arrived, confirmed,
                   executed, resets, claimant, crashes, struck>>

\* getUpdates with the current offset, which makes the server forget what is below it.
PollAsk ==
    /\ poll.at = "ask"
    /\ poll' = [poll EXCEPT !.at = "wait", !.gen = generation]
    /\ confirmed' = [confirmed EXCEPT ![poll.token] = Max({@, offset})]
    /\ UNCHANGED <<config, offset, generation, admin, arrived,
                   executed, resets, claimant, crashes, struck>>

\* The answer arrives: every update the server still holds.  The settings are read
\* again, and an answer for another bot, or for a bot that was switched off or is
\* being configured, is dropped.
PollAnswer ==
    /\ poll.at = "wait"
    /\ poll' = IF config.enabled /\ config.token = poll.token /\ generation = poll.gen
               THEN [poll EXCEPT !.at = "batch",
                                 !.batch = {u \in arrived[poll.token] : u >= confirmed[poll.token]}]
               ELSE PollIdle
    /\ UNCHANGED <<config, offset, generation, admin, arrived, confirmed,
                   executed, resets, claimant, crashes, struck>>

\* The call fails or times out: the loop waits and starts over.
PollError ==
    /\ poll.at = "wait"
    /\ poll' = PollIdle
    /\ UNCHANGED <<config, offset, generation, admin, arrived, confirmed,
                   executed, resets, claimant, crashes, struck>>

\* update.UpdateID < b.offset.Load()
BelowOffset(u) == u < offset

\* The next update of the batch, or the end of it.
PollNext ==
    /\ poll.at = "batch"
    /\ poll' = IF poll.batch = {} \/ generation # poll.gen THEN PollIdle
               ELSE IF BelowOffset(Head1) THEN [poll EXCEPT !.batch = @ \ {Head1}]
               ELSE [poll EXCEPT !.at = "claim"]
    /\ UNCHANGED <<config, offset, generation, admin, arrived, confirmed,
                   executed, resets, claimant, crashes, struck>>

\* A bug: the row is written whatever cursor it holds.
PollClaimAlways ==
    /\ poll.at = "claim"
    /\ poll' = [poll EXCEPT !.at = "execute", !.claimed = TRUE]
    /\ config' = [config EXCEPT !.last = Head1]
    /\ claimant' = poll.token
    /\ UNCHANGED <<offset, generation, admin, arrived, confirmed, executed, resets, crashes, struck>>

\* A bug: the whole batch is claimed at once.
PollClaimBatch ==
    /\ poll.at = "claim"
    /\ LET won == config.last < Head1 IN
        /\ poll' = [poll EXCEPT !.at = "execute", !.claimed = won]
        /\ config' = [config EXCEPT !.last = IF won THEN Max(poll.batch) ELSE @]
        /\ claimant' = IF won THEN poll.token ELSE claimant
    /\ UNCHANGED <<offset, generation, admin, arrived, confirmed, executed, resets, crashes, struck>>

\* UPDATE telegram_config SET last_update_id = u WHERE last_update_id < u
PollClaim ==
    /\ poll.at = "claim"
    /\ LET won == config.last < Head1 IN
        /\ poll' = [poll EXCEPT !.at = "execute", !.claimed = won]
        /\ config' = [config EXCEPT !.last = IF won THEN Head1 ELSE @]
        /\ claimant' = IF won THEN poll.token ELSE claimant
    /\ UNCHANGED <<offset, generation, admin, arrived, confirmed, executed, resets, crashes, struck>>

\* The offset follows the claim, and handleUpdate executes what was claimed; an
\* update that could not be claimed is passed over.
PollExecute ==
    /\ poll.at = "execute"
    /\ offset' = Head1 + 1
    /\ executed' = IF poll.claimed THEN [executed EXCEPT ![poll.token][Head1] = @ + 1] ELSE executed
    /\ poll' = [poll EXCEPT !.at = "batch", !.batch = @ \ {Head1}, !.claimed = FALSE]
    /\ UNCHANGED <<config, generation, admin, arrived, confirmed, resets, claimant, crashes, struck>>

-----------------------------------------------------------------------------
\* A settings request enters Configure: polls in flight become stale.
ConfigureBegin(a, token, enabled) ==
    /\ admin[a].at = "idle" /\ generation < MaxConfigures
    /\ generation' = generation + 1
    /\ admin' = [admin EXCEPT ![a] = [AdminIdle EXCEPT !.at = "begun", !.token = token,
                                                       !.enabled = enabled]]
    /\ UNCHANGED <<config, offset, poll, arrived, confirmed, executed,
                   resets, claimant, crashes, struck>>

\* It reads the stored settings, asks the server about a new token and works out
\* what to store.  The server may refuse; a bot without a token cannot be enabled.
ConfigureCheck(a) ==
    LET next == IF admin[a].token = Keep THEN config.token ELSE admin[a].token
        kept == IF admin[a].token = NoToken THEN FALSE ELSE config.enabled
        on == IF admin[a].enabled = Keep THEN kept ELSE admin[a].enabled
    IN  /\ admin[a].at = "begun"
        /\ \/ /\ ~(on /\ next = NoToken)
              /\ admin' = [admin EXCEPT ![a].at = "checked", ![a].token = next, ![a].enabled = on,
                                        ![a].changed = next # config.token]
           \/ /\ admin[a].token \in Bots \/ (on /\ next = NoToken)
              /\ admin' = [admin EXCEPT ![a] = AdminIdle]
        /\ UNCHANGED <<config, offset, generation, poll, arrived, confirmed, executed,
                       resets, claimant, crashes, struck>>

\* The settings are stored; another token starts from a cursor of zero.
ConfigureStore(a) ==
    /\ admin[a].at = "checked"
    /\ config' = [token |-> admin[a].token, enabled |-> admin[a].enabled,
                  last |-> IF admin[a].changed THEN 0 ELSE config.last]
    /\ resets' = IF admin[a].changed THEN resets + 1 ELSE resets
    /\ claimant' = IF admin[a].changed THEN admin[a].token ELSE claimant
    /\ admin' = [admin EXCEPT ![a].at = "stored"]
    /\ UNCHANGED <<offset, generation, poll, arrived, confirmed, executed, crashes, struck>>

\* The cursor is read back ...
ConfigureReread(a) ==
    /\ admin[a].at = "stored"
    /\ admin' = [admin EXCEPT ![a].at = "reread", ![a].last = config.last]
    /\ UNCHANGED <<config, offset, generation, poll, arrived, confirmed, executed,
                   resets, claimant, crashes, struck>>

\* ... and becomes the offset.
ConfigureOffset(a) ==
    /\ admin[a].at = "reread"
    /\ offset' = OffsetAfter(admin[a].last)
    /\ admin' = [admin EXCEPT ![a] = AdminIdle]
    /\ UNCHANGED <<config, generation, poll, arrived, confirmed, executed,
                   resets, claimant, crashes, struck>>

\* The process dies and starts again, with an offset and an idle loop.
StartFrom(cursor) ==
    /\ crashes < MaxCrashes
    /\ crashes' = crashes + 1
    /\ struck' = IF poll.claimed THEN struck \cup {<<poll.token, Head1>>} ELSE struck
    /\ offset' = cursor
    /\ poll' = PollIdle
    /\ admin' = [a \in Admins |-> AdminIdle]
    /\ UNCHANGED <<config, generation, arrived, confirmed, executed, resets, claimant>>
\* A bug: what came in while the process was down counts as old.
RestartPastBacklog ==
    StartFrom(IF config.token \in Bots /\ arrived[config.token] # {}
              THEN Max(arrived[config.token]) + 1 ELSE 0)
\* It starts from its row.  The generation, whose absolute value means nothing, is kept.
Restart == StartFrom(OffsetAfter(config.last))

-----------------------------------------------------------------------------
UpdatesInit ==
    /\ config = [token |-> FirstBot, enabled |-> TRUE, last |-> 0]
    /\ offset = 0 /\ generation = 0
    /\ poll = PollIdle
    /\ admin = [a \in Admins |-> AdminIdle]
    /\ arrived = [b \in Bots |-> {}]
    /\ confirmed = [b \in Bots |-> 0]
    /\ executed = [b \in Bots |-> [u \in Ids |-> 0]]
    /\ resets = 0
    /\ claimant = FirstBot
    /\ crashes = 0 /\ struck = {}

PollStep ==
    \/ PollRead \/ PollAsk \/ PollAnswer
    \/ PollNext \/ PollClaim \/ PollExecute

ConfigureStep(a) ==
    \/ ConfigureCheck(a) \/ ConfigureStore(a) \/ ConfigureReread(a) \/ ConfigureOffset(a)

UpdatesNext ==
    \/ \E b \in Bots : Arrive(b)
    \/ PollRead \/ PollAsk \/ PollAnswer \/ PollError
    \/ PollNext \/ PollClaim \/ PollExecute
    \/ \E a \in Admins :
        \/ \E r \in Requests : ConfigureBegin(a, r[1], r[2])
        \/ ConfigureCheck(a) \/ ConfigureStore(a) \/ ConfigureReread(a) \/ ConfigureOffset(a)
    \/ Restart

UpdatesSpec == UpdatesInit /\ [][UpdatesNext]_updVars

-----------------------------------------------------------------------------
\* A command is executed at most once while the bot keeps its token, and at most
\* once more for every token stored since: the cursor in the row outlives crashes,
\* late answers and the offset that two goroutines write ("safer at-most-once than
\* duplicated after a crash").
OncePerCursor ==
    \A b \in Bots : \A u \in Ids : executed[b][u] <= 1 + resets

\* A crash loses at most the command that was claimed and not yet executed, as
\* long as the bot keeps its token: nothing else is passed over.
CrashLosesOne ==
    LET busy == IF poll.at = "execute" /\ poll.claimed THEN {Head1} ELSE {}
        lost == {u \in arrived[FirstBot] \ busy :
                    u <= config.last /\ executed[FirstBot][u] = 0}
    IN  resets = 0 => Cardinality(lost) <= crashes

\* A command is executed eventually, unless its bot was disconnected or replaced or
\* stays switched off, or a crash fell between the claim of this command and its
\* execution.  Any other crash only delays it: pollLoop starts from the stored cursor.
CommandsAreExecuted ==
    \A u \in UpdatesOf[FirstBot] :
        u \in arrived[FirstBot] ~>
            \/ executed[FirstBot][u] > 0
            \/ <<FirstBot, u>> \in struck
            \/ config.token # FirstBot
            \/ [](~config.enabled)

\* telegram_bot.go:224: the generation "closes the narrow window where an old bot
\* response could otherwise claim an update cursor immediately after a
\* replacement token is stored".
CursorOfStoredBot == config.last # 0 => claimant = config.token
=============================================================================
