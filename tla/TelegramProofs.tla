---------------------------- MODULE TelegramProofs -----------------------------
(* Proofs about TelegramUpdates, for every set of bots, update ids and concurrent *)
(* settings requests, and every number of requests and crashes, and about         *)
(* TelegramOutbox, for every set of chats and findings, every size of a batch and *)
(* number of attempts, and every number of mishaps.  The two share nothing.       *)
EXTENDS TelegramUpdates, TelegramOutbox, WellFoundedInduction, FiniteSetTheorems, TLAPS

--------------------------------------------------------------------------------
(***************************************************************************)
(* TelegramUpdates.                                                        *)
(***************************************************************************)
Polls == [at : {"top", "ask", "wait", "batch", "claim", "execute"},
          token : Tokens, gen : Nat, batch : SUBSET Ids, claimed : BOOLEAN]
Works == [at : {"idle", "begun", "checked", "stored", "reread"}, token : Tokens \cup {Keep},
          enabled : BOOLEAN \cup {Keep}, changed : BOOLEAN, last : Nat]

\* The loop works for a bot; it claims and executes an update that there is.
PollOK ==
    /\ poll.at # "top" => poll.token \in Bots
    /\ poll.at \in {"claim", "execute"} => poll.batch # {}
    /\ poll.claimed => poll.at = "execute"

\* What is stored was worked out.
AdminOK == \A a \in Admins : admin[a].at = "checked" =>
                admin[a].token \in Tokens /\ admin[a].enabled \in BOOLEAN

\* A command counts as executed once it is claimed.  Above the cursor no command has
\* been executed more often than the cursor was reset, below it at most once more.
InFlight(b, u) == IF poll.claimed /\ poll.token = b /\ Head1 = u THEN 1 ELSE 0
CursorOK ==
    \A b \in Bots : \A u \in Ids :
        executed[b][u] + InFlight(b, u) <= resets + (IF config.last < u THEN 0 ELSE 1)

UpdInv == UpdatesTypeOK /\ PollOK /\ AdminOK /\ CursorOK

--------------------------------------------------------------------------------
\* A set of numbers that is not empty has a least element, and Min is it.
LEMMA MinIsLeast ==
    ASSUME NEW S, S \subseteq Nat, S # {}
    PROVE  Min(S) \in S /\ \A y \in S : Min(S) <= y
<1> DEFINE R == OpToRel(<, Nat)
<1>1. \A x, y \in Nat : <<x, y>> \in R <=> x < y
  BY DEF OpToRel
<1>2. IsWellFoundedOn(R, Nat)
  BY NatLessThanWellFounded
<1> HIDE DEF R
<1>3. PICK x \in S : \A y \in S : ~(<<y, x>> \in R)
  BY <1>2, WFMin
<1>4. ASSUME NEW y \in S PROVE x <= y
  <2>1. x \in Nat /\ y \in Nat
    OBVIOUS
  <2>2. ~(y < x)
    BY <1>1, <1>3, <2>1
  <2> QED
    BY <2>1, <2>2
<1>5. \E z \in S : \A y \in S : z =< y
  BY <1>4
<1> QED
  BY <1>5 DEF Min

LEMMA MaxOfTwo ==
    ASSUME NEW m \in Nat, NEW n \in Nat
    PROVE  Max({m, n}) \in Nat /\ Max({m, n}) \in {m, n}
<1>1. \E x \in {m, n} : \A y \in {m, n} : x >= y
  OBVIOUS
<1> QED
  BY <1>1 DEF Max

\* Update ids are positive numbers.
LEMMA IdsArePositive == Ids \subseteq Nat \ {0}
BY UpdatesAssumption DEF Ids

LEMMA Head1Is ==
    ASSUME UpdInv, poll.batch # {}
    PROVE  Head1 \in poll.batch /\ Head1 \in Ids /\ Head1 \in Nat \ {0}
<1>1. poll.batch \subseteq Ids /\ poll.batch \subseteq Nat
  BY IdsArePositive DEF UpdInv, UpdatesTypeOK
<1> QED
  BY <1>1, MinIsLeast, IdsArePositive DEF Head1

LEMMA LastIsNat ==
    ASSUME UpdInv
    PROVE  config.last \in Nat
<1>1. config.last \in Ids \/ config.last = 0
  BY DEF UpdInv, UpdatesTypeOK
<1>2. CASE config.last \in Ids
  <2>1. config.last \in Nat \ {0}
    BY <1>2, IdsArePositive, Zenon
  <2> QED
    BY <2>1
<1> QED
  BY <1>1, <1>2

LEMMA InitUpd == UpdatesInit => UpdInv
<1> SUFFICES ASSUME UpdatesInit PROVE UpdInv
  OBVIOUS
<1>1. PollIdle \in Polls /\ ~PollIdle.claimed /\ PollIdle.at = "top"
  BY DEF PollIdle, Polls, Tokens
<1>2. AdminIdle \in Works /\ AdminIdle.at = "idle"
  BY DEF AdminIdle, Works
<1>3. UpdatesTypeOK
  BY <1>1, <1>2, UpdatesAssumption DEF UpdatesInit, UpdatesTypeOK, Polls, Works, Tokens
<1>4. CursorOK
  BY <1>1, IdsArePositive DEF UpdatesInit, CursorOK, InFlight
<1> QED
  BY <1>1, <1>2, <1>3, <1>4 DEF UpdatesInit, UpdInv, PollOK, AdminOK

--------------------------------------------------------------------------------
\* A step of the loop that claims and executes nothing.
LEMMA PollMoves ==
    ASSUME UpdInv, NEW p \in Polls, poll' = p, ~poll.claimed, ~p.claimed,
           p.at # "top" => p.token \in Bots,
           p.at = "execute" \/ p.at = "claim" => p.batch # {},
           confirmed' \in [Bots -> Nat],
           UNCHANGED <<config, offset, generation, admin, arrived, executed, resets, claimant, crashes, struck>>
    PROVE  UpdInv'
<1>1. UpdatesTypeOK'
  BY DEF UpdInv, UpdatesTypeOK, Polls
<1>2. PollOK' /\ AdminOK'
  BY DEF UpdInv, PollOK, AdminOK
<1>3. CursorOK'
  BY DEF UpdInv, CursorOK, InFlight
<1> QED
  BY <1>1, <1>2, <1>3 DEF UpdInv

LEMMA PollingKeeps ==
    ASSUME UpdInv, PollRead \/ PollAsk \/ PollAnswer \/ PollError \/ PollNext
    PROVE  UpdInv'
<1>0. /\ poll \in Polls /\ UpdatesTypeOK /\ PollOK
      /\ PollIdle \in Polls /\ ~PollIdle.claimed /\ PollIdle.at = "top"
  BY DEF UpdInv, UpdatesTypeOK, Polls, PollIdle, Tokens
<1>c. confirmed \in [Bots -> Nat] /\ offset \in Nat /\ generation \in Nat
  BY <1>0 DEF UpdatesTypeOK
<1>1. CASE PollRead
  <2> DEFINE p == [poll EXCEPT !.at = "ask", !.token = config.token]
  <2>1. config.token \in Bots
    BY <1>0, <1>1 DEF PollRead, UpdatesTypeOK, Tokens
  <2>2. p \in Polls /\ p.at = "ask" /\ p.token = config.token /\ p.claimed = poll.claimed
    BY <1>0, <2>1 DEF Polls, Tokens
  <2> QED
    BY <1>0, <1>c, <1>1, <2>1, <2>2, PollMoves DEF PollRead, PollOK
<1>2. CASE PollAsk
  <2> DEFINE p == [poll EXCEPT !.at = "wait", !.gen = generation]
  <2>1. p \in Polls /\ p.at = "wait" /\ p.token = poll.token /\ p.claimed = poll.claimed
    BY <1>0, <1>c DEF Polls
  <2>2. confirmed' \in [Bots -> Nat]
    BY <1>c, <1>0, <1>2, MaxOfTwo DEF PollAsk, PollOK
  <2> QED
    BY <1>0, <1>2, <2>1, <2>2, PollMoves DEF PollAsk, PollOK
<1>3. CASE PollAnswer
  <2> DEFINE S == {u \in arrived[poll.token] : u >= confirmed[poll.token]}
             p == [poll EXCEPT !.at = "batch", !.batch = S]
  <2>1. S \subseteq Ids /\ poll.token \in Bots
    BY <1>0, <1>3 DEF PollAnswer, PollOK, UpdatesTypeOK
  <2> HIDE DEF S
  <2>2. p \in Polls /\ p.at = "batch" /\ p.token = poll.token /\ p.claimed = poll.claimed
    BY <1>0, <2>1 DEF Polls
  <2>3. poll' = p \/ poll' = PollIdle
    BY <1>3 DEF PollAnswer, S
  <2> HIDE DEF p
  <2>4. ~poll.claimed
    BY <1>0, <1>3 DEF PollAnswer, PollOK
  <2>5. UNCHANGED <<config, offset, generation, admin, arrived, confirmed, executed, resets,
                    claimant, crashes, struck>>
    BY <1>3 DEF PollAnswer
  <2> QED
    BY <1>0, <1>c, <2>1, <2>2, <2>3, <2>4, <2>5, PollMoves
<1>4. CASE PollError
  BY <1>0, <1>c, <1>4, PollMoves DEF PollError, PollOK
<1>5. CASE PollNext
  <2> DEFINE p == [poll EXCEPT !.batch = @ \ {Head1}]
             q == [poll EXCEPT !.at = "claim"]
  <2>1. p \in Polls /\ p.at = poll.at /\ p.token = poll.token /\ p.claimed = poll.claimed
    BY <1>0 DEF Polls
  <2>2. /\ q \in Polls /\ q.at = "claim" /\ q.token = poll.token /\ q.claimed = poll.claimed
        /\ q.batch = poll.batch
    BY <1>0 DEF Polls
  <2>3. /\ poll.at = "batch" /\ ~poll.claimed
        /\ \/ poll' = p \/ poll' = PollIdle
           \/ poll' = q /\ poll.batch # {}
        /\ UNCHANGED <<config, offset, generation, admin, arrived, confirmed, executed, resets,
                       claimant, crashes, struck>>
    BY <1>0, <1>5 DEF PollNext, PollOK
  <2> HIDE DEF p, q
  <2> QED
    BY <1>0, <1>c, <2>1, <2>2, <2>3, PollMoves DEF PollOK
<1> QED
  BY <1>1, <1>2, <1>3, <1>4, <1>5

\* A claim moves the cursor to the update, which was above it.
LEMMA ClaimKeeps ==
    ASSUME UpdInv, PollClaim
    PROVE  UpdInv'
<1> DEFINE won == config.last < Head1
           p == [poll EXCEPT !.at = "execute", !.claimed = won]
<1>1. /\ poll \in Polls /\ poll.at = "claim" /\ poll.batch # {} /\ ~poll.claimed
      /\ poll.token \in Bots
  BY DEF UpdInv, UpdatesTypeOK, PollOK, PollClaim, Polls
<1>2. Head1 \in Ids /\ Head1 \in Nat \ {0}
  BY <1>1, Head1Is
<1>3. /\ p \in Polls /\ p.at = "execute" /\ p.token = poll.token /\ p.batch = poll.batch
      /\ p.claimed <=> won
  <2>1. config.last \in Nat
    BY LastIsNat
  <2>2. won \in BOOLEAN
    BY <1>2, <2>1
  <2>3. CASE won
    BY <1>1, <2>2, <2>3 DEF Polls
  <2>4. CASE ~won
    BY <1>1, <2>2, <2>4 DEF Polls
  <2> QED
    BY <2>3, <2>4
<1>4. /\ poll' = p /\ config' = [config EXCEPT !.last = IF won THEN Head1 ELSE @]
      /\ claimant' = IF won THEN poll.token ELSE claimant
      /\ UNCHANGED <<offset, generation, admin, arrived, confirmed, executed, resets, crashes, struck>>
  BY DEF PollClaim
<1>5. config \in [token : Tokens, enabled : BOOLEAN, last : Ids \cup {0}]
  BY DEF UpdInv, UpdatesTypeOK
<1>6. /\ config' \in [token : Tokens, enabled : BOOLEAN, last : Ids \cup {0}]
      /\ config'.last = IF won THEN Head1 ELSE config.last
  BY <1>2, <1>4, <1>5
<1>7. Head1' = Head1
  BY <1>3, <1>4 DEF Head1
<1> HIDE DEF p
<1>8. UpdatesTypeOK'
  <2>1. claimant' \in Tokens
    BY <1>1, <1>4 DEF UpdInv, UpdatesTypeOK, Tokens
  <2>2. poll' \in Polls
    BY <1>3, <1>4
  <2> HIDE DEF won
  <2> QED
    BY <1>4, <1>6, <2>1, <2>2 DEF UpdInv, UpdatesTypeOK, Polls
<1>9. PollOK' /\ AdminOK'
  BY <1>1, <1>3, <1>4 DEF UpdInv, PollOK, AdminOK
<1>10. CursorOK'
  <2> SUFFICES ASSUME NEW b \in Bots, NEW u \in Ids
               PROVE  executed[b][u] + InFlight(b, u)' <= resets + (IF config'.last < u THEN 0 ELSE 1)
    BY <1>4 DEF CursorOK
  <2>1. executed[b][u] <= resets + (IF config.last < u THEN 0 ELSE 1)
    <3>1. InFlight(b, u) = 0 /\ executed[b][u] \in Nat
      BY <1>1 DEF InFlight, UpdInv, UpdatesTypeOK
    <3>2. executed[b][u] + InFlight(b, u) <= resets + (IF config.last < u THEN 0 ELSE 1)
      BY DEF UpdInv, CursorOK
    <3> QED
      BY <3>1, <3>2
  <2>2. executed[b][u] \in Nat /\ resets \in Nat /\ u \in Nat /\ config.last \in Nat
    <3>1. executed[b][u] \in Nat /\ resets \in Nat
      BY DEF UpdInv, UpdatesTypeOK
    <3>2. u \in Nat /\ config.last \in Nat
      BY IdsArePositive, LastIsNat
    <3> QED
      BY <3>1, <3>2
  <2>3. CASE won /\ Head1 = u
    <3>1. InFlight(b, u)' \in {0, 1}
      BY DEF InFlight
    <3>2. config'.last = u /\ config.last < u
      BY <1>6, <2>3
    <3> QED
      BY <2>1, <2>2, <3>1, <3>2
  <2>4. CASE won /\ Head1 # u
    <3>1. InFlight(b, u)' = 0
      BY <1>7, <2>4 DEF InFlight
    <3>2. config'.last = Head1 /\ config.last < Head1
      BY <1>6, <2>4
    <3> QED
      BY <1>2, <2>1, <2>2, <3>1, <3>2
  <2>5. CASE ~won
    <3>1. InFlight(b, u)' = 0 /\ config'.last = config.last
      BY <1>3, <1>4, <1>6, <2>5 DEF InFlight
    <3> QED
      BY <2>1, <2>2, <3>1
  <2> QED
    BY <2>3, <2>4, <2>5
<1> QED
  BY <1>8, <1>9, <1>10 DEF UpdInv

LEMMA ExecuteKeeps ==
    ASSUME UpdInv, PollExecute
    PROVE  UpdInv'
<1> DEFINE p == [poll EXCEPT !.at = "batch", !.batch = @ \ {Head1}, !.claimed = FALSE]
<1>1. poll \in Polls /\ poll.at = "execute" /\ poll.batch # {} /\ poll.token \in Bots
  BY DEF UpdInv, UpdatesTypeOK, PollOK, PollExecute, Polls
<1>2. Head1 \in Ids /\ Head1 \in Nat \ {0}
  BY <1>1, Head1Is
<1>3. p \in Polls /\ p.at = "batch" /\ p.token = poll.token /\ ~p.claimed
  BY <1>1 DEF Polls
<1>4. /\ poll' = p /\ offset' = Head1 + 1
      /\ UNCHANGED <<config, generation, admin, arrived, confirmed, resets, claimant, crashes, struck>>
  BY DEF PollExecute
<1> HIDE DEF p
<1>5. executed \in [Bots -> [Ids -> Nat]]
  BY DEF UpdInv, UpdatesTypeOK
<1>6. /\ executed' \in [Bots -> [Ids -> Nat]]
      /\ \A b \in Bots : \A u \in Ids : executed'[b][u] = executed[b][u] + InFlight(b, u)
  <2>1. CASE poll.claimed
    <3>1. executed' = [executed EXCEPT ![poll.token][Head1] = @ + 1]
      BY <2>1 DEF PollExecute
    <3>2. executed[poll.token][Head1] + 1 \in Nat
      BY <1>1, <1>2, <1>5
    <3> QED
      BY <1>1, <1>2, <1>5, <2>1, <3>1, <3>2 DEF InFlight
  <2>2. CASE ~poll.claimed
    BY <1>5, <2>2 DEF PollExecute, InFlight
  <2> QED
    BY <2>1, <2>2
<1>7. UpdatesTypeOK'
  BY <1>2, <1>3, <1>4, <1>6 DEF UpdInv, UpdatesTypeOK, Polls
<1>8. PollOK' /\ AdminOK'
  BY <1>1, <1>3, <1>4 DEF UpdInv, PollOK, AdminOK
<1>9. CursorOK'
  <2> SUFFICES ASSUME NEW b \in Bots, NEW u \in Ids
               PROVE  executed'[b][u] + InFlight(b, u)' <= resets + (IF config.last < u THEN 0 ELSE 1)
    BY <1>4 DEF CursorOK
  <2>1. InFlight(b, u)' = 0
    BY <1>3, <1>4 DEF InFlight
  <2>2. executed'[b][u] \in Nat
    BY <1>6
  <2>3. executed'[b][u] <= resets + (IF config.last < u THEN 0 ELSE 1)
    BY <1>6 DEF UpdInv, CursorOK
  <2> QED
    BY <2>1, <2>2, <2>3
<1> QED
  BY <1>7, <1>8, <1>9 DEF UpdInv

--------------------------------------------------------------------------------
\* A step of a settings request that stores nothing.
LEMMA AdminMoves ==
    ASSUME UpdInv, NEW a \in Admins, NEW w \in Works, admin' = [admin EXCEPT ![a] = w],
           w.at = "checked" => w.token \in Tokens /\ w.enabled \in BOOLEAN,
           offset' \in Nat, generation' \in Nat,
           UNCHANGED <<config, poll, arrived, confirmed, executed, resets, claimant, crashes, struck>>
    PROVE  UpdInv'
<1>1. admin \in [Admins -> Works]
  BY DEF UpdInv, UpdatesTypeOK, Works
<1>2. UpdatesTypeOK'
  BY <1>1 DEF UpdInv, UpdatesTypeOK, Works
<1>3. AdminOK'
  BY <1>1 DEF UpdInv, AdminOK
<1>4. Head1' = Head1
  BY DEF Head1
<1>5. CursorOK' /\ PollOK'
  BY <1>4 DEF UpdInv, CursorOK, InFlight, PollOK
<1> QED
  BY <1>2, <1>3, <1>5 DEF UpdInv

LEMMA ConfigureKeeps ==
    ASSUME UpdInv, NEW a \in Admins,
           \/ \E r \in Requests : ConfigureBegin(a, r[1], r[2])
           \/ ConfigureCheck(a) \/ ConfigureReread(a) \/ ConfigureOffset(a)
    PROVE  UpdInv'
<1>0. /\ admin[a] \in Works /\ AdminIdle \in Works /\ AdminIdle.at = "idle"
      /\ offset \in Nat /\ generation \in Nat /\ config.token \in Tokens /\ config.enabled \in BOOLEAN
  BY DEF UpdInv, UpdatesTypeOK, Works, AdminIdle
<1>1. ASSUME NEW r \in Requests, ConfigureBegin(a, r[1], r[2]) PROVE UpdInv'
  <2> DEFINE w == [AdminIdle EXCEPT !.at = "begun", !.token = r[1], !.enabled = r[2]]
  <2>1. r[1] \in Tokens \cup {Keep} /\ r[2] \in BOOLEAN \cup {Keep}
    BY UpdatesAssumption DEF Tokens
  <2>2. w \in Works /\ w.at = "begun"
    BY <2>1 DEF AdminIdle, Works
  <2>3. generation' \in Nat
    <3>1. generation' = generation + 1
      BY <1>1 DEF ConfigureBegin
    <3> HIDE DEF w
    <3> QED
      BY <1>0, <3>1
  <2>4. /\ admin' = [admin EXCEPT ![a] = w]
        /\ UNCHANGED <<config, offset, poll, arrived, confirmed, executed, resets, claimant, crashes, struck>>
    BY <1>1 DEF ConfigureBegin
  <2> HIDE DEF w
  <2> QED
    BY <1>0, <2>2, <2>3, <2>4, AdminMoves
<1>2. CASE ConfigureCheck(a)
  <2> DEFINE next == IF admin[a].token = Keep THEN config.token ELSE admin[a].token
             kept == IF admin[a].token = NoToken THEN FALSE ELSE config.enabled
             on == IF admin[a].enabled = Keep THEN kept ELSE admin[a].enabled
             changed == next # config.token
             w == [admin[a] EXCEPT !.at = "checked", !.token = next, !.enabled = on,
                                   !.changed = changed]
  <2>1. next \in Tokens /\ on \in BOOLEAN
    BY <1>0 DEF Works
  <2>2. changed \in BOOLEAN
    OBVIOUS
  <2>3. \/ admin' = [admin EXCEPT ![a] = w]
        \/ admin' = [admin EXCEPT ![a] = AdminIdle]
    BY <1>2 DEF ConfigureCheck
  <2> HIDE DEF next, on, changed
  <2>4. w \in Works /\ w.token = next /\ w.enabled = on
    BY <1>0, <2>1, <2>2 DEF Works
  <2> HIDE DEF w
  <2>5. UNCHANGED <<config, offset, generation, poll, arrived, confirmed, executed, resets,
                    claimant, crashes, struck>>
    BY <1>2 DEF ConfigureCheck
  <2> QED
    BY <1>0, <2>1, <2>3, <2>4, <2>5, AdminMoves
<1>3. CASE ConfigureReread(a)
  <2> DEFINE w == [admin[a] EXCEPT !.at = "reread", !.last = config.last]
  <2>1. w \in Works /\ w.at = "reread"
    BY <1>0, LastIsNat DEF Works
  <2>2. admin' = [admin EXCEPT ![a] = w]
    BY <1>3 DEF ConfigureReread
  <2> HIDE DEF w
  <2> QED
    BY <1>0, <1>3, <2>1, <2>2, AdminMoves DEF ConfigureReread
<1>4. CASE ConfigureOffset(a)
  <2>1. offset' \in Nat
    BY <1>0, <1>4 DEF ConfigureOffset, OffsetAfter, Works
  <2> QED
    BY <1>0, <1>4, <2>1, AdminMoves DEF ConfigureOffset
<1> QED
  BY <1>1, <1>2, <1>3, <1>4

\* Another token is stored with a cursor of zero, below every update id.
LEMMA StoreKeeps ==
    ASSUME UpdInv, NEW a \in Admins, ConfigureStore(a)
    PROVE  UpdInv'
<1> DEFINE changed == admin[a].changed
           last == IF changed THEN 0 ELSE config.last
           w == [admin[a] EXCEPT !.at = "stored"]
<1>1. /\ admin \in [Admins -> Works] /\ admin[a].token \in Tokens /\ admin[a].enabled \in BOOLEAN
      /\ changed \in BOOLEAN /\ admin[a].at = "checked"
  BY DEF UpdInv, UpdatesTypeOK, AdminOK, Works, ConfigureStore
<1>2. /\ config' = [token |-> admin[a].token, enabled |-> admin[a].enabled, last |-> last]
      /\ resets' = IF changed THEN resets + 1 ELSE resets
      /\ claimant' = IF changed THEN admin[a].token ELSE claimant
      /\ admin' = [admin EXCEPT ![a] = w]
      /\ UNCHANGED <<offset, generation, poll, arrived, confirmed, executed, crashes, struck>>
  BY DEF ConfigureStore
<1>3. last \in Ids \cup {0}
  BY DEF UpdInv, UpdatesTypeOK
<1>4. w \in Works /\ w.at = "stored"
  BY <1>1 DEF Works
<1> HIDE DEF changed, last, w
<1>5. UpdatesTypeOK'
  <2>1. config' \in [token : Tokens, enabled : BOOLEAN, last : Ids \cup {0}]
    BY <1>1, <1>2, <1>3
  <2>2. admin' \in [Admins -> Works]
    BY <1>1, <1>2, <1>4
  <2>3. resets' \in Nat /\ claimant' \in Tokens
    BY <1>1, <1>2 DEF UpdInv, UpdatesTypeOK
  <2> QED
    BY <1>2, <2>1, <2>2, <2>3 DEF UpdInv, UpdatesTypeOK, Works
<1>6. PollOK' /\ AdminOK'
  BY <1>1, <1>2, <1>4 DEF UpdInv, PollOK, AdminOK
<1>7. CursorOK'
  <2> SUFFICES ASSUME NEW b \in Bots, NEW u \in Ids
               PROVE  executed[b][u] + InFlight(b, u) <= resets' + (IF config'.last < u THEN 0 ELSE 1)
    BY <1>2 DEF CursorOK, InFlight, Head1
  <2>1. executed[b][u] + InFlight(b, u) <= resets + (IF config.last < u THEN 0 ELSE 1)
    BY DEF UpdInv, CursorOK
  <2>2. executed[b][u] \in Nat /\ resets \in Nat /\ InFlight(b, u) \in {0, 1}
    BY DEF UpdInv, UpdatesTypeOK, InFlight
  <2>3. u \in Nat \ {0} /\ config'.last = last
    BY <1>2, IdsArePositive
  <2>4. CASE changed
    <3>1. resets' = resets + 1
      BY <1>2, <2>4
    <3>2. config'.last = 0
      BY <2>3, <2>4 DEF last
    <3> QED
      BY <2>1, <2>2, <2>3, <3>1, <3>2
  <2>5. CASE ~changed
    BY <1>2, <2>1, <2>3, <2>5 DEF last
  <2> QED
    BY <2>4, <2>5
<1> QED
  BY <1>5, <1>6, <1>7 DEF UpdInv

LEMMA RestKeeps ==
    ASSUME UpdInv, Restart \/ \E b \in Bots : Arrive(b)
    PROVE  UpdInv'
<1>1. ASSUME NEW b \in Bots, Arrive(b) PROVE UpdInv'
  <2>1. PICK u \in UpdatesOf[b] : arrived' = [arrived EXCEPT ![b] = @ \cup {u}]
    BY <1>1 DEF Arrive
  <2>2. u \in Ids
    BY UpdatesAssumption DEF Ids
  <2>3. arrived' \in [Bots -> SUBSET Ids]
    BY <2>1, <2>2 DEF UpdInv, UpdatesTypeOK
  <2>4. UNCHANGED <<config, offset, generation, poll, admin, confirmed, executed, resets, claimant,
                    crashes, struck>>
    BY <1>1 DEF Arrive
  <2>5. UpdatesTypeOK'
    BY <2>3, <2>4 DEF UpdInv, UpdatesTypeOK
  <2> QED
    BY <2>4, <2>5 DEF UpdInv, PollOK, AdminOK, CursorOK, InFlight, Head1
<1>2. CASE Restart
  <2>1. /\ PollIdle \in Polls /\ ~PollIdle.claimed /\ PollIdle.at = "top"
        /\ AdminIdle \in Works /\ AdminIdle.at = "idle"
    BY DEF PollIdle, Polls, Tokens, AdminIdle, Works
  <2>2. /\ poll' = PollIdle /\ admin' = [a \in Admins |-> AdminIdle]
        /\ offset' = OffsetAfter(config.last) /\ crashes' = crashes + 1
        /\ UNCHANGED <<config, generation, arrived, confirmed, executed, resets, claimant>>
        /\ struck' = IF poll.claimed THEN struck \cup {<<poll.token, Head1>>} ELSE struck
    BY <1>2 DEF Restart, StartFrom
  <2>3. offset' \in Nat /\ crashes' \in Nat
    BY <2>2, LastIsNat DEF OffsetAfter, UpdInv, UpdatesTypeOK
  <2>4. struck' \subseteq Bots \X Ids
    <3>1. ASSUME poll.claimed PROVE poll.token \in Bots /\ Head1 \in Ids
      <4>1. poll.at = "execute" /\ poll.batch # {} /\ poll.batch \subseteq Ids
        BY <3>1 DEF UpdInv, UpdatesTypeOK, PollOK, Polls
      <4> QED
        BY <4>1, Head1Is, <3>1 DEF UpdInv, PollOK
    <3> QED
      BY <2>2, <3>1 DEF UpdInv, UpdatesTypeOK
  <2>5. UpdatesTypeOK'
    BY <2>1, <2>2, <2>3, <2>4 DEF UpdInv, UpdatesTypeOK, Polls, Works
  <2>6. CursorOK'
    <3> SUFFICES ASSUME NEW b \in Bots, NEW u \in Ids
                 PROVE  executed[b][u] + InFlight(b, u)'
                            <= resets + (IF config.last < u THEN 0 ELSE 1)
      BY <2>2 DEF CursorOK
    <3>1. InFlight(b, u)' = 0
      BY <2>1, <2>2 DEF InFlight
    <3>2. executed[b][u] + InFlight(b, u) <= resets + (IF config.last < u THEN 0 ELSE 1)
      BY DEF UpdInv, CursorOK
    <3>3. executed[b][u] \in Nat /\ resets \in Nat /\ InFlight(b, u) \in {0, 1}
      BY DEF UpdInv, UpdatesTypeOK, InFlight
    <3> QED
      BY <3>1, <3>2, <3>3
  <2> QED
    BY <2>1, <2>2, <2>5, <2>6 DEF UpdInv, PollOK, AdminOK
<1> QED
  BY <1>1, <1>2

LEMMA StepUpd == UpdInv /\ [UpdatesNext]_updVars => UpdInv'
<1> SUFFICES ASSUME UpdInv, [UpdatesNext]_updVars PROVE UpdInv'
  OBVIOUS
<1>1. CASE UNCHANGED updVars
  BY <1>1 DEF updVars, UpdInv, UpdatesTypeOK, PollOK, AdminOK, CursorOK, InFlight, Head1
<1> QED
  BY <1>1, PollingKeeps, ClaimKeeps, ExecuteKeeps, ConfigureKeeps, StoreKeeps, RestKeeps
     DEF UpdatesNext

LEMMA AlwaysUpd == UpdatesSpec => []UpdInv
<1>1. UpdatesInit => UpdInv
  BY InitUpd
<1>2. UpdInv /\ [UpdatesNext]_updVars => UpdInv'
  BY StepUpd
<1> QED
  BY <1>1, <1>2, PTL DEF UpdatesSpec

\* The variables keep their types.
THEOREM UpdatesTypeCorrect == UpdatesSpec => []UpdatesTypeOK
<1>1. UpdInv => UpdatesTypeOK
  BY DEF UpdInv
<1> QED
  BY <1>1, AlwaysUpd, PTL

\* A command is executed at most once, and at most once more for every token stored
\* since: the cursor in the row outlives crashes, late answers and the offset.
THEOREM AtMostOncePerCursor == UpdatesSpec => []OncePerCursor
<1>1. UpdInv => OncePerCursor
  <2> SUFFICES ASSUME UpdInv, NEW b \in Bots, NEW u \in Ids
               PROVE  executed[b][u] <= 1 + resets
    BY DEF OncePerCursor
  <2>1. executed[b][u] + InFlight(b, u) <= resets + (IF config.last < u THEN 0 ELSE 1)
    BY DEF UpdInv, CursorOK
  <2>2. executed[b][u] \in Nat /\ resets \in Nat /\ InFlight(b, u) \in {0, 1}
    BY DEF UpdInv, UpdatesTypeOK, InFlight
  <2> QED
    BY <2>1, <2>2
<1> QED
  BY <1>1, AlwaysUpd, PTL

\* While no other token was stored: the bot is the first one, in the row, in the loop
\* and in what a settings request is about to store.
StillFirst ==
    /\ config.token = FirstBot
    /\ poll.at # "top" => poll.token = FirstBot
    /\ \A a \in Admins : admin[a].at = "checked" /\ ~admin[a].changed => admin[a].token = FirstBot

\* Neither the offset, nor what the server forgot, nor what a settings request read
\* is ahead of the cursor in the row.
CursorLeads ==
    /\ offset <= config.last + 1
    /\ confirmed[FirstBot] <= config.last + 1
    /\ \A a \in Admins : admin[a].at = "reread" => admin[a].last <= config.last

\* The commands arrive in the order of their ids, and the cursor names one of them.
InOrder ==
    /\ IsFiniteSet(arrived[FirstBot])
    /\ \A u \in arrived[FirstBot] : \A v \in UpdatesOf[FirstBot] : v < u => v \in arrived[FirstBot]
    /\ config.last = 0 \/ config.last \in arrived[FirstBot]

\* A command that arrived and is not in the batch is behind the cursor or after the batch.
BatchIsNext ==
    poll.at \in {"batch", "claim", "execute"} =>
        /\ poll.batch \subseteq arrived[FirstBot]
        /\ \A u \in arrived[FirstBot] \ poll.batch :
                u <= config.last \/ \A v \in poll.batch : v < u
        /\ poll.at = "execute" => Head1 <= config.last

\* The command being executed, and those that were passed over.
Busy == IF poll.at = "execute" /\ poll.claimed THEN {Head1} ELSE {}
Lost == {u \in arrived[FirstBot] \ Busy : u <= config.last /\ executed[FirstBot][u] = 0}

FewLost == Cardinality(Lost) <= crashes

Orderly == StillFirst /\ CursorLeads /\ InOrder /\ BatchIsNext /\ FewLost
CrashInv == UpdInv /\ (resets = 0 => Orderly)

--------------------------------------------------------------------------------
\* A subset of what was lost is no more, and one command more is one more.
LEMMA Fewer ==
    ASSUME NEW S, IsFiniteSet(S), NEW T, T \subseteq S, NEW k \in Nat, Cardinality(S) <= k
    PROVE  Cardinality(T) <= k
<1>1. IsFiniteSet(T) /\ Cardinality(T) <= Cardinality(S)
  BY FS_Subset
<1>2. Cardinality(T) \in Nat /\ Cardinality(S) \in Nat
  BY <1>1, FS_CardinalityType
<1> QED
  BY <1>1, <1>2

LEMMA OneMore ==
    ASSUME NEW S, IsFiniteSet(S), NEW x, NEW T, T \subseteq S \cup {x}, NEW k \in Nat,
           Cardinality(S) <= k
    PROVE  Cardinality(T) <= k + 1
<1>1. /\ IsFiniteSet(S \cup {x})
      /\ Cardinality(S \cup {x}) = Cardinality(S) \/ Cardinality(S \cup {x}) = Cardinality(S) + 1
  BY FS_AddElement
<1>2. Cardinality(S) \in Nat
  BY FS_CardinalityType
<1>3. Cardinality(S \cup {x}) <= k + 1
  BY <1>1, <1>2
<1> QED
  BY <1>1, <1>3, Fewer

\* The numbers of a state.
LEMMA Numbers ==
    ASSUME UpdInv
    PROVE  /\ config.last \in Nat /\ offset \in Nat /\ crashes \in Nat /\ resets \in Nat
           /\ arrived[FirstBot] \subseteq Nat \ {0} /\ UpdatesOf[FirstBot] \subseteq Nat \ {0}
           /\ poll.batch \subseteq Nat \ {0} /\ confirmed[FirstBot] \in Nat
<1>1. FirstBot \in Bots /\ UpdatesOf[FirstBot] \subseteq Ids
  BY UpdatesAssumption DEF Ids
<1>2. /\ offset \in Nat /\ crashes \in Nat /\ resets \in Nat /\ arrived[FirstBot] \subseteq Ids
      /\ poll.batch \subseteq Ids /\ confirmed[FirstBot] \in Nat
  BY <1>1 DEF UpdInv, UpdatesTypeOK
<1> QED
  BY <1>1, <1>2, LastIsNat, IdsArePositive

LEMMA LostIsFinite == InOrder => IsFiniteSet(Lost)
<1>1. Lost \subseteq arrived[FirstBot]
  BY DEF Lost
<1> QED
  BY <1>1, FS_Subset DEF InOrder

LEMMA InitCrash == UpdatesInit => CrashInv
<1> SUFFICES ASSUME UpdatesInit PROVE Orderly
  BY InitUpd DEF CrashInv
<1>1. /\ arrived[FirstBot] = {} /\ confirmed[FirstBot] = 0 /\ config.token = FirstBot
      /\ config.last = 0 /\ offset = 0 /\ crashes = 0 /\ poll.at = "top"
      /\ \A a \in Admins : admin[a].at = "idle"
  BY UpdatesAssumption DEF UpdatesInit, PollIdle, AdminIdle
<1>2. IsFiniteSet({}) /\ Cardinality({}) = 0
  BY FS_EmptySet
<1>3. Lost = {}
  BY <1>1 DEF Lost
<1> QED
  BY <1>1, <1>2, <1>3 DEF Orderly, StillFirst, CursorLeads, InOrder, BatchIsNext, FewLost

--------------------------------------------------------------------------------
\* A step of the loop that claims and executes nothing passes nothing over: a command
\* below the offset, which the loop drops, is behind the cursor.
LEMMA LookingLosesNone ==
    ASSUME UpdInv, Orderly, PollRead \/ PollAsk \/ PollAnswer \/ PollError \/ PollNext
    PROVE  Orderly'
<1>0. /\ UNCHANGED <<config, offset, admin, arrived, executed, crashes, struck>>
      /\ poll.at \in {"top", "ask", "wait", "batch"}
  BY DEF PollRead, PollAsk, PollAnswer, PollError, PollNext
<1>1. poll \in Polls /\ PollIdle.at = "top"
  BY DEF UpdInv, UpdatesTypeOK, Polls, PollIdle
<1>2. poll'.at \in {"top", "ask", "wait", "batch", "claim"}
  BY <1>1 DEF PollRead, PollAsk, PollAnswer, PollError, PollNext, Polls
<1>3. poll'.at # "top" => poll'.token = FirstBot
  <2>1. poll'.at # "top" => poll'.token = config.token \/ (poll'.token = poll.token /\ poll.at # "top")
    BY <1>1 DEF PollRead, PollAsk, PollAnswer, PollError, PollNext, Polls
  <2> QED
    BY <2>1 DEF Orderly, StillFirst
<1>4. StillFirst'
  BY <1>0, <1>3 DEF Orderly, StillFirst
<1>5. CursorLeads'
  <2>1. confirmed'[FirstBot] <= config.last + 1
    <3>1. CASE PollAsk
      <4>1. FirstBot \in Bots /\ confirmed \in [Bots -> Nat]
        BY UpdatesAssumption DEF UpdInv, UpdatesTypeOK
      <4>2. poll.token = FirstBot
        BY <3>1 DEF PollAsk, Orderly, StillFirst
      <4>3. confirmed'[FirstBot] = Max({confirmed[FirstBot], offset})
        BY <3>1, <4>1, <4>2 DEF PollAsk
      <4>4. Max({confirmed[FirstBot], offset}) \in {confirmed[FirstBot], offset}
        BY Numbers, MaxOfTwo
      <4> QED
        BY <4>3, <4>4 DEF Orderly, CursorLeads
    <3>2. CASE ~PollAsk
      <4>1. confirmed' = confirmed
        BY <3>2 DEF PollRead, PollAnswer, PollError, PollNext
      <4> QED
        BY <4>1 DEF Orderly, CursorLeads
    <3> QED
      BY <3>1, <3>2
  <2> QED
    BY <1>0, <2>1 DEF Orderly, CursorLeads
<1>6. InOrder'
  BY <1>0 DEF Orderly, InOrder
<1>7. BatchIsNext'
  <2> SUFFICES ASSUME poll'.at \in {"batch", "claim"}
               PROVE  /\ poll'.batch \subseteq arrived[FirstBot]
                      /\ \A u \in arrived[FirstBot] \ poll'.batch :
                            u <= config.last \/ \A v \in poll'.batch : v < u
    BY <1>0, <1>2 DEF BatchIsNext
  <2>1. CASE PollAnswer
    <3>1. poll.token = FirstBot
      BY <2>1 DEF PollAnswer, Orderly, StillFirst
    <3>2. poll'.batch = {u \in arrived[FirstBot] : u >= confirmed[FirstBot]}
      BY <1>1, <2>1, <3>1 DEF PollAnswer, Polls
    <3>3. confirmed[FirstBot] <= config.last + 1
      BY DEF Orderly, CursorLeads
    <3>4. ASSUME NEW u \in arrived[FirstBot], u < confirmed[FirstBot] PROVE u <= config.last
      <4>1. u \in Nat /\ config.last \in Nat /\ confirmed[FirstBot] \in Nat
        BY Numbers
      <4> QED
        BY <3>3, <3>4, <4>1
    <3>5. \A u \in arrived[FirstBot] : u \in Nat
      BY Numbers
    <3>6. confirmed[FirstBot] \in Nat
      BY Numbers
    <3> QED
      BY <3>2, <3>4, <3>5, <3>6
  <2>2. CASE PollNext
    <3>1. /\ poll.at = "batch" /\ poll.batch # {}
          /\ \/ poll'.batch = poll.batch
             \/ BelowOffset(Head1) /\ poll'.batch = poll.batch \ {Head1}
      BY <1>1, <2>2 DEF PollNext, Polls
    <3>2. /\ poll.batch \subseteq arrived[FirstBot]
          /\ \A u \in arrived[FirstBot] \ poll.batch :
                u <= config.last \/ \A v \in poll.batch : v < u
      BY <3>1 DEF Orderly, BatchIsNext
    <3>3. CASE poll'.batch = poll.batch
      BY <3>2, <3>3
    <3>4. CASE BelowOffset(Head1) /\ poll'.batch = poll.batch \ {Head1}
      <4>1. Head1 <= config.last
        <5>1. Head1 \in Nat /\ offset \in Nat /\ config.last \in Nat
          BY <3>1, Head1Is, Numbers
        <5>2. Head1 < offset /\ offset <= config.last + 1
          BY <3>4 DEF BelowOffset, Orderly, CursorLeads
        <5> QED
          BY <5>1, <5>2
      <4> QED
        BY <3>2, <3>4, <4>1
    <3> QED
      BY <3>1, <3>3, <3>4
  <2>3. CASE PollRead \/ PollAsk \/ PollError
    BY <1>1, <2>3 DEF PollRead, PollAsk, PollError, Polls
  <2> QED
    BY <2>1, <2>2, <2>3
<1>8. FewLost'
  <2>1. Busy' = Busy
    BY <1>0, <1>2 DEF Busy
  <2>2. Lost' = Lost
    BY <1>0, <2>1 DEF Lost
  <2> QED
    BY <1>0, <2>2 DEF Orderly, FewLost
<1> QED
  BY <1>4, <1>5, <1>6, <1>7, <1>8 DEF Orderly

\* The claim moves the cursor to the least command above it: what it passes over is
\* the command that is about to be executed.
LEMMA ClaimLosesNone ==
    ASSUME UpdInv, Orderly, PollClaim
    PROVE  Orderly'
<1> DEFINE won == config.last < Head1
<1>1. /\ poll \in Polls /\ poll.at = "claim" /\ poll.batch # {} /\ ~poll.claimed
  BY DEF UpdInv, UpdatesTypeOK, PollOK, PollClaim, Polls
<1>2. /\ Head1 \in poll.batch /\ Head1 \in Nat \ {0}
      /\ \A v \in poll.batch : Head1 <= v
  BY <1>1, Head1Is, Numbers, MinIsLeast DEF Head1
<1>3. config \in [token : Tokens, enabled : BOOLEAN, last : Ids \cup {0}]
  BY DEF UpdInv, UpdatesTypeOK
<1>4. /\ poll'.at = "execute" /\ poll'.token = poll.token /\ poll'.batch = poll.batch
      /\ poll'.claimed = won
      /\ config'.token = config.token /\ config'.last = IF won THEN Head1 ELSE config.last
      /\ UNCHANGED <<offset, admin, arrived, confirmed, executed, crashes, struck>>
  BY <1>1, <1>3 DEF PollClaim, Polls
<1>5. Head1' = Head1
  BY <1>4 DEF Head1
<1>6. /\ config.last \in Nat /\ config'.last \in Nat
      /\ config.last <= config'.last /\ Head1 <= config'.last
  <2>1. config.last \in Nat
    BY Numbers
  <2> QED
    BY <1>2, <1>4, <2>1
<1>7. /\ poll.batch \subseteq arrived[FirstBot]
      /\ \A u \in arrived[FirstBot] \ poll.batch :
            u <= config.last \/ \A v \in poll.batch : v < u
  BY <1>1 DEF Orderly, BatchIsNext
<1>n. arrived[FirstBot] \subseteq Nat /\ poll.batch \subseteq Nat
  BY Numbers
<1> HIDE DEF won
<1>8. StillFirst'
  BY <1>1, <1>4 DEF Orderly, StillFirst
<1>9. CursorLeads'
  <2>1. /\ offset \in Nat /\ confirmed[FirstBot] \in Nat
        /\ offset <= config.last + 1 /\ confirmed[FirstBot] <= config.last + 1
    BY Numbers DEF Orderly, CursorLeads
  <2>2. offset <= config'.last + 1 /\ confirmed[FirstBot] <= config'.last + 1
    BY <1>6, <2>1
  <2>3. ASSUME NEW a \in Admins, admin[a].at = "reread" PROVE admin[a].last <= config'.last
    <3>1. admin[a].last \in Nat
      BY DEF UpdInv, UpdatesTypeOK
    <3>2. admin[a].last <= config.last
      BY <2>3 DEF Orderly, CursorLeads
    <3> QED
      BY <1>6, <3>1, <3>2
  <2> QED
    BY <1>4, <2>2, <2>3 DEF CursorLeads
<1>10. InOrder'
  BY <1>2, <1>4, <1>7 DEF Orderly, InOrder
<1>11. BatchIsNext'
  <2>1. ASSUME NEW u \in arrived[FirstBot] \ poll.batch
        PROVE  u <= config'.last \/ \A v \in poll.batch : v < u
    <3>1. CASE u <= config.last
      BY <1>6, <1>n, <3>1
    <3> QED
      BY <1>7, <3>1
  <2> QED
    BY <1>4, <1>5, <1>6, <1>7, <2>1 DEF BatchIsNext
<1>12. FewLost'
  <2>1. Lost' \subseteq Lost
    <3> SUFFICES ASSUME NEW u \in arrived[FirstBot], u \notin Busy', u <= config'.last,
                        executed[FirstBot][u] = 0
                 PROVE  u \in Lost
      BY <1>4 DEF Lost
    <3>1. Busy = {}
      BY <1>1 DEF Busy
    <3>2. u <= config.last
      <4>1. CASE won
        <5>1. u # Head1 /\ config'.last = Head1
          BY <1>4, <1>5, <4>1 DEF Busy
        <5>2. u < Head1
          BY <1>2, <1>n, <5>1
        <5>3. u \notin poll.batch
          BY <1>2, <1>n, <5>2
        <5>4. ~(Head1 < u)
          BY <1>2, <1>n, <5>2
        <5> QED
          BY <1>2, <1>7, <5>3, <5>4
      <4>2. CASE ~won
        BY <1>4, <4>2
      <4> QED
        BY <4>1, <4>2
    <3> QED
      BY <3>1, <3>2 DEF Lost
  <2>2. IsFiniteSet(Lost) /\ crashes \in Nat /\ Cardinality(Lost) <= crashes
    BY LostIsFinite, Numbers DEF Orderly, FewLost
  <2>3. Cardinality(Lost') <= crashes
    BY <2>1, <2>2, Fewer
  <2> QED
    BY <1>4, <2>3 DEF FewLost
<1> QED
  BY <1>8, <1>9, <1>10, <1>11, <1>12 DEF Orderly

\* What was claimed is executed; nothing else is passed over.
LEMMA ExecuteLosesNone ==
    ASSUME UpdInv, Orderly, PollExecute
    PROVE  Orderly'
<1>1. /\ poll \in Polls /\ poll.at = "execute" /\ poll.batch # {} /\ poll.token = FirstBot
      /\ FirstBot \in Bots /\ executed \in [Bots -> [Ids -> Nat]]
  BY UpdatesAssumption DEF UpdInv, UpdatesTypeOK, PollOK, PollExecute, Polls, Orderly, StillFirst
<1>2. Head1 \in poll.batch /\ Head1 \in Ids /\ Head1 \in Nat \ {0}
  BY <1>1, Head1Is
<1>3. /\ poll'.at = "batch" /\ poll'.token = FirstBot /\ poll'.batch = poll.batch \ {Head1}
      /\ ~poll'.claimed /\ offset' = Head1 + 1
      /\ UNCHANGED <<config, admin, arrived, confirmed, crashes, struck>>
  BY <1>1 DEF PollExecute, Polls
<1>4. /\ poll.batch \subseteq arrived[FirstBot]
      /\ \A u \in arrived[FirstBot] \ poll.batch :
            u <= config.last \/ \A v \in poll.batch : v < u
      /\ Head1 <= config.last
  BY <1>1 DEF Orderly, BatchIsNext
<1>5. StillFirst'
  BY <1>3 DEF Orderly, StillFirst
<1>6. CursorLeads'
  <2>1. Head1 + 1 <= config.last + 1
    BY <1>2, <1>4, Numbers
  <2> QED
    BY <1>3, <2>1 DEF Orderly, CursorLeads
<1>7. InOrder'
  BY <1>3 DEF Orderly, InOrder
<1>8. BatchIsNext'
  BY <1>3, <1>4 DEF BatchIsNext
<1>9. FewLost'
  <2>1. Lost' \subseteq Lost
    <3> SUFFICES ASSUME NEW u \in arrived[FirstBot], u <= config.last, executed'[FirstBot][u] = 0
                 PROVE  u \in Lost
      BY <1>3 DEF Lost
    <3>1. u \in Ids
      BY <1>1 DEF UpdInv, UpdatesTypeOK
    <3>2. CASE poll.claimed
      <4>1. executed' = [executed EXCEPT ![FirstBot][Head1] = @ + 1]
        BY <1>1, <3>2 DEF PollExecute
      <4>2. executed[FirstBot][Head1] \in Nat
        BY <1>1, <1>2
      <4>3. executed'[FirstBot][Head1] = executed[FirstBot][Head1] + 1
        BY <1>1, <1>2, <4>1
      <4>4. u # Head1
        BY <4>2, <4>3
      <4>5. executed[FirstBot][u] = 0
        BY <1>1, <1>2, <3>1, <4>1, <4>4
      <4> QED
        BY <1>1, <3>2, <4>4, <4>5 DEF Lost, Busy
    <3>3. CASE ~poll.claimed
      BY <3>3 DEF PollExecute, Lost, Busy
    <3> QED
      BY <3>2, <3>3
  <2>2. IsFiniteSet(Lost) /\ crashes \in Nat /\ Cardinality(Lost) <= crashes
    BY LostIsFinite, Numbers DEF Orderly, FewLost
  <2>3. Cardinality(Lost') <= crashes
    BY <2>1, <2>2, Fewer
  <2> QED
    BY <1>3, <2>3 DEF FewLost
<1> QED
  BY <1>5, <1>6, <1>7, <1>8, <1>9 DEF Orderly

\* A settings request that stores no other token leaves the cursor where it is.
LEMMA SettingsLoseNone ==
    ASSUME UpdInv, Orderly, resets = 0, resets' = 0, NEW a \in Admins,
           \/ \E r \in Requests : ConfigureBegin(a, r[1], r[2])
           \/ ConfigureCheck(a) \/ ConfigureStore(a) \/ ConfigureReread(a) \/ ConfigureOffset(a)
    PROVE  Orderly'
<1>0. /\ admin \in [Admins -> Works] /\ AdminIdle.at = "idle"
      /\ UNCHANGED <<poll, arrived, confirmed, executed, crashes, struck>>
  BY DEF UpdInv, UpdatesTypeOK, Works, AdminIdle, ConfigureBegin, ConfigureCheck, ConfigureStore,
         ConfigureReread, ConfigureOffset
<1>1. config'.last = config.last /\ config'.token = config.token
  <2>1. CASE ConfigureStore(a)
    <3>1. admin[a].at = "checked" /\ ~admin[a].changed
      BY <2>1 DEF ConfigureStore
    <3>2. config'.token = admin[a].token /\ config'.last = config.last
      BY <2>1, <3>1 DEF ConfigureStore
    <3> QED
      BY <3>1, <3>2 DEF Orderly, StillFirst
  <2>2. CASE ~ConfigureStore(a)
    BY <2>2 DEF ConfigureBegin, ConfigureCheck, ConfigureReread, ConfigureOffset
  <2> QED
    BY <2>1, <2>2
<1>2. PICK w : admin' = [admin EXCEPT ![a] = w]
               /\ (w.at = "checked" => w.changed = (w.token # config.token))
               /\ (w.at = "reread" => w.last = config.last)
  <2>1. ASSUME NEW r \in Requests, ConfigureBegin(a, r[1], r[2])
        PROVE  \E w : /\ admin' = [admin EXCEPT ![a] = w]
                      /\ w.at = "checked" => w.changed = (w.token # config.token)
                      /\ w.at = "reread" => w.last = config.last
    <3> DEFINE w == [AdminIdle EXCEPT !.at = "begun", !.token = r[1], !.enabled = r[2]]
    <3>1. w.at = "begun" /\ admin' = [admin EXCEPT ![a] = w]
      BY <2>1 DEF ConfigureBegin, AdminIdle
    <3> HIDE DEF w
    <3> QED
      BY <3>1
  <2>2. CASE ConfigureCheck(a)
    <3> DEFINE next == IF admin[a].token = Keep THEN config.token ELSE admin[a].token
               kept == IF admin[a].token = NoToken THEN FALSE ELSE config.enabled
               on == IF admin[a].enabled = Keep THEN kept ELSE admin[a].enabled
               w == [admin[a] EXCEPT !.at = "checked", !.token = next, !.enabled = on,
                                     !.changed = next # config.token]
    <3>1. \/ admin' = [admin EXCEPT ![a] = w]
          \/ admin' = [admin EXCEPT ![a] = AdminIdle]
      BY <2>2 DEF ConfigureCheck
    <3> HIDE DEF next, on
    <3>2. w.at = "checked" /\ w.token = next /\ w.changed = (next # config.token)
      BY <1>0 DEF Works
    <3> HIDE DEF w
    <3> QED
      BY <1>0, <3>1, <3>2
  <2>3. CASE ConfigureStore(a)
    <3> DEFINE w == [admin[a] EXCEPT !.at = "stored"]
    <3>1. w.at = "stored" /\ admin' = [admin EXCEPT ![a] = w]
      BY <1>0, <2>3 DEF ConfigureStore, Works
    <3> HIDE DEF w
    <3> QED
      BY <3>1
  <2>4. CASE ConfigureReread(a)
    <3> DEFINE w == [admin[a] EXCEPT !.at = "reread", !.last = config.last]
    <3>1. w.at = "reread" /\ w.last = config.last /\ admin' = [admin EXCEPT ![a] = w]
      BY <1>0, <2>4 DEF ConfigureReread, Works
    <3> HIDE DEF w
    <3> QED
      BY <3>1
  <2>5. CASE ConfigureOffset(a)
    BY <1>0, <2>5 DEF ConfigureOffset
  <2> QED
    BY <2>1, <2>2, <2>3, <2>4, <2>5
<1>3. \A c \in Admins : admin'[c] = IF c = a THEN w ELSE admin[c]
  BY <1>0, <1>2
<1>4. StillFirst'
  <2>1. ASSUME NEW c \in Admins, admin'[c].at = "checked", ~admin'[c].changed
        PROVE  admin'[c].token = FirstBot
    <3>1. CASE c = a
      BY <1>2, <1>3, <2>1, <3>1 DEF Orderly, StillFirst
    <3>2. CASE c # a
      BY <1>3, <2>1, <3>2 DEF Orderly, StillFirst
    <3> QED
      BY <3>1, <3>2
  <2> QED
    BY <1>0, <1>1, <2>1 DEF Orderly, StillFirst
<1>5. CursorLeads'
  <2>1. offset' <= config.last + 1
    <3>1. CASE ConfigureOffset(a)
      <4>1. offset' = OffsetAfter(admin[a].last) /\ admin[a].last <= config.last
        BY <3>1 DEF ConfigureOffset, Orderly, CursorLeads
      <4>2. admin[a].last \in Nat /\ config.last \in Nat
        BY <1>0, Numbers DEF Works
      <4> QED
        BY <4>1, <4>2 DEF OffsetAfter
    <3>2. CASE ~ConfigureOffset(a)
      <4>1. offset' = offset
        BY <3>2 DEF ConfigureBegin, ConfigureCheck, ConfigureStore, ConfigureReread
      <4> QED
        BY <4>1 DEF Orderly, CursorLeads
    <3> QED
      BY <3>1, <3>2
  <2>2. ASSUME NEW c \in Admins, admin'[c].at = "reread" PROVE admin'[c].last <= config.last
    <3>1. CASE c = a
      BY <1>2, <1>3, <2>2, <3>1, Numbers
    <3>2. CASE c # a
      BY <1>3, <2>2, <3>2 DEF Orderly, CursorLeads
    <3> QED
      BY <3>1, <3>2
  <2> QED
    BY <1>0, <1>1, <2>1, <2>2 DEF Orderly, CursorLeads
<1>6. InOrder'
  BY <1>0, <1>1 DEF Orderly, InOrder
<1>7. BatchIsNext'
  BY <1>0, <1>1 DEF Orderly, BatchIsNext, Head1
<1>8. FewLost'
  <2>1. Lost' = Lost
    BY <1>0, <1>1 DEF Lost, Busy, Head1
  <2> QED
    BY <1>0, <2>1 DEF Orderly, FewLost
<1> QED
  BY <1>4, <1>5, <1>6, <1>7, <1>8 DEF Orderly

\* A new command comes after all that arrived before it.
LEMMA ArrivalLosesNone ==
    ASSUME UpdInv, Orderly, NEW b \in Bots, Arrive(b)
    PROVE  Orderly'
<1>0. UNCHANGED <<config, offset, poll, admin, confirmed, executed, crashes, struck>>
  BY DEF Arrive
<1>1. PICK u \in UpdatesOf[b] \ arrived[b] :
          /\ \A v \in UpdatesOf[b] : v < u => v \in arrived[b]
          /\ arrived' = [arrived EXCEPT ![b] = @ \cup {u}]
  BY DEF Arrive
<1>2. arrived \in [Bots -> SUBSET Ids] /\ FirstBot \in Bots
  BY UpdatesAssumption DEF UpdInv, UpdatesTypeOK
<1>3. CASE b # FirstBot
  <2>1. arrived'[FirstBot] = arrived[FirstBot]
    BY <1>1, <1>2, <1>3
  <2>2. Lost' = Lost
    BY <1>0, <2>1 DEF Lost, Busy, Head1
  <2> QED
    BY <1>0, <2>1, <2>2 DEF Orderly, StillFirst, CursorLeads, InOrder, BatchIsNext, FewLost, Head1
<1>4. CASE b = FirstBot
  <2>1. arrived'[FirstBot] = arrived[FirstBot] \cup {u}
    BY <1>1, <1>2, <1>4
  <2>2. /\ u \in Nat \ {0} /\ arrived[FirstBot] \subseteq Nat \ {0} /\ config.last \in Nat
        /\ UpdatesOf[FirstBot] \subseteq Nat \ {0}
    BY <1>1, <1>4, Numbers
  <2>3. \A v \in arrived[FirstBot] : v < u
    <3> SUFFICES ASSUME NEW v \in arrived[FirstBot], u < v PROVE FALSE
      BY <1>1, <1>4, <2>2
    <3> QED
      BY <1>1, <1>4 DEF Orderly, InOrder
  <2>4. config.last < u
    BY <2>2, <2>3 DEF Orderly, InOrder
  <2>5. InOrder'
    <3>1. IsFiniteSet(arrived[FirstBot] \cup {u})
      BY FS_AddElement DEF Orderly, InOrder
    <3>2. ASSUME NEW x \in arrived[FirstBot] \cup {u}, NEW v \in UpdatesOf[FirstBot], v < x
          PROVE  v \in arrived[FirstBot] \cup {u}
      BY <1>1, <1>4, <3>2 DEF Orderly, InOrder
    <3> QED
      BY <1>0, <2>1, <3>1, <3>2 DEF Orderly, InOrder
  <2>6. BatchIsNext'
    <3> SUFFICES ASSUME poll.at \in {"batch", "claim", "execute"}
                 PROVE  /\ poll.batch \subseteq arrived'[FirstBot]
                        /\ \A x \in arrived'[FirstBot] \ poll.batch :
                              x <= config.last \/ \A v \in poll.batch : v < x
                        /\ poll.at = "execute" => Head1 <= config.last
      BY <1>0 DEF BatchIsNext, Head1
    <3> QED
      BY <2>1, <2>3 DEF Orderly, BatchIsNext
  <2>7. Lost' = Lost
    <3>1. Busy' = Busy
      BY <1>0 DEF Busy, Head1
    <3>2. ~(u <= config.last)
      BY <2>2, <2>4
    <3> QED
      BY <1>0, <2>1, <3>1, <3>2 DEF Lost
  <2> QED
    BY <1>0, <2>5, <2>6, <2>7 DEF Orderly, StillFirst, CursorLeads, FewLost
<1> QED
  BY <1>3, <1>4

\* A crash loses the command that was claimed and not executed.
LEMMA RestartLosesOne ==
    ASSUME UpdInv, Orderly, Restart
    PROVE  Orderly'
<1>1. /\ PollIdle.at = "top" /\ AdminIdle.at = "idle"
  BY DEF PollIdle, AdminIdle
<1>2. /\ poll'.at = "top" /\ \A a \in Admins : admin'[a].at = "idle"
      /\ offset' = OffsetAfter(config.last) /\ crashes' = crashes + 1
      /\ UNCHANGED <<config, arrived, confirmed, executed>>
  BY <1>1 DEF Restart, StartFrom
<1>3. offset' <= config.last + 1
  BY <1>2, Numbers DEF OffsetAfter
<1>4. FewLost'
  <2>1. \E x : Busy \subseteq {x}
    BY DEF Busy
  <2>2. PICK x : Busy \subseteq {x}
    BY <2>1
  <2>3. Lost' \subseteq Lost \cup {x}
    BY <1>2, <2>2 DEF Lost
  <2>4. IsFiniteSet(Lost) /\ crashes \in Nat /\ Cardinality(Lost) <= crashes
    BY LostIsFinite, Numbers DEF Orderly, FewLost
  <2>5. Cardinality(Lost') <= crashes + 1
    BY <2>3, <2>4, OneMore
  <2> QED
    BY <1>2, <2>5 DEF FewLost
<1> QED
  BY <1>2, <1>3, <1>4 DEF Orderly, StillFirst, CursorLeads, InOrder, BatchIsNext

LEMMA StepCrash == CrashInv /\ [UpdatesNext]_updVars => CrashInv'
<1> SUFFICES ASSUME CrashInv, [UpdatesNext]_updVars, resets' = 0 PROVE Orderly'
  BY StepUpd DEF CrashInv
<1>1. resets = 0
  <2>1. resets \in Nat
    BY Numbers DEF CrashInv
  <2>2. resets' = resets \/ resets' = resets + 1
    BY DEF UpdatesNext, updVars, Arrive, PollRead, PollAsk, PollAnswer, PollError, PollNext,
           PollClaim, PollExecute, ConfigureBegin, ConfigureCheck, ConfigureStore, ConfigureReread,
           ConfigureOffset, Restart, StartFrom
  <2> QED
    BY <2>1, <2>2
<1>2. UpdInv /\ Orderly
  BY <1>1 DEF CrashInv
<1>3. CASE UNCHANGED updVars
  BY <1>2, <1>3 DEF updVars, Orderly, StillFirst, CursorLeads, InOrder, BatchIsNext, FewLost, Lost,
                    Busy, Head1
<1> QED
  BY <1>1, <1>2, <1>3, LookingLosesNone, ClaimLosesNone, ExecuteLosesNone, SettingsLoseNone,
     ArrivalLosesNone, RestartLosesOne DEF UpdatesNext

\* A crash loses at most the command that was claimed and not yet executed, as long as
\* the bot keeps its token, however often the offset is written or an answer dropped.
THEOREM CrashesLoseFew == UpdatesSpec => []CrashLosesOne
<1>1. UpdatesInit => CrashInv
  BY InitCrash
<1>2. CrashInv /\ [UpdatesNext]_updVars => CrashInv'
  BY StepCrash
<1>3. CrashInv => CrashLosesOne
  BY DEF CrashInv, Orderly, FewLost, Lost, Busy, CrashLosesOne
<1> QED
  BY <1>1, <1>2, <1>3, PTL DEF UpdatesSpec

--------------------------------------------------------------------------------
(***************************************************************************)
(* TelegramOutbox.                                                         *)
(***************************************************************************)
\* A row that the drain holds waits, or went with its chat.
HeldWaits ==
    /\ \A n \in batch : outbox[n] \in {"pending", "gone"}
    /\ sending.row # NoRow => outbox[sending.row] \in {"pending", "gone"}

\* Nothing but a row in hand has an answer, and a positive one means that it was seen.
AnswerIsForRow ==
    /\ sending.said # "nothing" => sending.row # NoRow
    /\ sending.said = "ok" => sending.row \in shown
    /\ sending.row # NoRow => sending.row \notin batch

\* A row that may still be sent does not know of any delivery, but for the one whose
\* answer is being recorded.
Knows(n) == sending.row = n /\ sending.said = "ok"
LearnedOnce ==
    \A n \in Notices :
        /\ learned[n] <= 1
        /\ Knows(n) => learned[n] = 1
        /\ n \in batch => learned[n] = 0
        /\ sending.row = n /\ n # NoRow /\ sending.said # "ok" => learned[n] = 0
        /\ outbox[n] \in {"none", "pending", "failed"} /\ ~Knows(n) => learned[n] = 0

\* Memory knows all findings of the scan while the process lives.
AllSwept == ~restarted => stored \subseteq since /\ (scan = "idle" => stored = {})

OutInv == OutboxTypeOK /\ HeldWaits /\ AnswerIsForRow /\ LearnedOnce /\ AllSwept

--------------------------------------------------------------------------------
LEMMA InitOut == OutboxInit => OutInv
<1> SUFFICES ASSUME OutboxInit PROVE OutInv
  OBVIOUS
<1>1. /\ NotSending \in [row : Notices \cup {NoRow}, said : {"nothing", "ok", "error"}]
      /\ NotSending.row = NoRow /\ NotSending.said = "nothing"
  BY DEF NotSending
<1>2. OutboxTypeOK
  BY <1>1 DEF OutboxInit, OutboxTypeOK
<1> QED
  BY <1>1, <1>2 DEF OutboxInit, OutInv, HeldWaits, AnswerIsForRow, LearnedOnce, AllSwept, Knows

\* New rows wait, and nothing else about the rows changes.
LEMMA EnqueueIs ==
    ASSUME OutInv, NEW E, Enqueue(E)
    PROVE  /\ outbox' \in [Notices -> {"none", "pending", "sent", "failed", "gone"}]
           /\ \A n \in Notices : outbox'[n] = outbox[n]
                                 \/ (outbox[n] = "none" /\ outbox'[n] = "pending")
BY DEF Enqueue, OutInv, OutboxTypeOK

LEMMA ScanKeeps ==
    ASSUME OutInv,
           ScanStarts \/ (\E f \in Findings : StoreFinding(f)) \/ PhaseFinished \/ ScanFinished
    PROVE  OutInv'
<1>1. /\ UNCHANGED <<botOn, chat, attempts, senderVars, history>>
      /\ outbox' \in [Notices -> {"none", "pending", "sent", "failed", "gone"}]
      /\ \A n \in Notices : outbox'[n] = outbox[n] \/ (outbox[n] = "none" /\ outbox'[n] = "pending")
  <2>1. CASE outbox' = outbox /\ \E f \in Findings : StoreFinding(f)
    BY <2>1 DEF StoreFinding, OutInv, OutboxTypeOK
  <2>2. CASE ScanStarts
    BY <2>2, EnqueueIs DEF ScanStarts
  <2>3. CASE PhaseFinished
    BY <2>3, EnqueueIs DEF PhaseFinished, scanVars
  <2>4. CASE ScanFinished
    BY <2>4, EnqueueIs DEF ScanFinished
  <2> QED
    BY <2>1, <2>2, <2>3, <2>4 DEF StoreFinding
<1>2. /\ scan' \in {"idle", "running", "done"} /\ since' \subseteq Findings
      /\ stored' \subseteq Findings
  BY DEF ScanStarts, StoreFinding, PhaseFinished, ScanFinished, scanVars, OutInv, OutboxTypeOK
<1>3. OutboxTypeOK'
  BY <1>1, <1>2 DEF OutInv, OutboxTypeOK, senderVars, history
<1>4. HeldWaits' /\ AnswerIsForRow' /\ LearnedOnce'
  BY <1>1 DEF OutInv, OutboxTypeOK, HeldWaits, AnswerIsForRow, LearnedOnce, Knows, senderVars
<1>5. AllSwept'
  BY DEF ScanStarts, StoreFinding, PhaseFinished, ScanFinished, scanVars, history, OutInv, AllSwept
<1> QED
  BY <1>3, <1>4, <1>5 DEF OutInv

LEMMA DrainKeeps ==
    ASSUME OutInv, DrainStart \/ (\E n \in Notices : DrainNext(n))
    PROVE  OutInv'
<1>1. CASE DrainStart
  <2>1. PICK S \in SUBSET Due : batch' = S
    BY <1>1 DEF DrainStart
  <2>2. \A n \in S : n \in Notices /\ outbox[n] = "pending" /\ sending.row = NoRow /\ ~Knows(n)
    BY <1>1, <2>1 DEF DrainStart, Due, NotSending, Knows
  <2>3. sending = NotSending /\ UNCHANGED <<botOn, chat, outbox, attempts, sending, shown, learned,
                                           scanVars, history>>
    BY <1>1 DEF DrainStart
  <2> QED
    BY <2>1, <2>2, <2>3 DEF OutInv, OutboxTypeOK, HeldWaits, AnswerIsForRow, LearnedOnce, AllSwept,
                            Knows, NotSending, scanVars, history
<1>2. ASSUME NEW n \in Notices, DrainNext(n) PROVE OutInv'
  <2>1. /\ n \in batch /\ batch' = batch \ {n} /\ sending.said = "nothing"
        /\ sending'.row = n /\ sending'.said = "nothing"
        /\ sending' \in [row : Notices \cup {NoRow}, said : {"nothing", "ok", "error"}]
        /\ UNCHANGED <<botOn, chat, outbox, attempts, shown, learned, scanVars, history>>
    BY <1>2 DEF DrainNext, NotSending
  <2> QED
    BY <2>1 DEF OutInv, OutboxTypeOK, HeldWaits, AnswerIsForRow, LearnedOnce, AllSwept, Knows,
                scanVars, history
<1> QED
  BY <1>1, <1>2

LEMMA SendKeeps ==
    ASSUME OutInv, Send
    PROVE  OutInv'
<1> DEFINE n == sending.row
<1>1. /\ n \in Notices /\ n # NoRow /\ sending.said = "nothing"
      /\ UNCHANGED <<botOn, chat, outbox, attempts, batch, scanVars, history>>
      /\ learned[n] = 0
  BY DEF Send, OutInv, OutboxTypeOK, LearnedOnce
<1>2. CASE /\ sending' = [sending EXCEPT !.said = "ok"]
           /\ shown' = shown \cup {n} /\ learned' = [learned EXCEPT ![n] = @ + 1]
  <2>1. /\ sending'.row = n /\ sending'.said = "ok" /\ n \in shown'
        /\ sending' \in [row : Notices \cup {NoRow}, said : {"nothing", "ok", "error"}]
    BY <1>1, <1>2 DEF OutInv, OutboxTypeOK
  <2>2. /\ learned' \in [Notices -> Nat] /\ learned'[n] = 1
        /\ \A m \in Notices : m # n => learned'[m] = learned[m]
    BY <1>1, <1>2 DEF OutInv, OutboxTypeOK
  <2>3. OutboxTypeOK'
    BY <1>1, <1>2, <2>1, <2>2 DEF OutInv, OutboxTypeOK, scanVars, history
  <2>4. LearnedOnce'
    BY <1>1, <2>1, <2>2 DEF OutInv, LearnedOnce, Knows, AnswerIsForRow
  <2> QED
    BY <1>1, <2>1, <2>3, <2>4 DEF OutInv, HeldWaits, AnswerIsForRow, AllSwept, scanVars, history
<1>3. CASE /\ sending' = [sending EXCEPT !.said = "error"]
           /\ shown' \in {shown, shown \cup {n}} /\ UNCHANGED learned
  <2>1. /\ sending'.row = n /\ sending'.said = "error" /\ shown' \subseteq Notices
        /\ sending' \in [row : Notices \cup {NoRow}, said : {"nothing", "ok", "error"}]
    BY <1>1, <1>3 DEF OutInv, OutboxTypeOK
  <2> QED
    BY <1>1, <1>3, <2>1 DEF OutInv, OutboxTypeOK, HeldWaits, AnswerIsForRow, LearnedOnce, AllSwept,
                            Knows, scanVars, history
<1> QED
  BY <1>2, <1>3 DEF Send

LEMMA RecordKeeps ==
    ASSUME OutInv, RecordSent \/ RecordError \/ RecordNothing \/ OutboxRestart
    PROVE  OutInv'
<1> DEFINE n == sending.row
<1>0. /\ NotSending \in [row : Notices \cup {NoRow}, said : {"nothing", "ok", "error"}]
      /\ NotSending.row = NoRow /\ NotSending.said = "nothing"
  BY DEF NotSending
<1>1. sending.said # "nothing" => n \in Notices /\ n # NoRow /\ outbox[n] \in {"pending", "gone"}
                                  /\ n \notin batch
  BY DEF OutInv, OutboxTypeOK, AnswerIsForRow, HeldWaits
<1>2. /\ Unlearned \in [Notices -> Nat]
      /\ \A m \in Notices : Unlearned[m] = IF Knows(m) THEN 0 ELSE learned[m]
  BY <1>1 DEF Unlearned, OutInv, OutboxTypeOK, LearnedOnce, Knows
<1>3. CASE RecordSent
  <2>1. /\ outbox' \in [Notices -> {"none", "pending", "sent", "failed", "gone"}]
        /\ outbox'[n] \in {"sent", "gone"} /\ n \in Notices
        /\ \A m \in Notices : m # n => outbox'[m] = outbox[m]
    BY <1>1, <1>3 DEF RecordSent, OutInv, OutboxTypeOK
  <2>2. /\ sending' = NotSending
        /\ UNCHANGED <<botOn, chat, attempts, batch, shown, learned, scanVars, history>>
    BY <1>3 DEF RecordSent
  <2>3. OutboxTypeOK'
    BY <1>0, <2>1, <2>2 DEF OutInv, OutboxTypeOK, scanVars, history
  <2>4. HeldWaits' /\ AnswerIsForRow' /\ AllSwept'
    BY <1>0, <1>1, <1>3, <2>1, <2>2
       DEF RecordSent, OutInv, OutboxTypeOK, HeldWaits, AnswerIsForRow, AllSwept, scanVars, history
  <2>5. LearnedOnce'
    BY <1>0, <2>1, <2>2 DEF OutInv, LearnedOnce, Knows
  <2> QED
    BY <2>3, <2>4, <2>5 DEF OutInv
<1>4. CASE RecordError
  <2>1. /\ outbox' \in [Notices -> {"none", "pending", "sent", "failed", "gone"}]
        /\ attempts' \in [Notices -> Nat]
        /\ outbox'[n] \in {"pending", "failed", "gone"} /\ n \in Notices /\ sending.said = "error"
        /\ \A m \in Notices : m # n => outbox'[m] = outbox[m]
    BY <1>1, <1>4 DEF RecordError, OutInv, OutboxTypeOK
  <2>2. /\ sending' = NotSending
        /\ UNCHANGED <<botOn, chat, batch, shown, learned, scanVars, history>>
    BY <1>4 DEF RecordError
  <2>3. OutboxTypeOK'
    BY <1>0, <2>1, <2>2 DEF OutInv, OutboxTypeOK, scanVars, history
  <2>4. HeldWaits' /\ AnswerIsForRow' /\ AllSwept'
    BY <1>0, <1>1, <2>1, <2>2
       DEF OutInv, OutboxTypeOK, HeldWaits, AnswerIsForRow, AllSwept, scanVars, history
  <2>5. LearnedOnce'
    BY <1>0, <1>1, <2>1, <2>2 DEF OutInv, LearnedOnce, Knows
  <2> QED
    BY <2>3, <2>4, <2>5 DEF OutInv
<1>5. CASE RecordNothing
  <2>1. /\ sending' = NotSending /\ learned' = Unlearned /\ mishaps' \in Nat
        /\ UNCHANGED <<botOn, chat, outbox, attempts, batch, shown, scanVars, restarted>>
    BY <1>5 DEF RecordNothing, OutInv, OutboxTypeOK
  <2>2. OutboxTypeOK'
    BY <1>0, <1>2, <2>1 DEF OutInv, OutboxTypeOK, scanVars
  <2>3. HeldWaits' /\ AnswerIsForRow' /\ AllSwept'
    BY <1>0, <2>1 DEF OutInv, HeldWaits, AnswerIsForRow, AllSwept, scanVars
  <2>4. LearnedOnce'
    BY <1>0, <1>2, <2>1 DEF OutInv, LearnedOnce, Knows
  <2> QED
    BY <2>2, <2>3, <2>4 DEF OutInv
<1>6. CASE OutboxRestart
  <2>1. /\ sending' = NotSending /\ learned' = Unlearned /\ mishaps' \in Nat /\ batch' = {}
        /\ restarted' = TRUE /\ since' = {} /\ scan' \in {"idle", "running", "done"}
        /\ UNCHANGED <<botOn, chat, outbox, attempts, shown, stored>>
    BY <1>6 DEF OutboxRestart, OutInv, OutboxTypeOK
  <2>2. OutboxTypeOK'
    BY <1>0, <1>2, <2>1 DEF OutInv, OutboxTypeOK
  <2>3. HeldWaits' /\ AnswerIsForRow' /\ AllSwept'
    BY <1>0, <2>1 DEF OutInv, HeldWaits, AnswerIsForRow, AllSwept
  <2>4. LearnedOnce'
    BY <1>0, <1>2, <2>1 DEF OutInv, LearnedOnce, Knows
  <2> QED
    BY <2>2, <2>3, <2>4 DEF OutInv
<1> QED
  BY <1>3, <1>4, <1>5, <1>6

LEMMA OperatorKeeps ==
    ASSUME OutInv,
           RetryFailed \/ ToggleBot \/ \E c \in Chats : ToggleChat(c) \/ DeleteChat(c)
    PROVE  OutInv'
<1>1. CASE RetryFailed
  <2>1. /\ outbox' \in [Notices -> {"none", "pending", "sent", "failed", "gone"}]
        /\ attempts' \in [Notices -> Nat]
        /\ \A m \in Notices : outbox'[m] = outbox[m] \/ (outbox[m] = "failed" /\ outbox'[m] = "pending")
    BY <1>1 DEF RetryFailed, OutInv, OutboxTypeOK
  <2>2. /\ mishaps' \in Nat /\ UNCHANGED <<botOn, chat, senderVars, scanVars, restarted>>
    BY <1>1 DEF RetryFailed, OutInv, OutboxTypeOK
  <2>3. OutboxTypeOK'
    BY <2>1, <2>2 DEF OutInv, OutboxTypeOK, senderVars, scanVars
  <2> QED
    BY <2>1, <2>2, <2>3 DEF OutInv, OutboxTypeOK, HeldWaits, AnswerIsForRow, LearnedOnce, AllSwept,
                            Knows, senderVars, scanVars
<1>2. CASE ToggleBot
  BY <1>2 DEF ToggleBot, OutInv, OutboxTypeOK, HeldWaits, AnswerIsForRow, LearnedOnce, AllSwept,
              Knows, senderVars, scanVars
<1>3. ASSUME NEW c \in Chats, ToggleChat(c) PROVE OutInv'
  BY <1>3 DEF ToggleChat, OutInv, OutboxTypeOK, HeldWaits, AnswerIsForRow, LearnedOnce, AllSwept,
              Knows, senderVars, scanVars
<1>4. ASSUME NEW c \in Chats, DeleteChat(c) PROVE OutInv'
  <2>1. /\ outbox' \in [Notices -> {"none", "pending", "sent", "failed", "gone"}]
        /\ chat' \in [Chats -> {"on", "off", "gone"}]
        /\ \A m \in Notices : outbox'[m] = outbox[m] \/ (outbox[m] # "none" /\ outbox'[m] = "gone")
    BY <1>4 DEF DeleteChat, OutInv, OutboxTypeOK
  <2>2. /\ mishaps' \in Nat /\ UNCHANGED <<botOn, attempts, senderVars, scanVars, restarted>>
    BY <1>4 DEF DeleteChat, OutInv, OutboxTypeOK
  <2>3. OutboxTypeOK'
    BY <2>1, <2>2 DEF OutInv, OutboxTypeOK, senderVars, scanVars
  <2> QED
    BY <2>1, <2>2, <2>3 DEF OutInv, OutboxTypeOK, HeldWaits, AnswerIsForRow, LearnedOnce, AllSwept,
                            Knows, senderVars, scanVars
<1> QED
  BY <1>1, <1>2, <1>3, <1>4

LEMMA StepOut == OutInv /\ [OutboxNext]_outVars => OutInv'
<1> SUFFICES ASSUME OutInv, [OutboxNext]_outVars PROVE OutInv'
  OBVIOUS
<1>1. CASE UNCHANGED outVars
  BY <1>1 DEF outVars, OutInv, OutboxTypeOK, HeldWaits, AnswerIsForRow, LearnedOnce, AllSwept, Knows
<1> QED
  BY <1>1, ScanKeeps, DrainKeeps, SendKeeps, RecordKeeps, OperatorKeeps DEF OutboxNext

LEMMA AlwaysOut == OutboxSpec => []OutInv
<1>1. OutboxInit => OutInv
  BY InitOut
<1>2. OutInv /\ [OutboxNext]_outVars => OutInv'
  BY StepOut
<1> QED
  BY <1>1, <1>2, PTL DEF OutboxSpec

\* The variables keep their types.
THEOREM OutboxTypeCorrect == OutboxSpec => []OutboxTypeOK
<1>1. OutInv => OutboxTypeOK
  BY DEF OutInv
<1> QED
  BY <1>1, AlwaysOut, PTL

\* A chat sees a notice twice only if its row could not learn of the first time.
THEOREM RepeatsExplained == OutboxSpec => []RepeatsAreExplained
<1>1. OutInv => RepeatsAreExplained
  BY DEF OutInv, LearnedOnce, RepeatsAreExplained
<1> QED
  BY <1>1, AlwaysOut, PTL

\* The sweeps are lossless for a scan that ends in the process it began in.
THEOREM SweepsAreLossless == OutboxSpec => NoFindingSlips
<1>1. OutInv /\ [OutboxNext]_outVars =>
        [ScanFinished /\ ~restarted /\ botOn =>
           \A f \in stored : \A c \in Chats : chat[c] = "on" => outbox'[<<c, f>>] # "none"]_outVars
  <2> SUFFICES ASSUME OutInv, ScanFinished, ~restarted, botOn,
                      NEW f \in stored, NEW c \in Chats, chat[c] = "on"
               PROVE  outbox'[<<c, f>>] # "none"
    OBVIOUS
  <2>1. f \in Swept /\ <<c, f>> \in Notices
    BY DEF OutInv, OutboxTypeOK, AllSwept, Swept, Notices, Events
  <2>2. Enqueue(Swept \cup {"finish"})
    BY DEF ScanFinished
  <2> QED
    BY <2>1, <2>2 DEF Enqueue
<1> QED
  BY <1>1, AlwaysOut, PTL DEF OutboxSpec, NoFindingSlips

--------------------------------------------------------------------------------
(* The outbox implements NotificationLedger: initial states are initial states, *)
(* and every step is a step of the ledger or none.                              *)

LEMMA LedgerStarts == OutboxInit => Ledger!LedgerInit
BY DEF OutboxInit, Ledger!LedgerInit

LEMMA LedgerSteps == OutInv /\ [OutboxNext]_outVars => [Ledger!LedgerNext]_Ledger!ledgerVars
<1> SUFFICES ASSUME OutInv, [OutboxNext]_outVars
             PROVE  [Ledger!LedgerNext]_Ledger!ledgerVars
  OBVIOUS
<1>0. OutboxTypeOK
  BY DEF OutInv
<1>1. ASSUME UNCHANGED <<outbox, shown>> PROVE UNCHANGED Ledger!ledgerVars
  BY <1>1 DEF Ledger!ledgerVars
<1>2. ASSUME NEW E, Enqueue(E), UNCHANGED shown
      PROVE  Ledger!LedgerNext
  <2>1. PICK S \in SUBSET Notices :
           S = {n \in Notices : outbox[n] = "none" /\ outbox'[n] = "pending"}
    OBVIOUS
  <2>2. Ledger!Owe(S)
    BY <1>2, <2>1, EnqueueIs DEF Ledger!Owe
  <2> QED
    BY <2>2 DEF Ledger!LedgerNext
<1>3. CASE Send
  <2>1. sending.row \in Notices /\ outbox[sending.row] \in {"pending", "gone"} /\ outbox' = outbox
    BY <1>3 DEF Send, OutInv, OutboxTypeOK, HeldWaits
  <2>2. CASE shown' = shown \cup {sending.row}
    <3>1. Ledger!Tell(sending.row)
      BY <2>1, <2>2 DEF Ledger!Tell
    <3> QED
      BY <2>1, <3>1 DEF Ledger!LedgerNext
  <2>3. CASE shown' = shown
    BY <1>1, <2>1, <2>3
  <2> QED
    BY <1>3, <2>2, <2>3 DEF Send
<1>4. CASE RecordSent
  <2>0. PICK n \in Notices : n = sending.row
    BY <1>4 DEF RecordSent, OutInv, OutboxTypeOK
  <2>1. /\ n \in shown /\ outbox[n] \in {"pending", "gone"} /\ shown' = shown
        /\ outbox' = [outbox EXCEPT ![n] = IF @ = "gone" THEN @ ELSE "sent"]
    BY <1>4, <2>0 DEF RecordSent, OutInv, OutboxTypeOK, HeldWaits, AnswerIsForRow
  <2>2. CASE outbox[n] = "gone"
    BY <1>0, <1>1, <2>1, <2>2 DEF OutboxTypeOK
  <2>3. CASE outbox[n] = "pending"
    <3>1. outbox'[n] = "sent" /\ \A m \in Notices : m # n => outbox'[m] = outbox[m]
      BY <1>0, <2>1, <2>3 DEF OutboxTypeOK
    <3>2. Ledger!Settle(n)
      BY <2>1, <2>3, <3>1 DEF Ledger!Settle
    <3> QED
      BY <3>2 DEF Ledger!LedgerNext
  <2> QED
    BY <2>1, <2>2, <2>3
<1>5. CASE RecordError
  <2>0. PICK n \in Notices : n = sending.row
    BY <1>5 DEF RecordError, OutInv, OutboxTypeOK
  <2>1. outbox[n] \in {"pending", "gone"} /\ shown' = shown
    BY <1>5, <2>0 DEF RecordError, OutInv, OutboxTypeOK, HeldWaits
  <2>2. CASE outbox' = outbox
    BY <1>1, <2>1, <2>2
  <2>3. CASE outbox' # outbox
    <3>1. /\ outbox[n] = "pending" /\ outbox'[n] = "failed"
          /\ \A m \in Notices : m # n => outbox'[m] = outbox[m]
      BY <1>0, <1>5, <2>0, <2>1, <2>3 DEF RecordError, OutboxTypeOK
    <3>2. Ledger!Drop({n})
      BY <2>1, <3>1 DEF Ledger!Drop
    <3> QED
      BY <3>2 DEF Ledger!LedgerNext
  <2> QED
    BY <2>2, <2>3
<1>6. CASE RetryFailed
  <2>1. PICK S \in SUBSET Notices : S = {n \in Notices : outbox[n] = "failed"}
    OBVIOUS
  <2>2. Ledger!Renew(S)
    BY <1>6, <2>1 DEF RetryFailed, Ledger!Renew, senderVars
  <2> QED
    BY <2>2 DEF Ledger!LedgerNext
<1>7. ASSUME NEW c \in Chats, DeleteChat(c) PROVE Ledger!LedgerNext
  <2> DEFINE S == {n \in Notices : n[1] = c}
  <2>1. Ledger!Drop(S)
    BY <1>0, <1>7 DEF DeleteChat, Ledger!Drop, senderVars, OutboxTypeOK
  <2> QED
    BY <2>1 DEF Ledger!LedgerNext
<1> QED
  <2>1. CASE \/ \E f \in Findings : StoreFinding(f)
             \/ DrainStart \/ \E n \in Notices : DrainNext(n)
             \/ RecordNothing \/ ToggleBot \/ \E c \in Chats : ToggleChat(c)
             \/ OutboxRestart \/ UNCHANGED outVars
    BY <1>1, <2>1 DEF StoreFinding, DrainStart, DrainNext, RecordNothing, ToggleBot, ToggleChat,
                      OutboxRestart, outVars, senderVars
  <2>2. CASE ScanStarts \/ PhaseFinished \/ ScanFinished
    BY <1>2, <2>2 DEF ScanStarts, PhaseFinished, ScanFinished, senderVars
  <2> QED
    BY <1>3, <1>4, <1>5, <1>6, <1>7, <2>1, <2>2 DEF OutboxNext

\* The outbox keeps the promise of the ledger: what is owed stays owed until it was
\* told or is given up, and what was never owed is never told.
THEOREM OutboxKeepsLedger == OutboxSpec => KeepsLedger
<1>1. OutboxInit => Ledger!LedgerInit
  BY LedgerStarts
<1>2. OutInv /\ [OutboxNext]_outVars => [Ledger!LedgerNext]_Ledger!ledgerVars
  BY LedgerSteps
<1> QED
  BY <1>1, <1>2, AlwaysOut, PTL DEF OutboxSpec, KeepsLedger, Ledger!LedgerSpec
================================================================================
