----------------------- MODULE DynamoIdempotencyProofs -----------------------
(***************************************************************************)
(* Theorems about DynamoIdempotency, for every set of keys, clients and    *)
(* actions.  The invariant ties the place of a client to the item of its   *)
(* key: a client that works holds the item, so whatever is claimable,      *)
(* deletable or completed belongs to a client that does not work.          *)
(***************************************************************************)
EXTENDS DynamoIdempotency, TLAPS

Active == Claiming \cup Working

\* A client that won and has not stored its result holds the item of its key.
WorkerHolds(c) ==
    /\ pc[c] \in Working => Item(c) = [state |-> "in_progress", owner |-> c]
    /\ pc[c] = "write" => seen[c] = Item(c)

\* The place of a client tells whether its handler was called and its result
\* stored.
HistoryPlaced(c) ==
    /\ pc[c] \in Claiming \cup {"claimed"} => ~begun[c]
    /\ pc[c] \in {"running", "write"} => begun[c]
    /\ pc[c] \in Active => ~settled[c]
    /\ expires /\ lapsed[c] => pc[c] \notin Active

\* A completed item was stored by its owner.
ItemSettled(k) ==
    /\ item[k] # NoItem => KeyOf[item[k].owner] = k
    /\ item[k].state = "completed" => settled[item[k].owner] /\ begun[item[k].owner]

\* What a client has read was true, and a completed record stays settled.
SeenSettled(c) ==
    /\ seen[c] # NoItem => KeyOf[seen[c].owner] = KeyOf[c]
    /\ seen[c].state = "completed" => settled[seen[c].owner]
    /\ pc[c] \in {"replace", "reread"} => ExpiredCompleted(seen[c])

\* A replay is answered once, for a completed record of the same action.
ReplayPlaced(c) ==
    answer[c] = "replay" =>
        /\ pc[c] = "answered"
        /\ seen[c].state = "completed"
        /\ FingerprintOf[seen[c].owner] = FingerprintOf[c]

TableInv ==
    /\ TypeOK
    /\ UnsettledKept
    /\ \A k \in Keys : ItemSettled(k)
    /\ \A c \in Clients :
          WorkerHolds(c) /\ HistoryPlaced(c) /\ SeenSettled(c) /\ ReplayPlaced(c)

-----------------------------------------------------------------------------
(* What is free to be claimed or deleted *)

Free(i) == i = NoItem \/ ExpiredCompleted(i)

\* Nobody works on a key whose item is missing or has lapsed as completed, and
\* no unsettled handler needs it.
LEMMA FreeIsUnused ==
    ASSUME TableInv, NEW c \in Clients, Free(Item(c)),
           NEW d \in Clients, KeyOf[d] = KeyOf[c]
    PROVE  /\ pc[d] \notin Working
           /\ begun[d] /\ ~settled[d] => expires /\ lapsed[d]
  <1>1. Item(d).state \in {"absent", "completed"}
    BY DEF Free, Item, NoItem, ExpiredCompleted
  <1>2. pc[d] \notin Working
    BY <1>1 DEF TableInv, WorkerHolds
  <1>3. begun[d] /\ ~settled[d] => expires /\ lapsed[d]
    BY <1>1 DEF TableInv, UnsettledKept
  <1> QED BY <1>2, <1>3

\* The effects of the steps of a claim on everything but its own client.
LEMMA ClaimedKeeps ==
    ASSUME TableInv, NEW c \in Clients, Free(Item(c)), pc[c] \in {"put", "replace"},
           Claimed(c), UNCHANGED <<expires, lapsed, seen, begun, settled>>,
           NEW place \in {"claimed", "get", "reread", "raised"}, Goto(c, place),
           place = "reread" => pc[c] = "replace",
           UNCHANGED answer \/ answer' = [answer EXCEPT ![c] = "claimed"],
           UNCHANGED scanned
    PROVE  TableInv'
  <1>1. TypeOK'
    BY ClientsAreTyped, ZenonT(40)
    DEF TableInv, TypeOK, Claimed, Goto, Items, Records, Places, Claiming, Working, Answers
  <1>2. ASSUME NEW k \in Keys PROVE ItemSettled(k)'
    BY ClientsAreTyped DEF TableInv, TypeOK, ItemSettled, Claimed, NoItem
  <1>3. ASSUME NEW d \in Clients
        PROVE  WorkerHolds(d)' /\ HistoryPlaced(d)' /\ SeenSettled(d)' /\ ReplayPlaced(d)'
    <2>1. WorkerHolds(d)'
      BY <1>3, FreeIsUnused, ClientsAreTyped, ZenonT(40)
      DEF TableInv, TypeOK, WorkerHolds, Claimed, Goto, Item, Working
    <2>2. HistoryPlaced(d)'
      BY <1>3 DEF TableInv, TypeOK, HistoryPlaced, Goto, Claiming, Working, Active
    <2>3. SeenSettled(d)'
      BY <1>3 DEF TableInv, TypeOK, SeenSettled, Goto, ExpiredCompleted
    <2>4. ReplayPlaced(d)'
      BY <1>3 DEF TableInv, TypeOK, ReplayPlaced, Goto
    <2> QED BY <2>1, <2>2, <2>3, <2>4
  <1>4. UnsettledKept'
    BY FreeIsUnused, ClientsAreTyped
    DEF TableInv, TypeOK, UnsettledKept, HistoryPlaced, Claimed, Item, Claiming
  <1> QED BY <1>1, <1>2, <1>3, <1>4 DEF TableInv

\* A claim that goes on, fails or is abandoned without a write.
LEMMA ClaimMoves ==
    ASSUME TableInv, NEW c \in Clients, pc[c] \in Claiming,
           UNCHANGED <<expires, item, lapsed, answer, begun, settled, scanned>>,
           NEW place \in {"put", "get", "replace", "reread", "raised"}, Goto(c, place),
           seen' = seen \/ seen' = [seen EXCEPT ![c] = Item(c)],
           place \in {"replace", "reread"} => ExpiredCompleted(seen'[c])
    PROVE  TableInv'
  <1>1. TypeOK'
    BY ClientsAreTyped DEF TableInv, TypeOK, Goto, Item, Places, Claiming, Working
  <1>2. ASSUME NEW k \in Keys PROVE ItemSettled(k)'
    BY DEF TableInv, ItemSettled
  <1>3. ASSUME NEW d \in Clients
        PROVE  WorkerHolds(d)' /\ HistoryPlaced(d)' /\ SeenSettled(d)' /\ ReplayPlaced(d)'
    <2>1. WorkerHolds(d)'
      BY <1>3, ClientsAreTyped DEF TableInv, TypeOK, WorkerHolds, Goto, Item, Working, Claiming
    <2>2. HistoryPlaced(d)'
      BY <1>3 DEF TableInv, TypeOK, HistoryPlaced, Goto, Claiming, Working, Active
    <2>3. SeenSettled(d)'
      <3>1. ItemSettled(KeyOf[c])
        BY ClientsAreTyped DEF TableInv
      <3> QED
        BY <1>3, <3>1, ClientsAreTyped
        DEF TableInv, TypeOK, SeenSettled, ItemSettled, Item, Goto, ExpiredCompleted, Items, Records
    <2>4. ReplayPlaced(d)'
      BY <1>3 DEF TableInv, TypeOK, ReplayPlaced, Goto, Claiming
    <2> QED BY <2>1, <2>2, <2>3, <2>4
  <1>4. UnsettledKept'
    BY DEF TableInv, UnsettledKept, Item
  <1> QED BY <1>1, <1>2, <1>3, <1>4 DEF TableInv

\* A claim that is refused for a record, read now or before.
LEMMA RefusedKeeps ==
    ASSUME TableInv, NEW c \in Clients, pc[c] \in Claiming,
           UNCHANGED <<expires, item, lapsed, begun, settled, scanned>>,
           NEW i \in Records, i = Item(c) \/ i = seen[c],
           NEW status \in {"existing", "replay", "conflict", "expired"}, Refused(c, i, status),
           status = "replay" => status = Compared(c, i)
    PROVE  TableInv'
  <1>1. TypeOK'
    BY DEF TableInv, TypeOK, Refused, Goto, Items, Places, Answers
  <1>2. ASSUME NEW k \in Keys PROVE ItemSettled(k)'
    BY DEF TableInv, ItemSettled
  <1>3. ASSUME NEW d \in Clients
        PROVE  WorkerHolds(d)' /\ HistoryPlaced(d)' /\ SeenSettled(d)' /\ ReplayPlaced(d)'
    <2>1. WorkerHolds(d)'
      BY <1>3, ClientsAreTyped
      DEF TableInv, TypeOK, WorkerHolds, Refused, Goto, Item, Working, Claiming
    <2>2. HistoryPlaced(d)'
      BY <1>3 DEF TableInv, TypeOK, HistoryPlaced, Refused, Goto, Claiming, Working, Active
    <2>3. SeenSettled(d)'
      <3>1. ItemSettled(KeyOf[c])
        BY ClientsAreTyped DEF TableInv
      <3> QED
        BY <1>3, <3>1, ClientsAreTyped
        DEF TableInv, TypeOK, SeenSettled, ItemSettled, Item, Refused, Goto, ExpiredCompleted,
            Records, NoItem
    <2>4. ReplayPlaced(d)'
      <3>1. status = "replay" =>
                i.state = "completed" /\ FingerprintOf[i.owner] = FingerprintOf[c]
        BY DEF Compared, Records
      <3> QED BY <1>3, <3>1 DEF TableInv, TypeOK, ReplayPlaced, Refused, Goto, Claiming
    <2> QED BY <2>1, <2>2, <2>3, <2>4
  <1>4. UnsettledKept'
    BY DEF TableInv, UnsettledKept, Item
  <1> QED BY <1>1, <1>2, <1>3, <1>4 DEF TableInv

\* A write of a claim, as put_item of ClaimPut and of ClaimReplace.
LEMMA WritesKeep ==
    ASSUME TableInv, NEW c \in Clients, Free(Item(c)), pc[c] \in {"put", "replace"},
           NEW next \in {"get", "reread"}, next = "reread" <=> pc[c] = "replace",
           Writes(c, next), UNCHANGED <<expires, lapsed, seen, begun, settled, scanned>>
    PROVE  TableInv'
  <1>1. CASE Claimed(c) /\ Wins(c)
    BY <1>1, ClaimedKeeps DEF Wins
  <1>2. CASE Claimed(c) /\ Goto(c, next) /\ UNCHANGED answer
    BY <1>2, ClaimedKeeps
  <1>3. CASE Fails(c) /\ Claimed(c)
    BY <1>3, ClaimedKeeps DEF Fails
  <1>4. CASE Fails(c) /\ UNCHANGED item
    BY <1>4, ClaimMoves DEF Fails, Claiming
  <1> QED BY <1>1, <1>2, <1>3, <1>4 DEF Writes

LEMMA ClaimsKeep == ASSUME TableInv, NEW c \in Clients, Claims(c) PROVE TableInv'
  <1>1. Item(c) \in Items /\ seen[c] \in Items
    BY ClientsAreTyped DEF TableInv, TypeOK, Item
  <1>2. CASE ClaimPut(c)
    <2>1. CASE Item(c) = NoItem /\ Writes(c, "get")
      BY <1>2, <2>1, WritesKeep DEF ClaimPut, Free
    <2>2. CASE Goto(c, "get") /\ UNCHANGED <<item, answer>>
      BY <1>2, <2>2, ClaimMoves DEF ClaimPut, Claiming
    <2>3. CASE Fails(c) /\ UNCHANGED item
      BY <1>2, <2>3, ClaimMoves DEF ClaimPut, Claiming, Fails
    <2> QED BY <1>2, <2>1, <2>2, <2>3 DEF ClaimPut
  <1>3. CASE ClaimGet(c)
    <2> DEFINE i == Item(c)
    <2>1. CASE Goto(c, "put") /\ UNCHANGED <<seen, answer>>
      BY <1>3, <2>1, ClaimMoves DEF ClaimGet, Claiming
    <2>2. CASE /\ ExpiredCompleted(i)
               /\ seen' = [seen EXCEPT ![c] = i]
               /\ Goto(c, "replace")
               /\ UNCHANGED answer
      <3>1. ExpiredCompleted(seen'[c])
        BY <2>2 DEF TableInv, TypeOK
      <3> QED BY <1>3, <2>2, <3>1, ClaimMoves DEF ClaimGet, Claiming
    <2>3. CASE i # NoItem /\ Refused(c, i, Compared(c, i))
      <3>1. i \in Records /\ Compared(c, i) \in {"existing", "replay", "conflict"}
        BY <1>1, <2>3 DEF Items, Compared
      <3> QED BY <1>3, <2>3, <3>1, RefusedKeeps DEF ClaimGet, Claiming
    <2>4. CASE Fails(c) /\ UNCHANGED seen
      BY <1>3, <2>4, ClaimMoves DEF ClaimGet, Claiming, Fails
    <2> QED BY <1>3, <2>1, <2>2, <2>3, <2>4 DEF ClaimGet
  <1>4. CASE ClaimReplace(c)
    <2>0. ExpiredCompleted(seen[c])
      BY <1>4 DEF ClaimReplace, TableInv, SeenSettled
    <2>1. CASE Replaceable(Item(c)) /\ Writes(c, "reread")
      BY <1>4, <2>1, WritesKeep DEF ClaimReplace, Replaceable, Free
    <2>2. CASE Goto(c, "reread") /\ UNCHANGED <<item, answer>>
      BY <1>4, <2>0, <2>2, ClaimMoves DEF ClaimReplace, Claiming
    <2>3. CASE Fails(c) /\ UNCHANGED item
      BY <1>4, <2>3, ClaimMoves DEF ClaimReplace, Claiming, Fails
    <2> QED BY <1>4, <2>1, <2>2, <2>3 DEF ClaimReplace
  <1>5. CASE ClaimReread(c)
    <2> DEFINE i == IF Item(c) = NoItem THEN seen[c] ELSE Item(c)
               status == IF ExpiredCompleted(i) THEN "expired" ELSE Compared(c, i)
    <2>1. CASE Refused(c, i, status)
      <3>1. ExpiredCompleted(seen[c])
        BY <1>5 DEF ClaimReread, TableInv, SeenSettled
      <3>2. i \in Records /\ (i = Item(c) \/ i = seen[c])
        BY <1>1, <3>1 DEF Items, NoItem, ExpiredCompleted
      <3>3. /\ status \in {"existing", "replay", "conflict", "expired"}
            /\ status = "replay" => status = Compared(c, i)
        BY <3>2 DEF Compared
      <3> HIDE DEF i, status
      <3> QED BY <1>5, <2>1, <3>2, <3>3, RefusedKeeps DEF ClaimReread, Claiming
    <2>2. CASE Fails(c) /\ UNCHANGED seen
      BY <1>5, <2>2, ClaimMoves DEF ClaimReread, Claiming, Fails
    <2> QED BY <1>5, <2>1, <2>2 DEF ClaimReread
  <1> QED BY <1>2, <1>3, <1>4, <1>5 DEF Claims

-----------------------------------------------------------------------------
(* The steps of the holder, of gc and of time *)

LEMMA BeginKeeps == ASSUME TableInv, NEW c \in Clients, Begin(c) PROVE TableInv'
  <1>1. TypeOK'
    BY DEF TableInv, TypeOK, Begin, Goto, Places, Working
  <1>2. ASSUME NEW k \in Keys PROVE ItemSettled(k)'
    BY DEF TableInv, TypeOK, ItemSettled, Begin
  <1>3. ASSUME NEW d \in Clients
        PROVE  WorkerHolds(d)' /\ HistoryPlaced(d)' /\ SeenSettled(d)' /\ ReplayPlaced(d)'
    <2>1. WorkerHolds(d)'
      BY <1>3 DEF TableInv, TypeOK, WorkerHolds, Begin, Goto, Item, Working
    <2>2. HistoryPlaced(d)'
      BY <1>3 DEF TableInv, TypeOK, HistoryPlaced, Begin, Goto, Claiming, Working, Active
    <2>3. SeenSettled(d)'
      BY <1>3 DEF TableInv, TypeOK, SeenSettled, Begin, Goto, ExpiredCompleted
    <2>4. ReplayPlaced(d)'
      BY <1>3 DEF TableInv, TypeOK, ReplayPlaced, Begin, Goto
    <2> QED BY <2>1, <2>2, <2>3, <2>4
  <1>4. UnsettledKept'
    <2> SUFFICES ASSUME NEW d \in Clients, begun'[d], ~settled'[d], ~(expires' /\ lapsed'[d])
                 PROVE  Item(d)'.owner = d /\ Item(d)'.state \in {"in_progress", "uncertain"}
      BY DEF UnsettledKept
    <2>1. CASE d = c
      <3>1. Item(c) = [state |-> "in_progress", owner |-> c]
        BY DEF TableInv, WorkerHolds, Begin, Working
      <3> QED BY <2>1, <3>1 DEF Begin, Item
    <2>2. CASE d # c
      BY <2>2 DEF TableInv, TypeOK, UnsettledKept, Begin, Item
    <2> QED BY <2>1, <2>2
  <1> QED BY <1>1, <1>2, <1>3, <1>4 DEF TableInv

LEMMA UpdateGetKeeps == ASSUME TableInv, NEW c \in Clients, UpdateGet(c) PROVE TableInv'
  <1>1. TypeOK'
    BY ClientsAreTyped DEF TableInv, TypeOK, UpdateGet, Goto, Places, Working, Item
  <1>2. ASSUME NEW k \in Keys PROVE ItemSettled(k)'
    BY DEF TableInv, ItemSettled, UpdateGet
  <1>3. ASSUME NEW d \in Clients
        PROVE  WorkerHolds(d)' /\ HistoryPlaced(d)' /\ SeenSettled(d)' /\ ReplayPlaced(d)'
    <2>0. Item(c) = [state |-> "in_progress", owner |-> c]
      BY DEF TableInv, WorkerHolds, UpdateGet, Working
    <2>1. WorkerHolds(d)'
      BY <1>3 DEF TableInv, TypeOK, WorkerHolds, UpdateGet, Goto, Item, Working
    <2>2. HistoryPlaced(d)'
      BY <1>3 DEF TableInv, TypeOK, HistoryPlaced, UpdateGet, Goto, Claiming, Working, Active
    <2>3. SeenSettled(d)'
      BY <1>3, <2>0 DEF TableInv, TypeOK, SeenSettled, UpdateGet, Goto, ExpiredCompleted
    <2>4. ReplayPlaced(d)'
      BY <1>3 DEF TableInv, TypeOK, ReplayPlaced, UpdateGet, Goto
    <2> QED BY <2>1, <2>2, <2>3, <2>4
  <1>4. UnsettledKept'
    BY DEF TableInv, UnsettledKept, UpdateGet, Item
  <1> QED BY <1>1, <1>2, <1>3, <1>4 DEF TableInv

\* What the terminal write of a client replaces is its own open item.
LEMMA WriterOwns ==
    ASSUME TableInv, NEW c \in Clients, pc[c] = "write"
    PROVE  /\ Item(c) = [state |-> "in_progress", owner |-> c]
           /\ seen[c] = Item(c)
           /\ begun[c]
           /\ \A d \in Clients : KeyOf[d] = KeyOf[c] /\ pc[d] \in Working => d = c
  <1>1. Item(c) = [state |-> "in_progress", owner |-> c] /\ seen[c] = Item(c)
    BY DEF TableInv, WorkerHolds, Working
  <1>2. begun[c]
    BY DEF TableInv, HistoryPlaced
  <1>3. ASSUME NEW d \in Clients, KeyOf[d] = KeyOf[c], pc[d] \in Working PROVE d = c
    <2>1. Item(d) = [state |-> "in_progress", owner |-> d]
      BY <1>3 DEF TableInv, WorkerHolds
    <2>2. Item(d) = Item(c)
      BY <1>3 DEF Item
    <2>3. Item(d).owner = d /\ Item(c).owner = c
      BY <1>1, <2>1
    <2> QED BY <2>2, <2>3
  <1> QED BY <1>1, <1>2, <1>3

LEMMA UpdatePutKeeps == ASSUME TableInv, NEW c \in Clients, UpdatePut(c) PROVE TableInv'
  <1>0. pc[c] = "write"
    BY DEF UpdatePut
  <1>1. CASE Goto(c, "raised") /\ UNCHANGED <<item, settled>>
    <2>1. TypeOK'
      BY <1>1 DEF TableInv, TypeOK, UpdatePut, Goto, Places
    <2>2. ASSUME NEW k \in Keys PROVE ItemSettled(k)'
      BY <1>1 DEF TableInv, ItemSettled, UpdatePut
    <2>3. ASSUME NEW d \in Clients
          PROVE  WorkerHolds(d)' /\ HistoryPlaced(d)' /\ SeenSettled(d)' /\ ReplayPlaced(d)'
      BY <1>0, <1>1, <2>3
      DEF TableInv, TypeOK, WorkerHolds, HistoryPlaced, SeenSettled, ReplayPlaced, UpdatePut,
          Goto, Item, Claiming, Working, Active, ExpiredCompleted
    <2>4. UnsettledKept'
      BY <1>1 DEF TableInv, UnsettledKept, UpdatePut, Item
    <2> QED BY <2>1, <2>2, <2>3, <2>4 DEF TableInv
  <1>2. ASSUME NEW state \in {"completed", "uncertain"}, NEW place \in {"stored", "raised"},
               item' = [item EXCEPT ![KeyOf[c]] = [state |-> state, owner |-> seen[c].owner]],
               settled' = [settled EXCEPT ![c] = state = "completed"],
               Goto(c, place)
        PROVE  TableInv'
    <2>0. item' = [item EXCEPT ![KeyOf[c]] = [state |-> state, owner |-> c]]
      <3>1. seen[c].owner = c
        BY <1>0, WriterOwns
      <3> QED BY <1>2, <3>1
    <2>u. UNCHANGED <<expires, lapsed, seen, answer, begun, scanned>>
      BY DEF UpdatePut
    <2>s. /\ settled' \in [Clients -> BOOLEAN]
          /\ settled'[c] <=> state = "completed"
          /\ \A d \in Clients \ {c} : settled'[d] = settled[d]
      BY <1>2 DEF TableInv, TypeOK
    <2>p. /\ pc' \in [Clients -> Places]
          /\ pc'[c] \in {"stored", "raised"}
          /\ \A d \in Clients \ {c} : pc'[d] = pc[d]
      BY <1>2 DEF TableInv, TypeOK, Goto, Places
    <2>1. TypeOK'
      <3>1. item' \in [Keys -> Items]
        BY <2>0, ClientsAreTyped DEF TableInv, TypeOK, Items, Records
      <3> QED BY <2>u, <2>s, <2>p, <3>1 DEF TableInv, TypeOK
    <2>2. ASSUME NEW k \in Keys PROVE ItemSettled(k)'
      <3>1. settled[item[k].owner] => item[k].owner # c
        BY <1>0 DEF TableInv, HistoryPlaced, Active, Working
      <3>2. begun' = begun /\ begun[c]
        BY <1>0, <2>u, WriterOwns
      <3> QED
        BY <2>s, <2>0, <2>2, <3>1, <3>2, ClientsAreTyped
        DEF TableInv, TypeOK, ItemSettled, Items, Records, NoItem
    <2>3. ASSUME NEW d \in Clients
          PROVE  WorkerHolds(d)' /\ HistoryPlaced(d)' /\ SeenSettled(d)' /\ ReplayPlaced(d)'
      <3>1. WorkerHolds(d)'
        <4>1. CASE d = c
          BY <2>p, <4>1 DEF WorkerHolds, Working
        <4>2. CASE d # c
          <5>1. pc[d] \in Working => KeyOf[d] # KeyOf[c]
            BY <1>0, <2>3, <4>2, WriterOwns
          <5> QED
            BY <2>0, <2>u, <2>p, <2>3, <4>2, <5>1, ClientsAreTyped
            DEF TableInv, TypeOK, WorkerHolds, Item, Working
        <4> QED BY <4>1, <4>2
      <3>2. HistoryPlaced(d)'
        BY <1>0, <2>u, <2>s, <2>p, <2>3
        DEF TableInv, TypeOK, HistoryPlaced, Claiming, Working, Active
      <3>3. SeenSettled(d)'
        <4>1. ~settled[c]
          BY <1>0 DEF TableInv, HistoryPlaced, Active, Working
        <4> QED
          BY <1>0, <2>u, <2>s, <2>p, <2>3, <4>1
          DEF TableInv, TypeOK, SeenSettled, ExpiredCompleted, Items, Records, NoItem
      <3>4. ReplayPlaced(d)'
        BY <1>0, <2>u, <2>p, <2>3 DEF TableInv, ReplayPlaced
      <3> QED BY <3>1, <3>2, <3>3, <3>4
    <2>4. UnsettledKept'
      <3> SUFFICES ASSUME NEW d \in Clients, begun'[d], ~settled'[d], ~(expires' /\ lapsed'[d])
                   PROVE  Item(d)'.owner = d /\ Item(d)'.state \in {"in_progress", "uncertain"}
        BY DEF UnsettledKept
      <3>1. CASE d = c
        <4>1. Item(c)' = [state |-> state, owner |-> c]
          BY <2>0, ClientsAreTyped DEF TableInv, TypeOK, Item
        <4>2. state = "uncertain"
          BY <2>s, <3>1
        <4> QED BY <3>1, <4>1, <4>2
      <3>2. CASE d # c
        <4>1. Item(d).owner = d /\ Item(d).state \in {"in_progress", "uncertain"}
          BY <2>u, <2>s, <3>2 DEF TableInv, UnsettledKept
        <4>2. KeyOf[d] # KeyOf[c]
          <5>1. KeyOf[d] = KeyOf[c] => Item(d) = Item(c)
            BY DEF Item
          <5>2. Item(c).owner = c
            BY <1>0, WriterOwns
          <5> QED BY <3>2, <4>1, <5>1, <5>2
        <4> QED BY <2>0, <4>1, <4>2, ClientsAreTyped DEF TableInv, TypeOK, Item
      <3> QED BY <3>1, <3>2
    <2> QED BY <2>1, <2>2, <2>3, <2>4 DEF TableInv
  <1> QED BY <1>1, <1>2 DEF UpdatePut

LEMMA DiesKeeps == ASSUME TableInv, NEW c \in Clients, Dies(c) PROVE TableInv'
  <1>1. TypeOK'
    BY DEF TableInv, TypeOK, Dies, Goto, Places, Claiming, Working
  <1>2. ASSUME NEW k \in Keys PROVE ItemSettled(k)'
    BY DEF TableInv, ItemSettled, Dies
  <1>3. ASSUME NEW d \in Clients
        PROVE  WorkerHolds(d)' /\ HistoryPlaced(d)' /\ SeenSettled(d)' /\ ReplayPlaced(d)'
    BY <1>3
    DEF TableInv, TypeOK, WorkerHolds, HistoryPlaced, SeenSettled, ReplayPlaced, Dies, Goto, Item,
        Claiming, Working, Active, ExpiredCompleted
  <1>4. UnsettledKept'
    BY DEF TableInv, UnsettledKept, Dies, Item
  <1> QED BY <1>1, <1>2, <1>3, <1>4 DEF TableInv

LEMMA LapseKeeps == ASSUME TableInv, NEW c \in Clients, Lapse(c) PROVE TableInv'
  <1>1. TypeOK'
    BY DEF TableInv, TypeOK, Lapse
  <1>2. ASSUME NEW k \in Keys PROVE ItemSettled(k)'
    BY DEF TableInv, ItemSettled, Lapse
  <1>3. ASSUME NEW d \in Clients
        PROVE  WorkerHolds(d)' /\ HistoryPlaced(d)' /\ SeenSettled(d)' /\ ReplayPlaced(d)'
    BY <1>3
    DEF TableInv, TypeOK, WorkerHolds, HistoryPlaced, SeenSettled, ReplayPlaced, Lapse, Item,
        Active, ExpiredCompleted, Items, Records, NoItem
  <1>4. UnsettledKept'
    BY DEF TableInv, TypeOK, UnsettledKept, Lapse, Item
  <1> QED BY <1>1, <1>2, <1>3, <1>4 DEF TableInv

\* gc and the table delete what nobody needs any more.
LEMMA DeletedKeeps ==
    ASSUME TableInv, NEW k \in Keys, item[k] # NoItem, lapsed[item[k].owner],
           expires \/ item[k].state = "completed",
           item' = [item EXCEPT ![k] = NoItem], scanned' \subseteq Keys,
           UNCHANGED <<expires, lapsed, pc, seen, answer, begun, settled>>
    PROVE  TableInv'
  <1>1. TypeOK'
    BY DEF TableInv, TypeOK, Items
  <1>2. ASSUME NEW j \in Keys PROVE ItemSettled(j)'
    BY <1>2 DEF TableInv, TypeOK, ItemSettled, NoItem
  <1>3. ASSUME NEW d \in Clients
        PROVE  WorkerHolds(d)' /\ HistoryPlaced(d)' /\ SeenSettled(d)' /\ ReplayPlaced(d)'
    <2>1. ASSUME pc[d] \in Working, KeyOf[d] = k PROVE FALSE
      <3>1. item[k] = [state |-> "in_progress", owner |-> d]
        BY <1>3, <2>1 DEF TableInv, WorkerHolds, Item
      <3>2. expires /\ lapsed[d]
        BY <3>1
      <3> QED BY <1>3, <2>1, <3>2 DEF TableInv, HistoryPlaced, Active
    <2> QED
      BY <1>3, <2>1, ClientsAreTyped
      DEF TableInv, TypeOK, WorkerHolds, HistoryPlaced, SeenSettled, ReplayPlaced, Item, Working,
          ExpiredCompleted
  <1>4. UnsettledKept'
    BY ClientsAreTyped DEF TableInv, TypeOK, UnsettledKept, ItemSettled, Item
  <1> QED BY <1>1, <1>2, <1>3, <1>4 DEF TableInv

LEMMA TableInvInductive ==
    /\ Init => TableInv
    /\ TableInv /\ [Next]_vars => TableInv'
  <1>1. Init => TableInv
    <2> SUFFICES ASSUME Init PROVE TableInv
      OBVIOUS
    <2>1. TypeOK
      BY DEF Init, TypeOK, Items, Places, Claiming, Answers
    <2>2. \A k \in Keys : ItemSettled(k)
      BY DEF Init, ItemSettled, NoItem
    <2>3. ASSUME NEW c \in Clients
          PROVE  WorkerHolds(c) /\ HistoryPlaced(c) /\ SeenSettled(c) /\ ReplayPlaced(c)
      BY <2>3
      DEF Init, WorkerHolds, HistoryPlaced, SeenSettled, ReplayPlaced, NoItem, Working
    <2>4. UnsettledKept
      BY DEF Init, UnsettledKept
    <2> QED BY <2>1, <2>2, <2>3, <2>4 DEF TableInv
  <1>2. TableInv /\ [Next]_vars => TableInv'
    <2> SUFFICES ASSUME TableInv, [Next]_vars PROVE TableInv'
      OBVIOUS
    <2>1. ASSUME NEW c \in Clients, Claims(c) PROVE TableInv'
      BY <2>1, ClaimsKeep
    <2>2. ASSUME NEW c \in Clients, Begin(c) PROVE TableInv'
      BY <2>2, BeginKeeps
    <2>3. ASSUME NEW c \in Clients, Updates(c) PROVE TableInv'
      BY <2>3, UpdateGetKeeps, UpdatePutKeeps DEF Updates
    <2>4. ASSUME NEW c \in Clients, Dies(c) PROVE TableInv'
      BY <2>4, DiesKeeps
    <2>5. ASSUME NEW c \in Clients, Lapse(c) PROVE TableInv'
      BY <2>5, LapseKeeps
    <2>6. CASE UNCHANGED vars \/ GcScan
      <3>1. scanned' \subseteq Keys
        BY <2>6 DEF TableInv, TypeOK, GcScan, vars
      <3>2. UNCHANGED <<expires, item, lapsed, pc, seen, answer, begun, settled>>
        BY <2>6 DEF GcScan, vars
      <3> QED
        BY <3>1, <3>2
        DEF TableInv, TypeOK, ItemSettled, WorkerHolds, HistoryPlaced, SeenSettled, ReplayPlaced,
            UnsettledKept, Item, ExpiredCompleted
    <2>7. ASSUME NEW k \in Keys, GcDelete(k) PROVE TableInv'
      <3>1. scanned' \subseteq Keys
        BY <2>7 DEF TableInv, TypeOK, GcDelete
      <3>2. CASE item' = [item EXCEPT ![k] = NoItem] /\ ExpiredCompleted(item[k])
        <4>1. item[k].state = "completed" /\ lapsed[item[k].owner]
          BY <3>2 DEF ExpiredCompleted
        <4>2. item[k] # NoItem
          BY <4>1 DEF NoItem
        <4>3. UNCHANGED <<expires, lapsed, pc, seen, answer, begun, settled>>
          BY <2>7 DEF GcDelete
        <4> QED BY <3>1, <3>2, <4>1, <4>2, <4>3, DeletedKeeps
      <3>3. CASE UNCHANGED item
        BY <2>7, <3>1, <3>3
        DEF GcDelete, TableInv, TypeOK, ItemSettled, WorkerHolds, HistoryPlaced, SeenSettled,
            ReplayPlaced, UnsettledKept, Item, ExpiredCompleted
      <3> QED BY <2>7, <3>2, <3>3 DEF GcDelete
    <2>8. ASSUME NEW k \in Keys, TtlDelete(k) PROVE TableInv'
      <3>1. scanned' \subseteq Keys
        BY <2>8 DEF TableInv, TypeOK, TtlDelete
      <3> QED BY <2>8, <3>1, DeletedKeeps DEF TtlDelete
    <2> QED BY <2>1, <2>2, <2>3, <2>4, <2>5, <2>6, <2>7, <2>8 DEF Next
  <1> QED BY <1>1, <1>2

LEMMA TableInvHolds == Spec => []TableInv
  BY TableInvInductive, PTL DEF Spec

-----------------------------------------------------------------------------
(* What the table keeps, whether or not it expires items *)

\* Every variable keeps its type, and a refused claim carries a record.
THEOREM TableTypeCorrect == Spec => []TypeOK
  <1>1. TableInv => TypeOK
    BY DEF TableInv
  <1> QED BY <1>1, TableInvHolds, PTL

\* At most one process works on an operation key, although claim reads and
\* writes in separate requests that may fail after they were executed.
THEOREM OneWorkerPerKey == Spec => []OneWorker
  <1>1. TableInv => OneWorker
    <2> SUFFICES ASSUME TableInv, NEW c \in Clients, NEW d \in Clients, KeyOf[c] = KeyOf[d],
                        {pc[c], pc[d]} \subseteq Working
                 PROVE  c = d
      BY DEF OneWorker
    <2>1. Item(c).owner = c /\ Item(d).owner = d
      BY DEF TableInv, WorkerHolds
    <2>2. Item(c) = Item(d)
      BY DEF Item
    <2> QED BY <2>1, <2>2
  <1> QED BY <1>1, TableInvHolds, PTL

\* The record of a handler that was called and not settled is not replaced or
\* collected before it expires, and never where the table expires nothing.
THEOREM UnsettledRecordKept == Spec => []UnsettledKept
  <1>1. TableInv => UnsettledKept
    BY DEF TableInv
  <1> QED BY <1>1, TableInvHolds, PTL

\* A replayed result was stored by the owner of the record, for this action.
THEOREM ReplayOfSettledOnly == Spec => []ReplayIsSettled
  <1>1. TableInv => ReplayIsSettled
    <2> SUFFICES ASSUME TableInv, NEW c \in Clients, answer[c] = "replay"
                 PROVE  /\ settled[seen[c].owner]
                        /\ KeyOf[seen[c].owner] = KeyOf[c]
                        /\ FingerprintOf[seen[c].owner] = FingerprintOf[c]
      BY DEF ReplayIsSettled
    <2>1. seen[c].state = "completed" /\ FingerprintOf[seen[c].owner] = FingerprintOf[c]
      BY DEF TableInv, ReplayPlaced
    <2>2. seen[c] # NoItem
      BY <2>1 DEF NoItem
    <2> QED BY <2>1, <2>2 DEF TableInv, SeenSettled
  <1> QED BY <1>1, TableInvHolds, PTL

-----------------------------------------------------------------------------
(* The table implements the ledger *)

LEMMA LedgerEntries ==
    ASSUME TableInv, ~expires
    PROVE  /\ LedgerOfTable = [k \in Keys |-> Entry(item[k])]
           /\ \A i \in Items :
                 /\ Entry(i).holder = i.owner
                 /\ Entry(i).phase = "free" <=> i = NoItem
                 /\ Entry(i).phase = "open" <=> i.state \in {"in_progress", "uncertain"}
                 /\ Entry(i).phase = "lapsed" <=> ExpiredCompleted(i)
                 /\ Entry(i).begun <=> i # NoItem /\ begun[i.owner]
  <1>1. LedgerOfTable = [k \in Keys |-> Entry(item[k])]
    BY DEF LedgerOfTable
  <1>2. ASSUME NEW i \in Items
        PROVE  /\ Phase(i) = "free" <=> i = NoItem
               /\ Phase(i) = "open" <=> i.state \in {"in_progress", "uncertain"}
               /\ Phase(i) = "lapsed" <=> ExpiredCompleted(i)
    BY <1>2 DEF Phase, Items, Records, NoItem, ExpiredCompleted
  <1> QED BY <1>1, <1>2 DEF Entry

\* A step that leaves the entries alone leaves the ledger alone.
LEMMA LedgerStutters ==
    ASSUME UNCHANGED expires, expires \/ \A j \in Keys : Entry(item[j])' = Entry(item[j])
    PROVE  UNCHANGED LedgerOfTable
  <1>1. CASE expires
    <2>1. Entry(NoItem)' = Entry(NoItem)
      BY DEF Entry, Phase, NoItem
    <2> QED BY <1>1, <2>1 DEF LedgerOfTable
  <1>2. CASE ~expires
    BY <1>2 DEF LedgerOfTable
  <1> QED BY <1>1, <1>2

\* A claim that writes takes a key that is free or whose result has lapsed.
LEMMA ClaimedTakes ==
    ASSUME TableInv, ~expires, NEW c \in Clients, Free(Item(c)), pc[c] \in {"put", "replace"},
           Claimed(c), UNCHANGED <<expires, lapsed, begun>>
    PROVE  Ledger!Take(KeyOf[c], c)
  <1> DEFINE k == KeyOf[c]
  <1>1. k \in Keys /\ item[k] \in Items
    BY ClientsAreTyped DEF TableInv, TypeOK
  <1>2. Entry(item[k]).phase \in {"free", "lapsed"}
    BY <1>1, LedgerEntries DEF Free, Item
  <1>3. ~begun[c]
    BY DEF TableInv, HistoryPlaced, Claiming
  <1>4. item' = [item EXCEPT ![k] = [state |-> "in_progress", owner |-> c]]
    BY DEF Claimed
  <1>5. Entry(item[k])' = [phase |-> "open", holder |-> c, begun |-> FALSE]
    <2>1. item[k]' = [state |-> "in_progress", owner |-> c]
      BY <1>1, <1>4 DEF TableInv, TypeOK
    <2>2. item[k]' # NoItem
      BY <2>1 DEF NoItem
    <2>3. item'[k].state = "in_progress" /\ item'[k].owner = c
      BY <2>1
    <2>4. Phase(item[k])' = "open"
      BY <2>2, <2>3 DEF Phase, ExpiredCompleted
    <2>5. begun'[c] = FALSE
      BY <1>3 DEF TableInv, TypeOK
    <2> HIDE DEF k
    <2> QED BY <2>2, <2>3, <2>4, <2>5 DEF Entry
  <1>6. ASSUME NEW j \in Keys, j # k PROVE Entry(item[j])' = Entry(item[j])
    BY <1>4, <1>6 DEF TableInv, TypeOK, Entry, Phase, ExpiredCompleted
  <1> HIDE DEF k
  <1>7. LedgerOfTable' = [LedgerOfTable EXCEPT ![k] = [phase |-> "open", holder |-> c, begun |-> FALSE]]
    BY <1>1, <1>5, <1>6 DEF LedgerOfTable
  <1>8. LedgerOfTable[k].phase \in {"free", "lapsed"}
    BY <1>1, <1>2 DEF LedgerOfTable
  <1> QED BY <1>7, <1>8 DEF Ledger!Take, k

LEMMA ClaimsStep ==
    ASSUME TableInv, NEW c \in Clients, Claims(c)
    PROVE  UNCHANGED LedgerOfTable \/ Ledger!Take(KeyOf[c], c)
  <1>1. UNCHANGED <<expires, lapsed, begun>>
    BY DEF Claims, ClaimPut, ClaimGet, ClaimReplace, ClaimReread
  <1>2. CASE UNCHANGED item
    <2>1. \A j \in Keys : Entry(item[j])' = Entry(item[j])
      BY <1>1, <1>2 DEF Entry, Phase, ExpiredCompleted
    <2> QED BY <1>1, <2>1, LedgerStutters
  <1>3. CASE expires
    BY <1>1, <1>3, LedgerStutters
  <1>4. CASE Claimed(c) /\ Free(Item(c)) /\ pc[c] \in {"put", "replace"} /\ ~expires
    BY <1>1, <1>4, ClaimedTakes
  <1>5. \/ UNCHANGED item
        \/ Claimed(c) /\ Free(Item(c)) /\ pc[c] \in {"put", "replace"}
    <2>1. CASE ClaimPut(c)
      BY <2>1 DEF ClaimPut, Writes, Free
    <2>2. CASE ClaimReplace(c)
      BY <2>2 DEF ClaimReplace, Writes, Free, Replaceable
    <2>3. CASE ClaimGet(c) \/ ClaimReread(c)
      BY <2>3 DEF ClaimGet, ClaimReread
    <2> QED BY <2>1, <2>2, <2>3 DEF Claims
  <1> QED BY <1>2, <1>3, <1>4, <1>5

LEMMA BeginStep ==
    ASSUME TableInv, NEW c \in Clients, Begin(c)
    PROVE  UNCHANGED LedgerOfTable \/ Ledger!Begin(KeyOf[c])
  <1> DEFINE k == KeyOf[c]
  <1>1. k \in Keys /\ item[k] = [state |-> "in_progress", owner |-> c]
    BY ClientsAreTyped DEF TableInv, WorkerHolds, Item, Begin, Working
  <1>2. UNCHANGED <<expires, item, lapsed>> /\ begun' = [begun EXCEPT ![c] = TRUE] /\ ~begun[c]
    BY DEF Begin, TableInv, HistoryPlaced
  <1>3. CASE expires
    BY <1>2, <1>3, LedgerStutters
  <1>4. CASE ~expires
    <2>0. /\ item[k] # NoItem
          /\ Phase(item[k]) = "open" /\ Phase(item[k])' = "open"
          /\ begun'[c] = TRUE /\ begun[c] = FALSE
      <3>1. item[k] # NoItem /\ item'[k] # NoItem
        BY <1>1, <1>2 DEF NoItem
      <3>a. item[k].state = "in_progress" /\ item'[k].state = "in_progress"
        BY <1>1, <1>2
      <3>2. Phase(item[k]) = "open"
        BY <3>a, <3>1 DEF Phase, ExpiredCompleted
      <3>3. Phase(item[k])' = "open"
        BY <3>a, <3>1 DEF Phase, ExpiredCompleted
      <3>4. begun'[c] = TRUE /\ begun[c] = FALSE
        BY <1>2 DEF TableInv, TypeOK
      <3> QED BY <3>1, <3>2, <3>3, <3>4
    <2>o. item'[k] # NoItem /\ item[k].owner = c /\ item'[k].owner = c
      BY <1>1, <1>2, <2>0
    <2> HIDE DEF k
    <2>1. Entry(item[k]) = [phase |-> "open", holder |-> c, begun |-> FALSE]
      BY <2>o, <2>0 DEF Entry
    <2>2. Entry(item[k])' = [phase |-> "open", holder |-> c, begun |-> TRUE]
      BY <2>o, <2>0 DEF Entry
    <2>3. ASSUME NEW j \in Keys, j # k PROVE Entry(item[j])' = Entry(item[j])
      <3>1. item[j] # NoItem => item[j].owner # c
        BY <2>3 DEF TableInv, ItemSettled, k
      <3>2. (item'[j] # NoItem /\ begun'[item'[j].owner]) = (item[j] # NoItem /\ begun[item[j].owner])
        BY <1>2, <3>1 DEF TableInv, TypeOK
      <3>3. Phase(item[j])' = Phase(item[j])
        BY <1>2 DEF Phase, ExpiredCompleted
      <3> QED BY <1>2, <3>2, <3>3 DEF Entry
    <2>4. LedgerOfTable' = [LedgerOfTable EXCEPT ![k].begun = TRUE]
      <3>1. Entry(item[k])' = [Entry(item[k]) EXCEPT !.begun = TRUE]
        <4>1. [Entry(item[k]) EXCEPT !.begun = TRUE] =
                  [phase |-> Phase(item[k]), holder |-> item[k].owner, begun |-> TRUE]
          <5>1. ASSUME NEW x
                PROVE  [Entry(item[k]) EXCEPT !.begun = x] =
                           [phase |-> Phase(item[k]), holder |-> item[k].owner, begun |-> x]
            BY DEF Entry
          <5> QED BY <5>1, Zenon
        <4> QED BY <2>0, <2>o, <2>2, <4>1, Zenon
      <3>2. PICK e : e = Entry(item[k])'
        OBVIOUS
      <3>3. LedgerOfTable' = [LedgerOfTable EXCEPT ![k] = e]
        BY <1>1, <1>2, <1>4, <2>3, <3>2 DEF LedgerOfTable
      <3>4. LedgerOfTable[k] = Entry(item[k])
        BY <1>1, <1>4 DEF LedgerOfTable
      <3> QED BY <3>1, <3>2, <3>3, <3>4
    <2>5. LedgerOfTable[k].phase = "open" /\ ~LedgerOfTable[k].begun
      BY <1>1, <1>4, <2>1 DEF LedgerOfTable
    <2> QED BY <2>4, <2>5 DEF Ledger!Begin, k
  <1> QED BY <1>3, <1>4

\* A terminal write settles the key, or leaves it open as uncertain.
LEMMA UpdatePutStep ==
    ASSUME TableInv, NEW c \in Clients, UpdatePut(c)
    PROVE  UNCHANGED LedgerOfTable \/ Ledger!Settle(KeyOf[c])
  <1> DEFINE k == KeyOf[c]
  <1>0. UNCHANGED <<expires, lapsed, begun>> /\ pc[c] = "write"
    BY DEF UpdatePut
  <1>1. k \in Keys /\ item[k] = [state |-> "in_progress", owner |-> c] /\ seen[c] = item[k] /\ begun[c]
    BY <1>0, WriterOwns, ClientsAreTyped DEF Item
  <1>2. CASE expires
    BY <1>0, <1>2, LedgerStutters
  <1>3. CASE UNCHANGED item
    <2>1. \A j \in Keys : Entry(item[j])' = Entry(item[j])
      BY <1>0, <1>3 DEF Entry, Phase, ExpiredCompleted
    <2> QED BY <1>0, <2>1, LedgerStutters
  <1>4. ASSUME ~expires, NEW state \in {"completed", "uncertain"},
               item' = [item EXCEPT ![k] = [state |-> state, owner |-> seen[c].owner]]
        PROVE  UNCHANGED LedgerOfTable \/ Ledger!Settle(k)
    <2>1. item[k] # NoItem /\ item[k].state = "in_progress" /\ item[k].owner = c
      BY <1>1 DEF NoItem
    <2>2. item'[k] = [state |-> state, owner |-> c]
      BY <1>1, <1>4, <2>1 DEF TableInv, TypeOK
    <2>3. item'[k] # NoItem /\ item'[k].state = state /\ item'[k].owner = c
      BY <2>2 DEF NoItem
    <2>4. ASSUME NEW j \in Keys, j # k PROVE Entry(item[j])' = Entry(item[j])
      BY <1>0, <1>4, <2>4 DEF TableInv, TypeOK, Entry, Phase, ExpiredCompleted
    <2>5. begun[c] = TRUE /\ begun'[c] = TRUE
      BY <1>0, <1>1 DEF TableInv, TypeOK
    <2> HIDE DEF k
    <2>6. Entry(item[k]) = [phase |-> "open", holder |-> c, begun |-> TRUE]
      <3>1. Phase(item[k]) = "open"
        BY <2>1 DEF Phase, ExpiredCompleted
      <3> QED BY <2>1, <2>5, <3>1 DEF Entry
    <2>7. Entry(item[k])' = [phase |-> Phase(item[k])', holder |-> c, begun |-> TRUE]
      BY <2>3, <2>5 DEF Entry
    <2>8. LedgerOfTable[k] = [phase |-> "open", holder |-> c, begun |-> TRUE]
      BY <1>1, <1>4, <2>6 DEF LedgerOfTable
    <2>9. CASE state = "uncertain"
      <3>1. Phase(item[k])' = "open"
        BY <2>3, <2>9 DEF Phase, ExpiredCompleted
      <3>2. \A j \in Keys : Entry(item[j])' = Entry(item[j])
        BY <2>4, <2>6, <2>7, <3>1
      <3> QED BY <1>0, <3>2, LedgerStutters
    <2>10. CASE state = "completed"
      <3>1. PICK phase \in {"settled", "lapsed"} : Phase(item[k])' = phase
        BY <2>3, <2>10 DEF Phase, ExpiredCompleted
      <3>2. Entry(item[k])' = [Entry(item[k]) EXCEPT !.phase = phase]
        BY <2>1, <2>3, <2>5, <3>1 DEF Entry
      <3>3. PICK e : e = Entry(item[k])'
        OBVIOUS
      <3>4. LedgerOfTable' = [LedgerOfTable EXCEPT ![k].phase = phase]
        <4>1. LedgerOfTable' = [LedgerOfTable EXCEPT ![k] = e]
          <5>1. \A j \in Keys : Entry(item[j])' = IF j = k THEN e ELSE Entry(item[j])
            BY <2>4, <3>3
          <5> QED BY <1>0, <1>1, <1>4, <5>1 DEF LedgerOfTable
        <4>2. LedgerOfTable[k] = Entry(item[k])
          BY <1>1, <1>4 DEF LedgerOfTable
        <4> QED BY <3>2, <3>3, <4>1, <4>2
      <3>5. LedgerOfTable[k].phase = "open" /\ LedgerOfTable[k].begun
        BY <2>8
      <3> QED BY <3>4, <3>5 DEF Ledger!Settle
    <2> QED BY <2>9, <2>10
  <1>5. \/ UNCHANGED item
        \/ \E state \in {"completed", "uncertain"} :
               item' = [item EXCEPT ![k] = [state |-> state, owner |-> seen[c].owner]]
    BY DEF UpdatePut
  <1> QED BY <1>2, <1>3, <1>4, <1>5

\* Time lapses the settled result of its client, if its key still has it.
LEMMA LapseStep ==
    ASSUME TableInv, NEW c \in Clients, Lapse(c)
    PROVE  UNCHANGED LedgerOfTable \/ Ledger!Lapse(KeyOf[c])
  <1> DEFINE k == KeyOf[c]
  <1>0. UNCHANGED <<expires, item, begun>>
    BY DEF Lapse
  <1>1. lapsed' = [lapsed EXCEPT ![c] = TRUE] /\ ~lapsed[c] /\ lapsed'[c] /\ k \in Keys
    BY ClientsAreTyped DEF Lapse, TableInv, TypeOK
  <1>2. \A d \in Clients \ {c} : lapsed'[d] = lapsed[d]
    BY <1>1 DEF TableInv, TypeOK
  <1>3. CASE expires
    BY <1>0, <1>3, LedgerStutters
  <1>4. ASSUME NEW j \in Keys, item[j].state = "completed" => item[j].owner # c
        PROVE  Entry(item[j])' = Entry(item[j])
    <2>1. item[j] \in Items
      BY <1>4 DEF TableInv, TypeOK
    <2>2. item[j].state = "completed" => item[j].owner \in Clients \ {c}
      BY <1>4, <2>1 DEF Items, Records, NoItem
    <2>3. item[j].state = "completed" => lapsed'[item[j].owner] = lapsed[item[j].owner]
      BY <1>2, <2>2
    <2>4. Phase(item[j])' = Phase(item[j])
      BY <1>0, <2>3 DEF Phase, ExpiredCompleted
    <2> QED BY <1>0, <2>4 DEF Entry
  <1>5. CASE ~(item[k].state = "completed" /\ item[k].owner = c)
    <2>1. \A j \in Keys : item[j].state = "completed" => item[j].owner # c
      BY <1>5 DEF TableInv, ItemSettled, NoItem
    <2> QED BY <1>0, <1>4, <2>1, LedgerStutters
  <1>6. CASE ~expires /\ item[k].state = "completed" /\ item[k].owner = c
    <2>1. item[k] # NoItem
      BY <1>6 DEF NoItem
    <2>2. Phase(item[k]) = "settled" /\ Phase(item[k])' = "lapsed"
      BY <1>0, <1>1, <1>6, <2>1 DEF Phase, ExpiredCompleted
    <2>3. ASSUME NEW j \in Keys, j # k PROVE Entry(item[j])' = Entry(item[j])
      <3>1. item[j].state = "completed" => item[j].owner # c
        BY <2>3 DEF TableInv, ItemSettled, NoItem
      <3> QED BY <1>4, <3>1
    <2> HIDE DEF k
    <2>4. Entry(item[k])' = [Entry(item[k]) EXCEPT !.phase = "lapsed"]
      BY <1>0, <2>2 DEF Entry
    <2>5. LedgerOfTable' = [LedgerOfTable EXCEPT ![k] = Entry(item[k])']
      BY <1>0, <1>1, <1>6, <2>3 DEF LedgerOfTable
    <2>6. LedgerOfTable[k] = Entry(item[k]) /\ Entry(item[k]).phase = "settled"
      BY <1>1, <1>6, <2>2 DEF LedgerOfTable, Entry
    <2>7. LedgerOfTable' = [LedgerOfTable EXCEPT ![k].phase = "lapsed"]
      BY <2>4, <2>5, <2>6
    <2> QED BY <2>6, <2>7 DEF Ledger!Lapse, k
  <1> QED BY <1>3, <1>5, <1>6

\* gc forgets a lapsed result.
LEMMA GcDeleteStep ==
    ASSUME TableInv, NEW k \in Keys, GcDelete(k)
    PROVE  UNCHANGED LedgerOfTable \/ Ledger!Forget
  <1>0. UNCHANGED <<expires, lapsed, begun>>
    BY DEF GcDelete
  <1>1. CASE expires
    BY <1>0, <1>1, LedgerStutters
  <1>2. CASE UNCHANGED item
    <2>1. \A j \in Keys : Entry(item[j])' = Entry(item[j])
      BY <1>0, <1>2 DEF Entry, Phase, ExpiredCompleted
    <2> QED BY <1>0, <2>1, LedgerStutters
  <1>3. CASE ~expires /\ ExpiredCompleted(item[k]) /\ item' = [item EXCEPT ![k] = NoItem]
    <2>1. LedgerOfTable[k].phase = "lapsed"
      BY <1>3, LedgerEntries DEF TableInv, TypeOK, LedgerOfTable
    <2>2. Entry(item[k])' = Ledger!FreeEntry
      <3>1. item'[k] = NoItem
        BY <1>3 DEF TableInv, TypeOK
      <3>2. Phase(item[k])' = "free"
        BY <3>1 DEF Phase, NoItem, ExpiredCompleted
      <3>3. item'[k].owner = None
        BY <3>1 DEF NoItem
      <3>4. (item'[k] # NoItem /\ begun'[item'[k].owner]) = FALSE
        BY <3>1
      <3>5. Entry(item[k])' = [phase |-> "free", holder |-> None, begun |-> FALSE]
        BY <3>2, <3>3, <3>4, Zenon DEF Entry
      <3> QED BY <3>5 DEF Ledger!FreeEntry
    <2>3. ASSUME NEW j \in Keys, j # k PROVE Entry(item[j])' = Entry(item[j])
      BY <1>0, <1>3, <2>3 DEF TableInv, TypeOK, Entry, Phase, ExpiredCompleted
    <2>4. LedgerOfTable' = [j \in Keys |-> IF j \in {k} THEN Ledger!FreeEntry ELSE LedgerOfTable[j]]
      BY <1>0, <1>3, <2>2, <2>3 DEF LedgerOfTable
    <2>5. {k} \in SUBSET {j \in Keys : LedgerOfTable[j].phase = "lapsed"}
      BY <2>1
    <2> QED BY <2>4, <2>5 DEF Ledger!Forget
  <1> QED BY <1>1, <1>2, <1>3 DEF GcDelete

LEMMA LedgerStep ==
    ASSUME TableInv, [Next]_vars PROVE [Ledger!Next]_LedgerOfTable
  <1>1. CASE UNCHANGED vars \/ GcScan \/ \E c \in Clients : UpdateGet(c) \/ Dies(c)
    <2>1. UNCHANGED <<expires, item, lapsed, begun>>
      BY <1>1 DEF vars, GcScan, UpdateGet, Dies
    <2>2. \A j \in Keys : Entry(item[j])' = Entry(item[j])
      BY <2>1 DEF Entry, Phase, ExpiredCompleted
    <2> QED BY <2>1, <2>2, LedgerStutters
  <1>2. CASE \E k \in Keys : TtlDelete(k)
    BY <1>2, LedgerStutters DEF TtlDelete
  <1>3. CASE \E c \in Clients : Claims(c)
    <2> PICK c \in Clients : Claims(c)
      BY <1>3
    <2> QED BY ClaimsStep, ClientsAreTyped DEF Ledger!Next
  <1>4. CASE \E c \in Clients : Begin(c) \/ UpdatePut(c) \/ Lapse(c)
    <2> PICK c \in Clients : Begin(c) \/ UpdatePut(c) \/ Lapse(c)
      BY <1>4
    <2> QED BY BeginStep, UpdatePutStep, LapseStep, ClientsAreTyped DEF Ledger!Next
  <1>5. CASE \E k \in Keys : GcDelete(k)
    BY <1>5, GcDeleteStep DEF Ledger!Next
  <1> QED BY <1>1, <1>2, <1>3, <1>4, <1>5 DEF Next, Updates

\* A table that does not expire items implements SideEffectLedger: a handler
\* is called at most once in each life of a key, by the client that claimed
\* it, and the next life begins after the stored result has expired.
THEOREM TableImplementsLedger == Spec => LedgerSpec
  <1>1. Init => Ledger!Init
    <2> SUFFICES ASSUME Init PROVE Ledger!Init
      OBVIOUS
    <2>1. Entry(NoItem) = Ledger!FreeEntry
      <3>1. Phase(NoItem) = "free"
        BY DEF Phase, NoItem, ExpiredCompleted
      <3>2. (NoItem # NoItem /\ begun[NoItem.owner]) = FALSE
        OBVIOUS
      <3>3. NoItem.owner = None
        BY DEF NoItem
      <3>4. Entry(NoItem) = [phase |-> "free", holder |-> None, begun |-> FALSE]
        BY <3>1, <3>2, <3>3, Zenon DEF Entry
      <3> QED BY <3>4 DEF Ledger!FreeEntry
    <2>2. LedgerOfTable = [k \in Keys |-> Ledger!FreeEntry]
      BY <2>1 DEF Init, LedgerOfTable
    <2> QED BY <2>2 DEF Ledger!Init
  <1>2. TableInv /\ [Next]_vars => [Ledger!Next]_LedgerOfTable
    BY LedgerStep
  <1> QED BY <1>1, <1>2, TableInvHolds, PTL DEF Spec, LedgerSpec, Ledger!Spec

=============================================================================
