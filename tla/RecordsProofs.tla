--------------------------- MODULE RecordsProofs ---------------------------
(***************************************************************************)
(* Six parts of what the fortress writes down and answers from, which      *)
(* share no state: the door of the one-click hand-off (ConsoleEntry), the  *)
(* files rewritten under a lock (ConsoleProcess), the reads of the console *)
(* (ConsoleReads), the tab that shows them (BrowserTab), the chunks        *)
(* composed into a bucket's object (BucketAppend) and the collapsed        *)
(* sign-in failures (FailureWindows).  Each has an invariant of its own.   *)
(***************************************************************************)
EXTENDS FailureWindows, ConsoleEntry, ConsoleProcess, ConsoleReads, BrowserTab, BucketAppend,
        FiniteSetTheorems, WellFoundedInduction, TLAPS

-----------------------------------------------------------------------------
(***************************************************************************)
(* EntrySound for every number of browsers, grants, keys, pushes and ticks *)
(* of the clock.  Its two halves share no variable but the hub's clock, so *)
(* each has an inductive invariant of its own:                             *)
(*                                                                         *)
(*  - PinHeld: while no two greetings have overlapped, the one greeting in *)
(*    flight decides against the record that is still the pinned one, so   *)
(*    that what it calls newer is newer than everything pinned before;     *)
(*  - GrantHeld: a grant redeemed inside its window is in the consumed set *)
(*    for as long as the window, skew allowance included, is open - which  *)
(*    is what the sweep must not break and the one-use check relies on.    *)
(***************************************************************************)

HubType == [clock : Nat, key : Nat, pushes : Nat, end : Nat,
            grants : [Grants -> [minted : BOOLEAN, exp : Nat, key : Nat]]]
PinType == [key : Nat, floor : Nat, best : Nat, overlapped : BOOLEAN]
PushType == [pc : {"idle", "deciding"}, key : Nat, proof : BOOLEAN,
             read : [key : Nat, floor : Nat]]
EntryType == [grant : Grants, at : Nat]
DoorType == [sso : BOOLEAN, skewed : BOOLEAN, seen : SUBSET Grants,
             entries : SUBSET EntryType, redeemed : [Grants -> Nat],
             opened : SUBSET Grants]
Opened == {"clearing", "signing", "stamped", "plain"}
ExchType == [pc : {"idle", "verifying"} \cup Opened, grant : Nat, key : Nat,
             at : Nat, sso : BOOLEAN]

EntryTypes == /\ hub \in HubType /\ pin \in PinType
              /\ pushes \in [Sockets -> PushType]
              /\ door \in DoorType /\ exch \in [Browsers -> ExchType]

(* A greeting past its read: nobody else is at it, and what it read is current. *)
Current(s) ==
  /\ pushes[s].read = [key |-> pin.key, floor |-> pin.floor]
  /\ pushes[s].key > 0
  /\ \A o \in Sockets : o # s => pushes[o].pc = "idle"

PinHeld ==
  pin.overlapped \/ /\ pin.floor >= pin.best
                    /\ pin.key = 0 => pin.best = 0
                    /\ \A s \in Sockets : pushes[s].pc # "idle" => Current(s)

InTime(g) == hub.clock < Expiry(g) + Skew

GrantHeld(g) ==
  /\ door.redeemed[g] <= 1
  /\ door.redeemed[g] > 0 => g \in door.opened
  /\ g \in door.opened => hub.grants[g].minted
  /\ door.redeemed[g] > 0 /\ InTime(g) => g \in door.seen

ExchHeld(b) ==
  /\ exch[b].pc # "idle" => exch[b].grant \in Grants /\ hub.grants[exch[b].grant].minted
  /\ exch[b].pc \in Opened => exch[b].grant \in door.opened

EntryHeld == \A entry \in door.entries : entry.grant \in door.opened

DoorHeld == /\ \A g \in Grants : GrantHeld(g)
            /\ \A b \in Browsers : ExchHeld(b)
            /\ EntryHeld

EntryInv == EntryTypes /\ PinHeld /\ DoorHeld

-----------------------------------------------------------------------------
(* The initial state. *)
LEMMA EntryStarts == EntryInit(TRUE) => EntryInv
<1> SUFFICES ASSUME EntryInit(TRUE) PROVE EntryInv
  OBVIOUS
<1>0. MaxClock \in Nat /\ MaxPushes \in Nat
  BY EntryLimitsAssumption
<1>1. PICK left \in {<<1, MaxClock>>, <<MaxPushes, 0>>} : hub =
        [clock |-> 0, key |-> 1, grants |-> [g \in Grants |-> Unminted],
         pushes |-> left[1], end |-> left[2]]
  BY DEF EntryInit
<1>2. left[1] \in Nat /\ left[2] \in Nat
  BY <1>0
<1>3. hub \in HubType
  BY <1>1, <1>2 DEF HubType, Unminted
<1>4. pin \in PinType /\ pushes \in [Sockets -> PushType] /\ exch \in [Browsers -> ExchType]
  BY DEF EntryInit, PinType, PushType, ExchType, NoPush, NoExch
<1>5. door = [sso |-> TRUE, skewed |-> FALSE, seen |-> {}, entries |-> {},
              redeemed |-> [g \in Grants |-> 0], opened |-> {}]
  BY DEF EntryInit, ColdDoor
<1>6. door \in DoorType
  BY <1>5 DEF DoorType
<1>7. PinHeld
  BY DEF EntryInit, PinHeld, NoPush
<1>8. DoorHeld
  BY <1>5, <1>4 DEF EntryInit, DoorHeld, GrantHeld, ExchHeld, EntryHeld, NoExch, Opened
<1> QED
  BY <1>3, <1>4, <1>6, <1>7, <1>8 DEF EntryInv, EntryTypes

-----------------------------------------------------------------------------
(* Types. *)
LEMMA EntryTypesKept == EntryTypes /\ DoorHeld /\ [EntryNext]_entryVars => EntryTypes'
<1> SUFFICES ASSUME EntryTypes, DoorHeld, [EntryNext]_entryVars PROVE EntryTypes'
  OBVIOUS
<1> USE DEF EntryTypes
<1>0. hub.clock \in Nat /\ hub.key \in Nat /\ hub.pushes \in Nat /\ hub.end \in Nat
  BY DEF HubType
<1>1. CASE EntryTick
  <2>1. hub.clock + 1 \in Nat
    BY <1>0
  <2> QED
    BY <1>1, <2>1 DEF EntryTick, HubType
<1>2. CASE Rotate
  <2>1. hub.key + 1 \in Nat
    BY <1>0
  <2> QED
    BY <1>2, <2>1 DEF Rotate, HubType
<1>3. ASSUME NEW g \in Grants, Mint(g) PROVE EntryTypes'
  <2>1. hub.clock + 1 \in Nat
    BY <1>0
  <2>2. [minted |-> TRUE, exp |-> hub.clock + 1, key |-> hub.key] \in [minted : BOOLEAN, exp : Nat, key : Nat]
    BY <2>1, <1>0
  <2> QED
    BY <1>3, <2>2 DEF Mint, HubType
<1>4. ASSUME NEW s \in Sockets, ReadPin(s) PROVE EntryTypes'
  <2>1. hub.pushes - 1 \in Nat
    BY <1>4, <1>0 DEF ReadPin
  <2>2. hub' \in HubType
    BY <1>4, <2>1 DEF ReadPin, HubType
  <2>3. pin' \in PinType
    BY <1>4 DEF ReadPin, PinType
  <2>4. pushes' \in [Sockets -> PushType]
    <3>1. PICK key \in 1..hub.key, proof \in BOOLEAN :
            pushes' = [pushes EXCEPT ![s] = [pc |-> "deciding", key |-> key, proof |-> proof,
                                             read |-> [key |-> pin.key, floor |-> pin.floor]]]
      BY <1>4 DEF ReadPin
    <3>2. [pc |-> "deciding", key |-> key, proof |-> proof,
           read |-> [key |-> pin.key, floor |-> pin.floor]] \in PushType
      BY <1>0 DEF PushType, PinType
    <3> QED
      BY <3>1, <3>2
  <2> QED
    BY <1>4, <2>2, <2>3, <2>4 DEF ReadPin
<1>5. ASSUME NEW s \in Sockets, SavePin(s) PROVE EntryTypes'
  <2>1. pushes[s] \in PushType
    OBVIOUS
  <2>2. pin' \in PinType
    BY <1>5, <2>1 DEF SavePin, PinType, PushType
  <2>3. pushes' \in [Sockets -> PushType]
    BY <1>5 DEF SavePin, NoPush, PushType
  <2> QED
    BY <1>5, <2>2, <2>3 DEF SavePin
<1>6. ASSUME NEW b \in Browsers, NEW g \in Grants, Present(b, g) PROVE EntryTypes'
  <2>1. [pc |-> "verifying", grant |-> g, key |-> pin.key, at |-> hub.clock, sso |-> door.sso] \in ExchType
    BY <1>0 DEF ExchType, PinType, DoorType, Grants
  <2> QED
    BY <1>6, <2>1 DEF Present
<1>7. NoExch \in ExchType
  BY DEF NoExch, ExchType
<1>8. ASSUME NEW b \in Browsers, Judged(b) PROVE EntryTypes'
  <2>1. exch' \in [Browsers -> ExchType]
    BY <1>8, <1>7 DEF Judged
  <2>2. door' \in DoorType
    <3>1. PICK skewed \in BOOLEAN : door' = [door EXCEPT !.skewed = skewed]
      BY <1>8 DEF Judged, DoorType
    <3> QED
      BY <3>1 DEF DoorType
  <2> QED
    BY <1>8, <2>1, <2>2 DEF Judged
<1>9. ASSUME NEW b \in Browsers, Consume(b) PROVE EntryTypes'
  <2>1. exch' \in [Browsers -> ExchType]
    BY <1>9, <1>7 DEF Consume, ExchType, Opened
  <2> DEFINE g == exch[b].grant
             n == IF hub.clock < Expiry(g) + Skew THEN door.redeemed[g] + 1 ELSE door.redeemed[g]
  <2>2. g \in Grants /\ StillConsumed \subseteq Grants
    BY <1>9 DEF Consume, DoorHeld, ExchHeld, StillConsumed, DoorType
  <2>3. n \in Nat
    BY <2>2 DEF DoorType
  <2>4. \/ door' = [door EXCEPT !.seen = StillConsumed]
        \/ door' = [door EXCEPT !.seen = StillConsumed \cup {g}, !.opened = door.opened \cup {g},
                                !.redeemed = [door.redeemed EXCEPT ![g] = n]]
    BY <1>9 DEF Consume
  <2> HIDE DEF g, n
  <2>5. [door.redeemed EXCEPT ![g] = n] \in [Grants -> Nat]
    BY <2>2, <2>3 DEF DoorType
  <2>6. StillConsumed \cup {g} \in SUBSET Grants /\ door.opened \cup {g} \in SUBSET Grants
    BY <2>2 DEF DoorType
  <2>7. door' \in DoorType
    BY <2>2, <2>4, <2>5, <2>6 DEF DoorType
  <2> QED
    BY <1>9, <2>1, <2>7 DEF Consume
<1>10. ASSUME NEW b \in Browsers, CreateEntry(b) PROVE EntryTypes'
  <2>1. exch' \in [Browsers -> ExchType]
    BY <1>10, <1>0 DEF CreateEntry, ExchType, Opened
  <2>2. exch[b].grant \in Grants
    BY <1>10 DEF CreateEntry, DoorHeld, ExchHeld
  <2>3. LiveEntries \cup {[grant |-> exch[b].grant, at |-> hub.clock]} \subseteq EntryType
    BY <2>2, <1>0 DEF LiveEntries, EntryType, DoorType
  <2>4. door' \in DoorType
    BY <1>10, <2>3 DEF CreateEntry, DoorType
  <2> QED
    BY <1>10, <2>1, <2>4 DEF CreateEntry
<1>11. ASSUME NEW b \in Browsers, SignInStamped(b) PROVE EntryTypes'
  <2>1. exch' \in [Browsers -> ExchType]
    BY <1>11 DEF SignInStamped, ExchType, Opened
  <2>2. LiveEntries \subseteq EntryType
    BY DEF LiveEntries, DoorType
  <2>3. door' \in DoorType
    BY <1>11, <2>2 DEF SignInStamped, DoorType
  <2> QED
    BY <1>11, <2>1, <2>3 DEF SignInStamped
<1>12. ASSUME NEW b \in Browsers, Leave(b) PROVE EntryTypes'
  BY <1>12, <1>7 DEF Leave
<1>13. CASE SsoSwitched
  BY <1>13 DEF SsoSwitched, DoorType
<1>14. CASE DoorRestarts
  <2>1. door' = [sso |-> door.sso, skewed |-> door.skewed, seen |-> {}, entries |-> {},
                 redeemed |-> [g \in Grants |-> 0], opened |-> {}]
    BY <1>14 DEF DoorRestarts, ColdDoor
  <2>2. door' \in DoorType
    BY <2>1 DEF DoorType
  <2> QED
    BY <1>14, <2>2, <1>7 DEF DoorRestarts
<1>15. CASE UNCHANGED entryVars
  BY <1>15 DEF entryVars
<1> QED
  BY <1>1, <1>2, <1>3, <1>4, <1>5, <1>6, <1>8, <1>9, <1>10, <1>11, <1>12, <1>13, <1>14, <1>15 DEF EntryNext

-----------------------------------------------------------------------------
(* The pin. *)
LEMMA PinKept == EntryTypes /\ PinHeld /\ [EntryNext]_entryVars => PinHeld'
<1> SUFFICES ASSUME EntryTypes, PinHeld, [EntryNext]_entryVars PROVE PinHeld'
  OBVIOUS
<1> USE DEF EntryTypes
<1>1. CASE UNCHANGED <<pin, pushes>>
  BY <1>1 DEF PinHeld, Current
<1>2. ASSUME NEW s \in Sockets, ReadPin(s) PROVE PinHeld'
  <2>1. PICK key \in 1..hub.key, proof \in BOOLEAN :
          pushes' = [pushes EXCEPT ![s] = [pc |-> "deciding", key |-> key, proof |-> proof,
                                           read |-> [key |-> pin.key, floor |-> pin.floor]]]
    BY <1>2 DEF ReadPin
  <2>2. CASE \E o \in Sockets : pushes[o].pc # "idle"
    <3>1. pin'.overlapped
      BY <1>2, <2>2 DEF ReadPin, PinType
    <3> QED
      BY <3>1 DEF PinHeld
  <2>3. CASE pin.overlapped
    <3>1. pin'.overlapped
      BY <1>2, <2>3 DEF ReadPin, PinType
    <3> QED
      BY <3>1 DEF PinHeld
  <2>4. CASE ~pin.overlapped /\ \A o \in Sockets : pushes[o].pc = "idle"
    <3>1. pin'.key = pin.key /\ pin'.floor = pin.floor /\ pin'.best = pin.best
      BY <1>2 DEF ReadPin, PinType
    <3>2. ASSUME NEW t \in Sockets, pushes[t]'.pc # "idle" PROVE Current(t)'
      <4>1. t = s
        BY <2>1, <2>4, <3>2
      <4>2. key > 0
        BY DEF HubType
      <4>3. \A o \in Sockets : o # s => pushes'[o].pc = "idle"
        BY <2>1, <2>4
      <4>4. pushes'[s].key > 0 /\ pushes'[s].read = [key |-> pin.key, floor |-> pin.floor]
        BY <2>1, <4>2
      <4> QED
        BY <3>1, <4>1, <4>3, <4>4 DEF Current
    <3> QED
      BY <2>4, <3>1, <3>2 DEF PinHeld
  <2> QED
    BY <2>2, <2>3, <2>4
<1>3. ASSUME NEW s \in Sockets, SavePin(s) PROVE PinHeld'
  <2> DEFINE push == pushes[s]
             floor == IF push.proof THEN push.key ELSE 0
  <2>1. /\ push.pc = "deciding" /\ pushes' = [pushes EXCEPT ![s] = NoPush]
        /\ pin' = IF Pins(push)
                     THEN [pin EXCEPT !.key = push.key, !.floor = floor,
                                      !.best = IF floor > @ THEN floor ELSE @]
                     ELSE pin
    BY <1>3 DEF SavePin
  <2>2. push.key \in Nat /\ floor \in Nat /\ pin.best \in Nat /\ pin.floor \in Nat /\ pin.key \in Nat
    BY DEF PushType, PinType
  <2>3. CASE pin.overlapped
    <3>1. pin'.overlapped
      BY <2>1, <2>3 DEF PinType
    <3> QED
      BY <3>1 DEF PinHeld
  <2>4. CASE ~pin.overlapped
    <3>1. Current(s) /\ pin.floor >= pin.best /\ (pin.key = 0 => pin.best = 0)
      BY <2>1, <2>4 DEF PinHeld
    <3>2. \A o \in Sockets : pushes'[o].pc = "idle"
      BY <2>1, <3>1 DEF Current, NoPush
    <3>3. CASE Pins(push)
      <4>1. pin'.floor = floor /\ pin'.best = (IF floor > pin.best THEN floor ELSE pin.best)
            /\ pin'.key = push.key
        BY <2>1, <3>3 DEF PinType
      <4>2. push.key > 0 /\ push.read.key = pin.key /\ push.read.floor = pin.floor
        BY <3>1 DEF Current
      <4>3. pin.best = 0 \/ (push.proof /\ push.key > pin.floor)
        BY <3>1, <3>3, <4>2 DEF Pins, IsNewer
      <4>4. pin'.floor >= pin'.best
        BY <2>2, <3>1, <4>1, <4>3
      <4> QED
        BY <2>2, <3>2, <4>1, <4>2, <4>4 DEF PinHeld
    <3>4. CASE ~Pins(push)
      BY <2>1, <3>1, <3>2, <3>4 DEF PinHeld
    <3> QED
      BY <3>3, <3>4
  <2> QED
    BY <2>3, <2>4
<1>4. ASSUME NEW b \in Browsers,
             \/ \E g \in Grants : Present(b, g)
             \/ Judged(b) \/ Consume(b) \/ CreateEntry(b) \/ SignInStamped(b) \/ Leave(b)
      PROVE  UNCHANGED <<pin, pushes>>
  BY <1>4 DEF Present, Judged, Consume, CreateEntry, SignInStamped, Leave
<1>5. CASE EntryTick \/ Rotate \/ SsoSwitched \/ DoorRestarts \/ (\E g \in Grants : Mint(g)) \/ UNCHANGED entryVars
  BY <1>1, <1>5 DEF EntryTick, Rotate, SsoSwitched, DoorRestarts, Mint, entryVars
<1> QED
  BY <1>1, <1>2, <1>3, <1>4, <1>5 DEF EntryNext

-----------------------------------------------------------------------------
(* The door. *)

(* Where time passes or a grant is minted, a grant's facts stay what they were. *)
LEMMA DoorKeptByHub ==
  ASSUME EntryTypes, EntryTypes', DoorHeld, UNCHANGED <<door, exch>>,
         hub'.clock >= hub.clock,
         \A g \in Grants : hub.grants[g].minted => hub'.grants[g] = hub.grants[g]
  PROVE  DoorHeld'
<1> USE DEF EntryTypes
<1>1. ASSUME NEW g \in Grants PROVE GrantHeld(g)'
  <2>1. GrantHeld(g) /\ door' = door
    BY DEF DoorHeld
  <2>2. CASE hub.grants[g].minted
    <3>1. hub.clock \in Nat /\ hub'.clock \in Nat /\ hub.grants[g].exp \in Nat
      BY DEF HubType
    <3>2. InTime(g)' => InTime(g)
      BY <2>2, <3>1 DEF InTime, Expiry, Skew
    <3> QED
      BY <2>1, <2>2, <3>2 DEF GrantHeld
  <2>3. CASE ~hub.grants[g].minted
    <3>1. ~(door.redeemed[g] > 0) /\ g \notin door.opened
      BY <2>1, <2>3 DEF GrantHeld
    <3> QED
      BY <2>1, <3>1 DEF GrantHeld
  <2> QED
    BY <2>2, <2>3
<1>2. ASSUME NEW b \in Browsers PROVE ExchHeld(b)'
  BY DEF DoorHeld, ExchHeld
<1>3. EntryHeld'
  BY DEF DoorHeld, EntryHeld
<1> QED
  BY <1>1, <1>2, <1>3 DEF DoorHeld

(* Consuming: the sweep drops only grants no longer in time, and the one-use
   check therefore sees every grant redeemed that still is. *)
LEMMA DoorKeptByConsume ==
  ASSUME EntryTypes, EntryTypes', DoorHeld, NEW b \in Browsers, Consume(b)
  PROVE  DoorHeld'
<1> USE DEF EntryTypes
<1> DEFINE g == exch[b].grant
<1>1. g \in Grants /\ hub.grants[g].minted /\ hub' = hub
  BY DEF Consume, DoorHeld, ExchHeld
<1>2. \A h \in Grants : InTime(h) /\ h \in door.seen => h \in StillConsumed
  BY DEF InTime, StillConsumed, Remembered
<1>3. CASE ~Consumable(g)
  <2>1. door' = [door EXCEPT !.seen = StillConsumed] /\ exch' = [exch EXCEPT ![b] = NoExch]
    BY <1>3 DEF Consume
  <2>2. door'.seen = StillConsumed /\ door'.redeemed = door.redeemed
        /\ door'.opened = door.opened /\ door'.entries = door.entries
    BY <2>1 DEF DoorType
  <2>3. ASSUME NEW h \in Grants PROVE GrantHeld(h)'
    BY <1>1, <1>2, <2>2 DEF DoorHeld, GrantHeld, InTime, Expiry
  <2>4. ASSUME NEW c \in Browsers PROVE ExchHeld(c)'
    BY <1>1, <2>1, <2>2 DEF DoorHeld, ExchHeld, NoExch, Opened
  <2> QED
    BY <2>2, <2>3, <2>4 DEF DoorHeld, EntryHeld
<1>4. CASE Consumable(g)
  <2>1. door' = [door EXCEPT !.seen = StillConsumed \cup {g}, !.opened = @ \cup {g},
                  !.redeemed[g] = IF hub.clock < Expiry(g) + Skew THEN @ + 1 ELSE @]
        /\ exch' = [exch EXCEPT ![b].pc = "clearing"]
    BY <1>4 DEF Consume
  <2>2. door'.seen = StillConsumed \cup {g} /\ door'.opened = door.opened \cup {g}
        /\ door'.entries = door.entries
    BY <2>1 DEF DoorType
  <2>3. \A h \in Grants : door'.redeemed[h] =
          IF h = g /\ InTime(g) THEN door.redeemed[g] + 1 ELSE door.redeemed[h]
    BY <2>1, <1>1 DEF DoorType, InTime
  <2>4. InTime(g) => door.redeemed[g] = 0
    <3>1. InTime(g) => g \notin door.seen
      BY <1>2, <1>1, <1>4 DEF Consumable
    <3>2. door.redeemed[g] \in Nat
      BY <1>1 DEF DoorType
    <3> QED
      BY <3>1, <3>2, <1>1 DEF DoorHeld, GrantHeld
  <2>5. ASSUME NEW h \in Grants PROVE GrantHeld(h)'
    <3>1. GrantHeld(h) /\ door.redeemed[h] \in Nat
      BY DEF DoorHeld, DoorType
    <3>2. InTime(h)' <=> InTime(h)
      BY <1>1 DEF InTime, Expiry
    <3>3. CASE h = g
      BY <1>1, <2>2, <2>3, <2>4, <3>1, <3>3 DEF GrantHeld
    <3>4. CASE h # g
      <4>1. door'.redeemed[h] = door.redeemed[h]
        BY <2>3, <3>4
      <4> QED
        BY <1>1, <1>2, <2>2, <3>1, <3>2, <3>4, <4>1 DEF GrantHeld
    <3> QED
      BY <3>3, <3>4
  <2>6. ASSUME NEW c \in Browsers PROVE ExchHeld(c)'
    BY <1>1, <2>1, <2>2 DEF DoorHeld, ExchHeld, Opened
  <2> QED
    BY <2>2, <2>5, <2>6 DEF DoorHeld, EntryHeld
<1> QED
  BY <1>3, <1>4

LEMMA DoorKept == EntryTypes /\ EntryTypes' /\ DoorHeld /\ [EntryNext]_entryVars => DoorHeld'
<1> SUFFICES ASSUME EntryTypes, EntryTypes', DoorHeld, [EntryNext]_entryVars PROVE DoorHeld'
  OBVIOUS
<1> USE DEF EntryTypes
<1>1. CASE EntryTick \/ Rotate \/ (\E s \in Sockets : ReadPin(s) \/ SavePin(s)) \/ UNCHANGED entryVars
  <2>0. hub.clock \in Nat
    BY DEF HubType
  <2>1. CASE EntryTick \/ Rotate
    <3>1. UNCHANGED <<door, exch>> /\ hub'.clock >= hub.clock /\ hub'.grants = hub.grants
      BY <2>0, <2>1 DEF EntryTick, Rotate, HubType
    <3> QED
      BY <3>1, DoorKeptByHub
  <2>2. ASSUME NEW s \in Sockets, ReadPin(s) \/ SavePin(s) PROVE DoorHeld'
    <3>1. UNCHANGED <<door, exch>> /\ hub'.clock = hub.clock /\ hub'.grants = hub.grants
      BY <2>2 DEF ReadPin, SavePin, HubType
    <3> QED
      BY <2>0, <3>1, DoorKeptByHub
  <2>3. CASE UNCHANGED entryVars
    BY <2>0, <2>3, DoorKeptByHub DEF entryVars
  <2> QED
    BY <1>1, <2>1, <2>2, <2>3
<1>2. ASSUME NEW g \in Grants, Mint(g) PROVE DoorHeld'
  <2>1. UNCHANGED <<door, exch>> /\ hub'.clock >= hub.clock
        /\ \A h \in Grants : hub.grants[h].minted => hub'.grants[h] = hub.grants[h]
    BY <1>2 DEF Mint, HubType
  <2> QED
    BY <2>1, DoorKeptByHub
(* What changes no grant's count, forgets no grant and invents no opening. *)
<1>3. ASSUME hub' = hub,
             door'.seen = door.seen, door'.redeemed = door.redeemed, door'.opened = door.opened,
             \A entry \in door'.entries : entry.grant \in door.opened,
             \A b \in Browsers : ExchHeld(b)'
      PROVE  DoorHeld'
  <2>1. ASSUME NEW g \in Grants PROVE GrantHeld(g)'
    BY <1>3 DEF DoorHeld, GrantHeld, InTime, Expiry
  <2> QED
    BY <1>3, <2>1 DEF DoorHeld, EntryHeld
<1>4. ASSUME NEW b \in Browsers, NEW g \in Grants, Present(b, g) PROVE DoorHeld'
  <2>1. hub.grants[g].minted /\ UNCHANGED <<hub, door>>
        /\ exch' = [exch EXCEPT ![b] = [pc |-> "verifying", grant |-> g, key |-> pin.key,
                                        at |-> hub.clock, sso |-> door.sso]]
    BY <1>4 DEF Present
  <2>2. ASSUME NEW c \in Browsers PROVE ExchHeld(c)'
    BY <2>1 DEF DoorHeld, ExchHeld, Opened
  <2> QED
    BY <1>3, <2>1, <2>2 DEF DoorHeld, EntryHeld
<1>5. ASSUME NEW b \in Browsers, Judged(b) PROVE DoorHeld'
  <2>1. hub' = hub /\ exch' = [exch EXCEPT ![b] = NoExch] /\ door'.seen = door.seen
        /\ door'.redeemed = door.redeemed /\ door'.opened = door.opened /\ door'.entries = door.entries
    BY <1>5 DEF Judged, DoorType
  <2>2. ASSUME NEW c \in Browsers PROVE ExchHeld(c)'
    BY <2>1 DEF DoorHeld, ExchHeld, NoExch, Opened
  <2> QED
    BY <1>3, <2>1, <2>2 DEF DoorHeld, EntryHeld
<1>6. ASSUME NEW b \in Browsers, Consume(b) PROVE DoorHeld'
  BY <1>6, DoorKeptByConsume
<1>7. ASSUME NEW b \in Browsers, CreateEntry(b) PROVE DoorHeld'
  <2>1. hub' = hub /\ exch[b].pc = "clearing" /\ door'.seen = door.seen
        /\ door'.redeemed = door.redeemed /\ door'.opened = door.opened
        /\ door'.entries = LiveEntries \cup {[grant |-> exch[b].grant, at |-> hub.clock]}
    BY <1>7 DEF CreateEntry, DoorType
  <2>2. exch[b].grant \in door.opened
    BY <2>1 DEF DoorHeld, ExchHeld, Opened
  <2>3. \A entry \in door'.entries : entry.grant \in door.opened
    BY <2>1, <2>2 DEF LiveEntries, DoorHeld, EntryHeld
  <2>4. ASSUME NEW c \in Browsers PROVE ExchHeld(c)'
    BY <1>7, <2>1 DEF CreateEntry, DoorHeld, ExchHeld, Opened, ExchType
  <2> QED
    BY <1>3, <2>1, <2>3, <2>4
<1>8. ASSUME NEW b \in Browsers, SignInStamped(b) PROVE DoorHeld'
  <2>1. hub' = hub /\ door'.seen = door.seen /\ door'.entries = LiveEntries
        /\ door'.redeemed = door.redeemed /\ door'.opened = door.opened
    BY <1>8 DEF SignInStamped, DoorType
  <2>2. ASSUME NEW c \in Browsers PROVE ExchHeld(c)'
    <3>1. exch'[c].grant = exch[c].grant
      BY <1>8 DEF SignInStamped, ExchType
    <3>2. exch'[c].pc = exch[c].pc \/ exch[c].pc \in Opened
      BY <1>8 DEF SignInStamped, ExchType, Opened
    <3>3. ExchHeld(c)
      BY DEF DoorHeld
    <3>4. exch[c].pc \in Opened => exch[c].pc # "idle"
      BY DEF Opened
    <3> QED
      BY <2>1, <3>1, <3>2, <3>3, <3>4 DEF ExchHeld
  <2> QED
    BY <1>3, <2>1, <2>2 DEF DoorHeld, EntryHeld, LiveEntries
<1>9. ASSUME NEW b \in Browsers, Leave(b) PROVE DoorHeld'
  <2>1. ASSUME NEW c \in Browsers PROVE ExchHeld(c)'
    BY <1>9 DEF Leave, DoorHeld, ExchHeld, NoExch, Opened
  <2> QED
    BY <1>3, <1>9, <2>1 DEF Leave, DoorHeld, EntryHeld
<1>10. CASE SsoSwitched
  <2>1. hub' = hub /\ door'.seen = door.seen /\ door'.entries = door.entries
        /\ door'.redeemed = door.redeemed /\ door'.opened = door.opened /\ exch' = exch
    BY <1>10 DEF SsoSwitched, DoorType
  <2>2. ASSUME NEW c \in Browsers PROVE ExchHeld(c)'
    BY <2>1 DEF DoorHeld, ExchHeld
  <2> QED
    BY <1>3, <2>1, <2>2 DEF DoorHeld, EntryHeld
<1>11. CASE DoorRestarts
  <2>1. door'.redeemed = [g \in Grants |-> 0] /\ door'.opened = {} /\ door'.entries = {}
        /\ exch' = [b \in Browsers |-> NoExch]
    BY <1>11 DEF DoorRestarts, ColdDoor
  <2> QED
    BY <2>1 DEF DoorHeld, GrantHeld, ExchHeld, EntryHeld, NoExch, Opened
<1> QED
  BY <1>1, <1>2, <1>4, <1>5, <1>6, <1>7, <1>8, <1>9, <1>10, <1>11 DEF EntryNext

-----------------------------------------------------------------------------
(* A grant opens the door once in the life of a console process, every record of
   an entry comes from one that did, and no greeting handled by itself takes the
   pin back behind a key already pinned (sso-grant.ts, signing-key-store.ts). *)
THEOREM EntrySoundHolds == EntrySpec => []EntrySound
<1>1. EntryInit(TRUE) => EntryInv
  BY EntryStarts
<1>2. EntryInv /\ [EntryNext]_entryVars => EntryInv'
  BY EntryTypesKept, PinKept, DoorKept DEF EntryInv
<1>3. EntryInv => EntrySound
  BY DEF EntryInv, PinHeld, DoorHeld, GrantHeld, ExchHeld, EntryHeld, Opened,
         EntrySound, GrantSpentOnce, PinForward
<1> QED
  BY <1>1, <1>2, <1>3, PTL DEF EntrySpec

-----------------------------------------------------------------------------
(***************************************************************************)
(* LocksHold for any number of terminals and consoles, every verb and any  *)
(* sequence of kills, freezes, signals and container restarts.             *)
(*                                                                         *)
(* SingleHolder is not inductive: that a process is alone in its section   *)
(* follows from the lock file being its own (Owned), and a file is taken   *)
(* from its owner only by a process that judged it stale before - so what  *)
(* was judged must still be true of the owner when the unlink comes        *)
(* (JudgedHeld): a process slot named by somebody's verdict is not reused. *)
(*                                                                         *)
(* NoWriteLost is not inductive either: a rename puts back what its writer *)
(* read, so the version a writer read must tell the content (BaseHeld).    *)
(***************************************************************************)

LockType == {NoLock} \cup [by : Procs, whole : BOOLEAN, aged : BOOLEAN]
DocType == [ver : Nat, on : BOOLEAN, marks : SUBSET Procs]

OwnPcs == {"fill", "read", "confirm", "write", "release", "serving", "stopping"}
WaitPcs == {"none", "gone", "create", "inspect", "unlink"}
ProcType == [pc : OwnPcs \cup WaitPcs, verb : AllVerbs \cup {"none"}, saw : LockType,
             tries : Nat, base : DocType, seen : Nat, supervised : BOOLEAN, term : BOOLEAN]
SupType == [pc : {"gone", "race", "backoff", "terminate", "stop", "leave"},
            ui : Consoles \cup {"none"}, stopping : BOOLEAN]

(* Which steps of the protocol a process can be at: a console never reads or
   renames a document, a terminal never serves, an updater has no document. *)
StepOf(p, r) ==
  /\ p \in Consoles => r.verb = "none" /\ r.pc \notin {"read", "confirm", "write", "release"}
  /\ p \in Shells => r.pc \notin {"serving", "stopping"}
  /\ r.pc \in {"read", "confirm"} => r.verb # "update"

ProcessTypes == /\ doc \in [Docs -> DocType]
                /\ lock \in [LockFiles -> LockType]
                /\ proc \in [Procs -> ProcType]
                /\ sup \in SupType
                /\ applied \in [Docs -> SUBSET Procs]
                /\ overtaken \in BOOLEAN /\ stolen \in BOOLEAN
                /\ \A p \in Procs : StepOf(p, proc[p])

Owned(p) == proc[p].pc \in InSection => lock[LockFileOf(p)].by = p

(* A lock judged stale that is neither half written nor old has a dead owner. *)
JudgedHeld(p) ==
  proc[p].pc = "unlink" /\ proc[p].saw.whole /\ ~proc[p].saw.aged =>
    ~Alive(proc[p].saw.by)

LocksInv == \A p \in Procs : JudgedHeld(p) /\ (stolen \/ Owned(p))

(* A writer between its read and its rename: if the version it read is still the
   current one, so is the content it will put back. *)
BaseHeld(p) ==
  LET f == LockFileOf(p) IN
  proc[p].pc \in {"confirm", "write"} /\ proc[p].verb # "update" =>
    /\ proc[p].base.ver <= doc[f].ver
    /\ proc[p].base.ver = doc[f].ver => applied[f] \subseteq proc[p].base.marks
    /\ proc[p].pc = "write" => proc[p].seen = proc[p].base.ver

WritesInv == overtaken \/ /\ NoWriteLost
                          /\ \A p \in Shells : BaseHeld(p)

ProcessInv == ProcessTypes /\ LocksInv /\ WritesInv

-----------------------------------------------------------------------------
(* Types. *)

LEMMA ProcessStarts == ProcessInit(TRUE) => ProcessInv
<1> SUFFICES ASSUME ProcessInit(TRUE) PROVE ProcessInv
  OBVIOUS
<1>1. NoLock \in LockType /\ NoProc \in ProcType
  BY DEF LockType, ProcType, NoProc, Slot, DocType, WaitPcs
<1>2. ProcessTypes
  BY <1>1 DEF ProcessInit, ProcessTypes, DocType, SupType, StepOf, NoProc, Slot
<1>3. LocksInv
  BY <1>2 DEF ProcessTypes, ProcessInit, LocksInv, JudgedHeld, Owned, NoProc, Slot, InSection
<1>4. WritesInv
  BY DEF ProcessInit, WritesInv, NoWriteLost, BaseHeld, NoProc, Slot, Procs
<1> QED
  BY <1>2, <1>3, <1>4 DEF ProcessInv

(* The lock file of a process is a file; a document only for a terminal that
   is not updating. *)
LEMMA FileIs ==
  ASSUME ProcessTypes, NEW p \in Procs
  PROVE  /\ LockFileOf(p) \in LockFiles
         /\ LockFileOf(p) \in Docs <=> p \in Shells /\ proc[p].verb # "update"
         /\ p \in Consoles => LockFileOf(p) = "instance"
<1>1. CASE p \in Consoles
  BY <1>1, ProcsAssumption DEF ProcessTypes, StepOf, LockFileOf, LockFiles, Docs
<1>2. CASE p \in Shells
  BY <1>2, ProcsAssumption DEF LockFileOf, LockFiles, Docs
<1> QED
  BY <1>1, <1>2 DEF Procs

(* Replacing one process by a well-formed one. *)
LEMMA OneMoved ==
  ASSUME ProcessTypes, NEW p \in Procs, NEW r \in ProcType, StepOf(p, r),
         proc' = [proc EXCEPT ![p] = r]
  PROVE  proc' \in [Procs -> ProcType] /\ \A q \in Procs : StepOf(q, proc'[q])
BY DEF ProcessTypes

(* Moving one process to another step. *)
LEMMA PcMoved ==
  ASSUME ProcessTypes, NEW p \in Procs, NEW pc \in OwnPcs \cup WaitPcs,
         StepOf(p, [proc[p] EXCEPT !.pc = pc]), Enter(p, pc)
  PROVE  proc' \in [Procs -> ProcType] /\ \A q \in Procs : StepOf(q, proc'[q])
<1>1. [proc[p] EXCEPT !.pc = pc] \in ProcType
  BY DEF ProcessTypes, ProcType
<1>2. proc' = [proc EXCEPT ![p] = [proc[p] EXCEPT !.pc = pc]]
  BY DEF Enter
<1> QED
  BY <1>1, <1>2, OneMoved

LEMMA LockTyped ==
  ASSUME ProcessTypes, NEW f \in LockFiles, NEW l \in LockType,
         lock' = [lock EXCEPT ![f] = l]
  PROVE  lock' \in [LockFiles -> LockType]
BY DEF ProcessTypes

(* What unlinking does to its process. *)
LEMMA UnlinkMoves ==
  ASSUME ProcessTypes, NEW p \in Procs, UnlinkStale(p)
  PROVE  \E pc \in {"gone", "create"}, n \in Nat :
           proc' = [proc EXCEPT ![p] = [proc[p] EXCEPT !.pc = pc, !.saw = NoLock, !.tries = n]]
<1> DEFINE f == LockFileOf(p)
           r(pc, n) == [proc[p] EXCEPT !.pc = pc, !.saw = NoLock, !.tries = n]
<1>1. proc[p].tries \in Nat /\ proc[p].tries + 1 \in Nat
  BY DEF ProcessTypes, ProcType
<1>2. CASE f \in Docs
  <2>1. proc' = [proc EXCEPT ![p] = r("create", proc[p].tries)]
    BY <1>2 DEF UnlinkStale
  <2> QED
    BY <1>1, <2>1
<1>3. CASE f \notin Docs /\ proc[p].tries > 0
  <2>1. proc' = [proc EXCEPT ![p] = r("gone", proc[p].tries + 1)]
    BY <1>3 DEF UnlinkStale
  <2> QED
    BY <1>1, <2>1
<1>4. CASE f \notin Docs /\ ~(proc[p].tries > 0)
  <2>1. proc' = [proc EXCEPT ![p] = r("create", proc[p].tries + 1)]
    BY <1>4 DEF UnlinkStale
  <2> QED
    BY <1>1, <2>1
<1> QED
  BY <1>2, <1>3, <1>4

(* What inspecting a lock does to its process. *)
LEMMA InspectMoves ==
  ASSUME NEW p, Inspect(p)
  PROVE  \/ \E pc \in {"create", "gone"} : Enter(p, pc)
         \/ LET l == lock[LockFileOf(p)]
            IN  /\ proc' = [proc EXCEPT ![p] = [proc[p] EXCEPT !.pc = "unlink", !.saw = l]]
                /\ l # NoLock /\ LockReclaimable(p, l)
BY DEF Inspect

(* The lock file protocol and the sections it guards. *)
LEMMA ProtocolTypes ==
  ASSUME ProcessTypes, NEW p \in Procs,
         \/ CreateLock(p) \/ FillLock(p) \/ Inspect(p) \/ UnlinkStale(p)
         \/ p \in Shells /\ (GiveUp(p) \/ ReadCurrent(p) \/ ConfirmVersion(p) \/ WriteAtomic(p)
                             \/ PerformUpdate(p) \/ ReleaseLock(p))
  PROVE  ProcessTypes'
<1> DEFINE f == LockFileOf(p)
<1>0. f \in LockFiles /\ (f \in Docs <=> p \in Shells /\ proc[p].verb # "update")
      /\ proc[p] \in ProcType /\ StepOf(p, proc[p]) /\ lock[f] \in LockType
      /\ (p \in Shells => p \notin Consoles) /\ (p \notin Consoles => p \in Shells)
  BY FileIs, ProcsAssumption DEF ProcessTypes, Procs
<1> DEFINE Procd == proc' \in [Procs -> ProcType] /\ \A q \in Procs : StepOf(q, proc'[q])
           Locked == lock' \in [LockFiles -> LockType]
(* Whatever reaches only another step, and leaves the rest alone. *)
<1>1. ASSUME NEW pc \in OwnPcs \cup WaitPcs, Enter(p, pc), StepOf(p, [proc[p] EXCEPT !.pc = pc]) PROVE Procd
  BY <1>1, PcMoved
<1>2. \A pc \in {"create", "inspect", "unlink", "fill", "gone", "none"} : StepOf(p, [proc[p] EXCEPT !.pc = pc])
  BY <1>0 DEF StepOf, ProcType
<1>3. NoLock \in LockType /\ [NoLock EXCEPT !.by = p] \in LockType
  BY DEF LockType, NoLock
<1> HIDE DEF f
<1>4. CASE CreateLock(p)
  <2>1. Procd
    <3>1. Enter(p, "fill") \/ Enter(p, "inspect")
      BY <1>4 DEF CreateLock
    <3> QED
      BY <3>1, <1>1, <1>2 DEF OwnPcs, WaitPcs
  <2>2. Locked
    <3>1. lock' = lock \/ lock' = [lock EXCEPT ![f] = [NoLock EXCEPT !.by = p]]
      BY <1>4 DEF CreateLock, f
    <3> QED
      BY <3>1, <1>0, <1>3 DEF ProcessTypes
  <2> QED
    BY <1>4, <2>1, <2>2 DEF CreateLock, ProcessTypes, supervision, ghosts
<1>5. CASE FillLock(p)
  <2> DEFINE pc == IF p \in Consoles THEN "serving" ELSE IF proc[p].verb = "update" THEN "write" ELSE "read"
  <2>1. StepOf(p, [proc[p] EXCEPT !.pc = pc])
    BY <1>0 DEF StepOf, ProcType
  <2>2. Enter(p, pc) /\ pc \in OwnPcs
    BY <1>5 DEF FillLock, OwnPcs
  <2>3. Procd
    BY <1>1, <2>1, <2>2
  <2>4. Locked
    <3>1. lock' = lock \/ (lock[f].by = p /\ lock' = [lock EXCEPT ![f] = [lock[f] EXCEPT !.whole = TRUE]])
      BY <1>5 DEF FillLock, f
    <3>2. lock[f].by = p => [lock[f] EXCEPT !.whole = TRUE] \in LockType
      <4>1. p # "none"
        BY ProcsAssumption DEF Procs
      <4>2. lock[f].by = p => lock[f] \in [by : Procs, whole : BOOLEAN, aged : BOOLEAN]
        BY <1>0, <4>1 DEF LockType, NoLock
      <4> QED
        BY <4>2 DEF LockType
    <3> QED
      BY <3>1, <3>2, <1>0 DEF ProcessTypes
  <2> QED
    BY <1>5, <2>3, <2>4 DEF FillLock, ProcessTypes, supervision, ghosts
<1>6. CASE Inspect(p)
  <2> DEFINE r == [proc[p] EXCEPT !.pc = "unlink", !.saw = lock[f]]
  <2>1. \/ Enter(p, "create") \/ Enter(p, "gone") \/ proc' = [proc EXCEPT ![p] = r]
    BY <1>6 DEF Inspect, f
  <2>2. r \in ProcType /\ StepOf(p, r)
    BY <1>0 DEF ProcType, StepOf, WaitPcs
  <2> HIDE DEF r
  <2>3. Procd
    BY <2>1, <2>2, <1>1, <1>2, OneMoved DEF OwnPcs, WaitPcs
  <2> QED
    BY <1>6, <2>3 DEF Inspect, ProcessTypes, supervision, ghosts
<1>7. CASE UnlinkStale(p)
  <2>1. PICK pc \in {"gone", "create"}, n \in Nat :
          proc' = [proc EXCEPT ![p] = [proc[p] EXCEPT !.pc = pc, !.saw = NoLock, !.tries = n]]
    BY <1>7, UnlinkMoves
  <2> DEFINE r == [proc[p] EXCEPT !.pc = pc, !.saw = NoLock, !.tries = n]
  <2>2. r \in ProcType /\ StepOf(p, r)
    BY <1>0, <1>3 DEF ProcType, StepOf, WaitPcs
  <2> HIDE DEF r
  <2>4. Procd
    BY <2>1, <2>2, OneMoved DEF r
  <2>5. Locked
    BY <1>7, <1>0, <1>3 DEF UnlinkStale, ProcessTypes, f
  <2>6. stolen' \in BOOLEAN
    BY <1>7 DEF UnlinkStale
  <2> QED
    BY <1>7, <2>4, <2>5, <2>6 DEF UnlinkStale, ProcessTypes, supervision
<1>8. CASE p \in Shells /\ GiveUp(p)
  <2>1. Procd
    BY <1>8, <1>1, <1>2 DEF GiveUp, WaitPcs
  <2> QED
    BY <1>8, <2>1 DEF GiveUp, LocksLeft, ProcessTypes, supervision, ghosts
<1>9. CASE p \in Shells /\ ReadCurrent(p)
  <2> DEFINE r == [proc[p] EXCEPT !.pc = "confirm", !.base = doc[f]]
  <2>1. proc' = [proc EXCEPT ![p] = r]
    BY <1>9 DEF ReadCurrent, DocOf, f
  <2>2. proc[p].verb # "update"
    BY <1>9, <1>0 DEF ReadCurrent, StepOf
  <2>3. doc[f] \in DocType
    BY <1>9, <1>0, <2>2 DEF ProcessTypes
  <2>4. r \in ProcType /\ StepOf(p, r)
    BY <1>0, <1>9, <2>2, <2>3 DEF ProcType, StepOf, OwnPcs
  <2> HIDE DEF r
  <2>5. Procd
    BY <2>1, <2>4, OneMoved
  <2> QED
    BY <1>9, <2>5 DEF ReadCurrent, ProcessTypes, supervision, ghosts
<1>10. CASE p \in Shells /\ ConfirmVersion(p)
  <2> DEFINE r(pc, n) == [proc[p] EXCEPT !.pc = pc, !.tries = n, !.seen = doc[f].ver]
  <2>1. \/ proc' = [proc EXCEPT ![p] = r("write", MaxRetries)]
        \/ proc' = [proc EXCEPT ![p] = r("release", proc[p].tries + 1)]
    <3>1. CASE Confirmed(p)
      BY <1>10, <3>1 DEF ConfirmVersion, DocOf, f
    <3>2. CASE ~Confirmed(p)
      BY <1>10, <3>2 DEF ConfirmVersion, DocOf, f
    <3> QED
      BY <3>1, <3>2
  <2>2. proc[p].verb # "update"
    BY <1>10, <1>0 DEF ConfirmVersion, StepOf
  <2>3. doc[f].ver \in Nat
    BY <1>10, <1>0, <2>2 DEF ProcessTypes, DocType
  <2>4. ASSUME NEW pc \in {"write", "release"}, NEW n \in Nat
        PROVE  r(pc, n) \in ProcType /\ StepOf(p, r(pc, n))
    BY <1>0, <1>10, <2>2, <2>3 DEF ProcType, StepOf, OwnPcs
  <2>40. MaxRetries \in Nat /\ proc[p].tries + 1 \in Nat
    BY <1>0, TimesAssumption DEF ProcType
  <2> HIDE DEF r
  <2>5. Procd
    BY <2>1, <2>4, <2>40, OneMoved
  <2> QED
    BY <1>10, <2>5 DEF ConfirmVersion, ProcessTypes, supervision, ghosts
<1>11. CASE p \in Shells /\ WriteAtomic(p)
  <2>1. f \in Docs /\ proc[p].base \in DocType
    BY <1>11, <1>0 DEF WriteAtomic, ProcType
  <2>2. Procd
    <3>1. StepOf(p, [proc[p] EXCEPT !.pc = "release"])
      BY <1>0, <1>11 DEF StepOf, ProcType
    <3> QED
      BY <3>1, <1>1, <1>11 DEF WriteAtomic, OwnPcs
  <2>3. Mutated(p, proc[p].base) \in DocType
    <3> DEFINE on == CASE proc[p].verb = "enable" -> TRUE
                       [] proc[p].verb = "disable" -> FALSE
                       [] OTHER -> proc[p].base.on
    <3>1. on \in BOOLEAN
      BY <2>1 DEF DocType
    <3>2. Mutated(p, proc[p].base) = [ver |-> proc[p].base.ver + 1, marks |-> proc[p].base.marks \cup {p}, on |-> on]
      BY DEF Mutated
    <3> HIDE DEF on
    <3> QED
      BY <2>1, <3>1, <3>2 DEF DocType
  <2>4. doc' \in [Docs -> DocType]
    BY <1>11, <2>1, <2>3 DEF WriteAtomic, ProcessTypes, f
  <2>5. applied' \in [Docs -> SUBSET Procs]
    BY <1>11, <2>1 DEF WriteAtomic, ProcessTypes, f
  <2>6. overtaken' \in BOOLEAN
    BY <1>11 DEF WriteAtomic
  <2> QED
    BY <1>11, <2>2, <2>4, <2>5, <2>6 DEF WriteAtomic, ProcessTypes, supervision
<1>12. CASE p \in Shells /\ PerformUpdate(p)
  <2> DEFINE r == [proc[p] EXCEPT !.pc = "release", !.tries = MaxRetries]
  <2>1. proc' = [proc EXCEPT ![p] = r]
    BY <1>12 DEF PerformUpdate
  <2>2. r \in ProcType /\ StepOf(p, r)
    BY <1>0, <1>12, TimesAssumption DEF ProcType, StepOf, OwnPcs
  <2> HIDE DEF r
  <2>3. Procd
    BY <2>1, <2>2, OneMoved
  <2> QED
    BY <1>12, <2>3 DEF PerformUpdate, ProcessTypes, supervision, ghosts
<1>13. CASE p \in Shells /\ ReleaseLock(p)
  <2>1. Procd
    <3>1. Enter(p, "create") \/ Enter(p, "gone")
      BY <1>13 DEF ReleaseLock
    <3> QED
      BY <3>1, <1>1, <1>2 DEF WaitPcs
  <2>2. Locked
    BY <1>13, <1>0, <1>3 DEF ReleaseLock, ProcessTypes, f
  <2> QED
    BY <1>13, <2>1, <2>2 DEF ReleaseLock, ProcessTypes, supervision, ghosts
<1> QED
  BY <1>4, <1>5, <1>6, <1>7, <1>8, <1>9, <1>10, <1>11, <1>12, <1>13

(* A slot taken by a new process is free. *)
LEMMA SlotIsFree ==
  ASSUME NEW p, NEW slots, IsSlot(p, slots)
  PROVE  p \in slots /\ Free(p)
BY DEF IsSlot

(* A new console. *)
LEMMA SpawnTypes ==
  ASSUME ProcessTypes, NEW c \in Consoles, NEW supervised \in BOOLEAN, Spawned(c, supervised)
  PROVE  proc' \in [Procs -> ProcType] /\ \A q \in Procs : StepOf(q, proc'[q])
<1> DEFINE r == Slot("create", "none", supervised)
<1>2. r \in ProcType /\ StepOf(c, r)
  <2>1. c \notin Shells
    BY ProcsAssumption
  <2> QED
    BY <2>1 DEF Slot, ProcType, StepOf, WaitPcs, LockType, DocType
<1>3. proc' = [proc EXCEPT ![c] = r] /\ c \in Procs
  BY DEF Spawned, Procs
<1> HIDE DEF r
<1> QED
  BY <1>2, <1>3, OneMoved

(* A signal marks a process and moves nothing. *)
LEMMA SignalTypes ==
  ASSUME ProcessTypes, NEW p \in Consoles \cup {"none"}, proc' = Signalled(p)
  PROVE  /\ proc' \in [Procs -> ProcType] /\ \A q \in Procs : StepOf(q, proc'[q])
         /\ \A q \in Procs : /\ proc'[q].pc = proc[q].pc /\ proc'[q].verb = proc[q].verb
                             /\ proc'[q].saw = proc[q].saw /\ proc'[q].base = proc[q].base
                             /\ proc'[q].seen = proc[q].seen
<1>1. CASE proc' = proc
  BY <1>1 DEF ProcessTypes
<1>2. CASE proc' = [proc EXCEPT ![p].term = TRUE] /\ p # "none"
  <2>1. p \in Procs
    BY <1>2 DEF Procs
  <2>2. [proc[p] EXCEPT !.term = TRUE] \in ProcType /\ StepOf(p, [proc[p] EXCEPT !.term = TRUE])
    BY <2>1 DEF ProcessTypes, ProcType, StepOf
  <2>3. proc' = [proc EXCEPT ![p] = [proc[p] EXCEPT !.term = TRUE]]
    BY <1>2
  <2>4. proc' \in [Procs -> ProcType] /\ \A q \in Procs : StepOf(q, proc'[q])
    BY <2>1, <2>2, <2>3, OneMoved
  <2>5. ASSUME NEW q \in Procs
        PROVE  /\ proc'[q].pc = proc[q].pc /\ proc'[q].verb = proc[q].verb
               /\ proc'[q].saw = proc[q].saw /\ proc'[q].base = proc[q].base
               /\ proc'[q].seen = proc[q].seen
    <3>1. proc'[q] = IF q = p THEN [proc[p] EXCEPT !.term = TRUE] ELSE proc[q]
      BY <2>1, <2>3 DEF ProcessTypes
    <3>2. proc[p] \in ProcType
      BY <2>1 DEF ProcessTypes
    <3> QED
      BY <3>1, <3>2 DEF ProcType
  <2> QED
    BY <2>4, <2>5
<1> QED
  BY <1>1, <1>2 DEF Signalled

(* Terminals start, processes die, lock files grow old. *)
LEMMA WorldTypes ==
  ASSUME ProcessTypes,
         \/ \E p \in Shells, v \in Verbs : RunVerb(p, v)
         \/ \E p \in Procs : Killed(p)
         \/ \E f \in Docs : LockAges(f)
         \/ DaemonFails \/ StopAsked \/ UNCHANGED procVars
         \/ \E gap \in BOOLEAN : Observe(gap)
  PROVE  ProcessTypes'
<1>1. ASSUME NEW p \in Shells, NEW v \in Verbs, RunVerb(p, v) PROVE ProcessTypes'
  <2> DEFINE r == Slot("create", v, FALSE)
  <2>2. r \in ProcType /\ StepOf(p, r) /\ p \in Procs
    <3>1. p \notin Consoles /\ v \in AllVerbs
      BY ProcsAssumption, VerbsAssumption
    <3> QED
      BY <3>1 DEF Slot, ProcType, StepOf, WaitPcs, LockType, DocType, Procs
  <2>3. proc' = [proc EXCEPT ![p] = r]
    BY <1>1 DEF RunVerb
  <2> HIDE DEF r
  <2>4. proc' \in [Procs -> ProcType] /\ \A q \in Procs : StepOf(q, proc'[q])
    BY <2>2, <2>3, OneMoved
  <2>5. doc' \in [Docs -> DocType] /\ applied' \in [Docs -> SUBSET Procs]
    BY <1>1 DEF RunVerb, ProcessTypes, DocType
  <2> QED
    BY <1>1, <2>4, <2>5 DEF RunVerb, ProcessTypes, supervision
<1>2. ASSUME NEW p \in Procs, Killed(p) PROVE ProcessTypes'
  <2>1. StepOf(p, [proc[p] EXCEPT !.pc = "gone"])
    BY DEF ProcessTypes, StepOf, ProcType
  <2>2. proc' \in [Procs -> ProcType] /\ \A q \in Procs : StepOf(q, proc'[q])
    BY <1>2, <2>1, PcMoved DEF Killed, WaitPcs
  <2> QED
    BY <1>2, <2>2 DEF Killed, ProcessTypes, supervision, ghosts
<1>3. ASSUME NEW f \in Docs, LockAges(f) PROVE ProcessTypes'
  <2>1. f \in LockFiles /\ lock[f] \in [by : Procs, whole : BOOLEAN, aged : BOOLEAN]
    BY <1>3 DEF LockAges, ProcessTypes, LockType, LockFiles
  <2>2. [lock[f] EXCEPT !.aged = TRUE] \in LockType
    BY <2>1 DEF LockType
  <2>3. lock' = [lock EXCEPT ![f] = [lock[f] EXCEPT !.aged = TRUE]]
    BY <1>3 DEF LockAges
  <2>4. lock' \in [LockFiles -> LockType]
    BY <2>1, <2>2, <2>3, LockTyped
  <2> QED
    BY <1>3, <2>4 DEF LockAges, ProcessTypes, supervision, ghosts
<1>4. CASE DaemonFails
  BY <1>4 DEF DaemonFails, ProcessTypes, ghosts
<1>5. CASE StopAsked
  BY <1>5 DEF StopAsked, ProcessTypes, ghosts, SupType
<1>6. CASE UNCHANGED procVars
  BY <1>6 DEF procVars, ProcessTypes
<1>7. ASSUME NEW gap \in BOOLEAN, Observe(gap) PROVE ProcessTypes'
  <2>1. UNCHANGED <<doc, lock, proc, sup, applied, overtaken, stolen>>
    BY <1>7 DEF Observe, rest
  <2> QED
    BY <2>1 DEF ProcessTypes
<1> QED
  BY <1>1, <1>2, <1>3, <1>4, <1>5, <1>6, <1>7

(* The console's own steps, and the supervisor's. *)
LEMMA ConsoleTypes ==
  ASSUME ProcessTypes, NEW c \in Consoles,
         ConsumeBootstrapRequest(c) \/ HandleTerm(c) \/ ForegroundConsole(c) \/ Interrupted(c)
  PROVE  ProcessTypes'
<1>0. c \in Procs /\ proc[c] \in ProcType /\ StepOf(c, proc[c]) /\ "instance" \in LockFiles
  BY DEF Procs, ProcessTypes, LockFiles
<1>1. CASE ConsumeBootstrapRequest(c)
  BY <1>1 DEF ConsumeBootstrapRequest, ProcessTypes
<1>2. CASE HandleTerm(c)
  <2>1. lock' \in [LockFiles -> LockType]
    BY <1>2, <1>0 DEF HandleTerm, ProcessTypes, LockType
  <2>2. ASSUME NEW pc \in {"gone", "stopping"}, Enter(c, pc)
        PROVE  proc' \in [Procs -> ProcType] /\ \A q \in Procs : StepOf(q, proc'[q])
    <3>1. StepOf(c, [proc[c] EXCEPT !.pc = pc])
      BY <1>0, ProcsAssumption DEF StepOf, ProcType
    <3> QED
      BY <1>0, <2>2, <3>1, PcMoved DEF OwnPcs, WaitPcs
  <2>3. Enter(c, "gone") \/ Enter(c, "stopping")
    BY <1>2 DEF HandleTerm
  <2>4. proc' \in [Procs -> ProcType] /\ \A q \in Procs : StepOf(q, proc'[q])
    BY <2>2, <2>3
  <2> QED
    BY <1>2, <2>1, <2>4 DEF HandleTerm, ProcessTypes, supervision, ghosts
<1>3. CASE ForegroundConsole(c)
  <2>1. proc' \in [Procs -> ProcType] /\ \A q \in Procs : StepOf(q, proc'[q])
    BY <1>3, SpawnTypes DEF ForegroundConsole
  <2> QED
    BY <1>3, <2>1 DEF ForegroundConsole, ProcessTypes, supervision, ghosts
<1>4. CASE Interrupted(c)
  <2> DEFINE r == [proc[c] EXCEPT !.pc = "stopping", !.term = TRUE]
  <2>1. r \in ProcType /\ StepOf(c, r)
    BY <1>0, ProcsAssumption DEF ProcType, StepOf, OwnPcs
  <2>2. proc' = [proc EXCEPT ![c] = r]
    BY <1>4, <1>0 DEF Interrupted, ProcessTypes, ProcType
  <2> HIDE DEF r
  <2>3. proc' \in [Procs -> ProcType] /\ \A q \in Procs : StepOf(q, proc'[q])
    BY <1>0, <2>1, <2>2, OneMoved
  <2> QED
    BY <1>4, <2>3 DEF Interrupted, ProcessTypes, supervision, ghosts
<1> QED
  BY <1>1, <1>2, <1>3, <1>4

LEMMA SupervisorTypes == ASSUME ProcessTypes, Supervisor PROVE ProcessTypes'
<1>0. sup \in SupType /\ sup.ui \in Consoles \cup {"none"}
  BY DEF ProcessTypes, SupType
<1>1. CASE StartContainer \/ Settle \/ ConsoleExited \/ Terminate
  <2>1. sup' \in SupType
    <3>1. CASE StartContainer
      BY <3>1 DEF StartContainer, SupType
    <3>2. CASE Settle \/ Terminate
      <4>1. sup' = [sup EXCEPT !.pc = "terminate"] \/ sup' = [sup EXCEPT !.pc = "stop"]
        BY <3>2 DEF Settle, Terminate
      <4> QED
        BY <1>0, <4>1 DEF SupType
    <3>3. CASE ConsoleExited
      <4>1. sup' = [sup EXCEPT !.pc = "backoff", !.ui = "none"] \/ sup' = [sup EXCEPT !.pc = "race", !.ui = "none"]
        BY <3>3 DEF ConsoleExited
      <4> QED
        BY <1>0, <4>1 DEF SupType
    <3> QED
      BY <1>1, <3>1, <3>2, <3>3
  <2>2. UNCHANGED <<doc, lock, proc, applied, overtaken, stolen>>
    BY <1>1 DEF StartContainer, Settle, ConsoleExited, Terminate, rest
  <2> QED
    BY <2>1, <2>2 DEF ProcessTypes
<1>2. ASSUME NEW pc \in {"race", "terminate"}, StartConsole(pc), UNCHANGED rest PROVE ProcessTypes'
  <2>1. PICK c \in Consoles : Spawned(c, TRUE) /\ sup' = [sup EXCEPT !.pc = pc, !.ui = c]
    BY <1>2 DEF StartConsole
  <2>2. sup' \in SupType
    BY <1>0, <2>1 DEF SupType
  <2>3. proc' \in [Procs -> ProcType] /\ \A q \in Procs : StepOf(q, proc'[q])
    BY <2>1, SpawnTypes
  <2> QED
    BY <1>2, <2>2, <2>3 DEF ProcessTypes, rest
<1>3. ASSUME proc' = Signalled(sup.ui), sup' \in SupType, UNCHANGED rest PROVE ProcessTypes'
  BY <1>0, <1>3, SignalTypes DEF ProcessTypes, rest
<1>4. CASE Tick
  <2>1. CASE sup' = [sup EXCEPT !.ui = "none"] /\ proc' = Signalled(sup.ui)
    <3>1. sup' \in SupType
      BY <2>1, <1>0 DEF SupType
    <3> QED
      BY <1>3, <1>4, <2>1, <3>1 DEF Tick
  <2> QED
    BY <1>2, <1>4, <2>1 DEF Tick
<1>5. CASE Respawn
  <2>1. CASE sup' = [sup EXCEPT !.pc = "stop"] /\ proc' = proc
    <3>1. sup' \in SupType
      BY <2>1, <1>0 DEF SupType
    <3> QED
      BY <1>5, <2>1, <3>1 DEF Respawn, rest, ProcessTypes
  <2> QED
    BY <1>2, <1>5, <2>1 DEF Respawn
<1>6. CASE StopChildren
  <2>1. sup' \in SupType
    BY <1>6, <1>0 DEF StopChildren, SupType
  <2> QED
    BY <1>3, <1>6, <2>1 DEF StopChildren
<1>7. CASE ContainerExits
  <2>1. sup' \in SupType
    BY <1>7, <1>0 DEF ContainerExits, SupType
  <2>2. proc' = [p \in Procs |-> Slot(IF proc[p].pc = "none" THEN "none" ELSE "gone", "none", FALSE)]
    BY <1>7 DEF ContainerExits
  <2>3. \A pc \in {"none", "gone"}, p \in Procs :
          Slot(pc, "none", FALSE) \in ProcType /\ StepOf(p, Slot(pc, "none", FALSE))
    BY DEF Slot, ProcType, StepOf, WaitPcs, LockType, DocType
  <2>4. proc' \in [Procs -> ProcType] /\ \A q \in Procs : StepOf(q, proc'[q])
    BY <2>2, <2>3
  <2> QED
    BY <1>7, <2>1, <2>4 DEF ContainerExits, ProcessTypes, rest
<1> QED
  BY <1>1, <1>4, <1>5, <1>6, <1>7 DEF Supervisor

LEMMA TypesKept == ProcessTypes /\ [ProcessNext]_procVars => ProcessTypes'
<1> SUFFICES ASSUME ProcessTypes, [ProcessNext]_procVars PROVE ProcessTypes'
  OBVIOUS
<1>1. ASSUME NEW p \in Shells, Verb(p) PROVE ProcessTypes'
  BY <1>1, ProtocolTypes DEF Verb, Procs
<1>2. ASSUME NEW c \in Consoles, Console(c) \/ ForegroundConsole(c) \/ Interrupted(c) PROVE ProcessTypes'
  BY <1>2, ProtocolTypes, ConsoleTypes DEF Console, Procs
<1>3. CASE Supervisor
  BY <1>3, SupervisorTypes
<1> QED
  BY <1>1, <1>2, <1>3, WorldTypes DEF ProcessNext

-----------------------------------------------------------------------------
(* Locks. *)

(* No process comes back to life under a verdict that names it dead. *)
NoneRevived == \A b \in Procs : Alive(b)' => Alive(b) \/ Free(b)

LEMMA JudgedFrame ==
  ASSUME ProcessTypes, LocksInv, NoneRevived, NEW q \in Procs, proc'[q].saw = proc[q].saw,
         proc'[q].pc = "unlink" => proc[q].pc = "unlink"
  PROVE  JudgedHeld(q)'
<1> SUFFICES ASSUME proc[q].pc = "unlink", proc[q].saw.whole, ~proc[q].saw.aged
             PROVE  ~Alive(proc[q].saw.by)'
  BY DEF JudgedHeld
<1>1. proc[q].saw.by \in Procs
  BY DEF ProcessTypes, ProcType, LockType, NoLock
<1>2. ~Alive(proc[q].saw.by) /\ ~Free(proc[q].saw.by)
  BY <1>1 DEF LocksInv, JudgedHeld, Free
<1>3. ~Alive(proc[q].saw.by)' <=> ~(proc'[proc[q].saw.by].pc \notin {"none", "gone"})
  BY DEF Alive
<1> QED
  BY <1>1, <1>2 DEF NoneRevived, Alive

LEMMA OwnedFrame ==
  ASSUME LocksInv, NEW q \in Procs, stolen => stolen',
         proc'[q].pc \in InSection => proc[q].pc \in InSection /\ proc'[q].verb = proc[q].verb,
         lock'[LockFileOf(q)].by = lock[LockFileOf(q)].by
  PROVE  stolen' \/ Owned(q)'
<1> SUFFICES ASSUME ~stolen', proc'[q].pc \in InSection PROVE lock'[LockFileOf(q)'].by = q
  BY DEF Owned
<1>1. LockFileOf(q)' = LockFileOf(q)
  BY DEF LockFileOf
<1> QED
  BY <1>1 DEF LocksInv, Owned

(* A step that moves no process into a section, to a verdict or to life. *)
LEMMA LocksIdle ==
  ASSUME ProcessTypes, LocksInv, UNCHANGED <<lock, stolen>>,
         \A q \in Procs : \/ /\ proc'[q].pc = proc[q].pc /\ proc'[q].verb = proc[q].verb
                             /\ proc'[q].saw = proc[q].saw
                          \/ proc'[q].pc \in {"none", "gone"}
  PROVE  LocksInv'
<1>1. NoneRevived
  BY DEF NoneRevived, Alive
<1>2. ASSUME NEW q \in Procs PROVE JudgedHeld(q)' /\ (stolen' \/ Owned(q)')
  <2>1. CASE proc'[q].pc \in {"none", "gone"}
    BY <2>1 DEF JudgedHeld, Owned, InSection
  <2>2. CASE proc'[q].pc = proc[q].pc /\ proc'[q].verb = proc[q].verb /\ proc'[q].saw = proc[q].saw
    BY <1>1, <2>2, JudgedFrame, OwnedFrame
  <2> QED
    BY <2>1, <2>2
<1> QED
  BY <1>2 DEF LocksInv

(* What a step of one process does to the others: nothing, if it leaves the lock
   files of others in a section alone. *)
LEMMA LocksOfOthers ==
  ASSUME ProcessTypes, LocksInv, NEW p \in Procs, NEW q \in Procs, q # p,
         \A o \in Procs : o # p => proc'[o] = proc[o],
         Alive(p)' => Alive(p) \/ Free(p), stolen => stolen',
         stolen' \/ proc[q].pc \notin InSection \/ lock'[LockFileOf(q)].by = lock[LockFileOf(q)].by
  PROVE  JudgedHeld(q)' /\ (stolen' \/ Owned(q)')
<1>1. NoneRevived
  BY DEF NoneRevived, Alive
<1>2. proc'[q] = proc[q]
  OBVIOUS
<1>3. JudgedHeld(q)'
  BY <1>1, <1>2, JudgedFrame
<1>4. stolen' \/ Owned(q)'
  <2>1. CASE stolen' \/ proc[q].pc \notin InSection
    BY <1>2, <2>1 DEF Owned
  <2>2. CASE lock'[LockFileOf(q)].by = lock[LockFileOf(q)].by
    BY <1>2, <2>2, OwnedFrame
  <2> QED
    BY <2>1, <2>2
<1> QED
  BY <1>3, <1>4

(* Taking, filling, judging and unlinking. *)
LEMMA LocksProtocol ==
  ASSUME ProcessTypes, ProcessTypes', LocksInv, NEW p \in Procs,
         CreateLock(p) \/ FillLock(p) \/ Inspect(p) \/ UnlinkStale(p)
  PROVE  LocksInv'
<1> DEFINE f == LockFileOf(p)
<1>0. f \in LockFiles /\ proc[p] \in ProcType /\ lock[f] \in LockType /\ p # "none"
  BY FileIs, ProcsAssumption DEF ProcessTypes, Procs
<1>1. /\ \A o \in Procs : o # p => proc'[o] = proc[o]
      /\ proc'[p].verb = proc[p].verb
      /\ Alive(p) /\ (stolen => stolen')
  <2>1. CASE CreateLock(p)
    <3>1. Enter(p, "fill") \/ Enter(p, "inspect")
      BY <2>1 DEF CreateLock
    <3> QED
      BY <2>1, <3>1, <1>0 DEF CreateLock, Enter, ProcessTypes, ProcType, Alive, ghosts
  <2>2. CASE FillLock(p)
    <3>1. Enter(p, "serving") \/ Enter(p, "write") \/ Enter(p, "read")
      BY <2>2 DEF FillLock
    <3> QED
      BY <2>2, <3>1, <1>0 DEF FillLock, Enter, ProcessTypes, ProcType, Alive, ghosts
  <2>3. CASE Inspect(p)
    <3>1. proc[p].pc = "inspect" /\ stolen' = stolen
      BY <2>3 DEF Inspect, ghosts
    <3>2. CASE \E pc \in {"create", "gone"} : Enter(p, pc)
      BY <3>1, <3>2, <1>0 DEF Enter, ProcessTypes, ProcType, Alive
    <3>3. CASE proc' = [proc EXCEPT ![p] = [proc[p] EXCEPT !.pc = "unlink", !.saw = lock[f]]]
      BY <3>1, <3>3, <1>0 DEF ProcessTypes, ProcType, Alive
    <3> QED
      BY <2>3, <3>2, <3>3, InspectMoves
  <2>4. CASE UnlinkStale(p)
    <3>1. \E pc \in {"gone", "create"}, n \in Nat :
            proc' = [proc EXCEPT ![p] = [proc[p] EXCEPT !.pc = pc, !.saw = NoLock, !.tries = n]]
      BY <2>4, UnlinkMoves
    <3> QED
      BY <2>4, <3>1, <1>0 DEF UnlinkStale, ProcessTypes, ProcType, Alive
  <2> QED
    BY <2>1, <2>2, <2>3, <2>4
<1>2. Alive(p) /\ (stolen => stolen')
  BY <1>1
<1>3. proc'[p].verb = proc[p].verb /\ LockFileOf(p)' = f
  BY <1>1 DEF LockFileOf
<1> HIDE DEF f
<1>4. CASE CreateLock(p)
  <2>1. CASE lock[f] = NoLock
    <3>1. lock' = [lock EXCEPT ![f] = [NoLock EXCEPT !.by = p]] /\ stolen' = stolen
      BY <1>4, <2>1 DEF CreateLock, f, ghosts
    <3>2. lock'[f].by = p
      BY <3>1, <1>0 DEF ProcessTypes, NoLock
    <3>3. ASSUME NEW q \in Procs, q # p PROVE JudgedHeld(q)' /\ (stolen' \/ Owned(q)')
      <4>1. stolen \/ proc[q].pc \notin InSection \/ LockFileOf(q) # f
        <5>1. lock[f].by # q
          BY <2>1, ProcsAssumption DEF NoLock, Procs
        <5> QED
          BY <5>1 DEF LocksInv, Owned
      <4>2. LockFileOf(q) # f => lock'[LockFileOf(q)] = lock[LockFileOf(q)]
        BY <3>1
      <4> QED
        BY <1>1, <1>2, <3>1, <3>3, <4>1, <4>2, LocksOfOthers
    <3>4. proc'[p].pc = "fill"
      BY <1>4, <2>1, <1>0 DEF CreateLock, f, Enter, ProcessTypes, ProcType
    <3>5. JudgedHeld(p)' /\ Owned(p)'
      BY <1>3, <3>2, <3>4 DEF JudgedHeld, Owned
    <3> QED
      BY <3>3, <3>5 DEF LocksInv
  <2>2. CASE lock[f] # NoLock
    <3>1. lock' = lock /\ stolen' = stolen
      BY <1>4, <2>2 DEF CreateLock, f, ghosts
    <3>2. proc'[p].pc = "inspect"
      BY <1>4, <2>2, <1>0 DEF CreateLock, f, Enter, ProcessTypes, ProcType
    <3>3. ASSUME NEW q \in Procs, q # p PROVE JudgedHeld(q)' /\ (stolen' \/ Owned(q)')
      BY <1>1, <1>2, <3>1, <3>3, LocksOfOthers
    <3>4. JudgedHeld(p)' /\ Owned(p)'
      BY <3>2 DEF JudgedHeld, Owned, InSection
    <3> QED
      BY <3>3, <3>4 DEF LocksInv
  <2> QED
    BY <2>1, <2>2
<1>5. CASE FillLock(p)
  <2>1. stolen' = stolen /\ proc[p].pc = "fill"
    BY <1>5 DEF FillLock, ghosts
  <2>2. ASSUME NEW g \in LockFiles PROVE lock'[g].by = lock[g].by
    <3>1. lock' = lock \/ lock' = [lock EXCEPT ![f] = [lock[f] EXCEPT !.whole = TRUE]]
      BY <1>5 DEF FillLock, f
    <3>2. [lock[f] EXCEPT !.whole = TRUE].by = lock[f].by
      BY <1>0 DEF LockType, NoLock
    <3> QED
      BY <3>1, <3>2, <1>0 DEF ProcessTypes
  <2>3. ASSUME NEW q \in Procs, q # p PROVE JudgedHeld(q)' /\ (stolen' \/ Owned(q)')
    BY <1>1, <1>2, <2>1, <2>2, <2>3, FileIs, LocksOfOthers
  <2>4. proc'[p].pc # "unlink"
    BY <1>5, <1>0 DEF FillLock, Enter, ProcessTypes, ProcType
  <2>5. stolen' \/ Owned(p)'
    <3>1. stolen \/ lock[f].by = p
      BY <2>1 DEF LocksInv, Owned, InSection, f
    <3> QED
      BY <1>0, <1>3, <2>1, <2>2, <3>1 DEF Owned
  <2> QED
    BY <2>3, <2>4, <2>5 DEF LocksInv, JudgedHeld
<1>6. CASE Inspect(p)
  <2>1. lock' = lock /\ stolen' = stolen
    BY <1>6 DEF Inspect, ghosts
  <2>2. ASSUME NEW q \in Procs, q # p PROVE JudgedHeld(q)' /\ (stolen' \/ Owned(q)')
    BY <1>1, <1>2, <2>1, <2>2, LocksOfOthers
  <2>3. \/ proc'[p].pc \in {"create", "gone"}
        \/ proc'[p].pc = "unlink" /\ proc'[p].saw = lock[f] /\ lock[f] # NoLock /\ LockReclaimable(p, lock[f])
    <3>1. CASE \E pc \in {"create", "gone"} : Enter(p, pc)
      BY <3>1, <1>0 DEF Enter, ProcessTypes, ProcType
    <3>2. CASE /\ proc' = [proc EXCEPT ![p] = [proc[p] EXCEPT !.pc = "unlink", !.saw = lock[f]]]
               /\ lock[f] # NoLock /\ LockReclaimable(p, lock[f])
      BY <3>2, <1>0 DEF ProcessTypes, ProcType
    <3> QED
      BY <1>6, <3>1, <3>2, InspectMoves DEF f
  <2>4. Owned(p)'
    BY <2>3 DEF Owned, InSection
  <2>5. JudgedHeld(p)'
    <3>1. CASE proc'[p].pc = "unlink" /\ proc'[p].saw.whole /\ ~proc'[p].saw.aged
      <4>1. ~Alive(lock[f].by) /\ proc'[p].saw = lock[f]
        BY <2>3, <3>1 DEF LockReclaimable
      <4>2. lock[f].by # p
        BY <4>1, <1>2
      <4>3. lock[f].by \in Procs
        BY <1>0, <3>1, <4>1 DEF LockType, NoLock
      <4>4. proc'[lock[f].by] = proc[lock[f].by]
        BY <1>1, <4>2, <4>3
      <4> QED
        BY <4>1, <4>4 DEF JudgedHeld, Alive
    <3> QED
      BY <3>1 DEF JudgedHeld
  <2> QED
    BY <2>2, <2>4, <2>5 DEF LocksInv
<1>7. CASE UnlinkStale(p)
  <2>1. lock' = [lock EXCEPT ![f] = NoLock] /\ proc[p].pc = "unlink"
    BY <1>7 DEF UnlinkStale, f
  <2>2. ASSUME NEW q \in Procs, q # p PROVE JudgedHeld(q)' /\ (stolen' \/ Owned(q)')
    <3>1. stolen' \/ proc[q].pc \notin InSection \/ LockFileOf(q) # f
      <4>1. SUFFICES ASSUME ~stolen', proc[q].pc \in InSection, LockFileOf(q) = f PROVE FALSE
        OBVIOUS
      <4>2. lock[f].by = q /\ Alive(q)
        BY <4>1, <1>2 DEF LocksInv, Owned, Alive, InSection
      <4>3. lock[f] # NoLock
        BY <4>2, ProcsAssumption DEF NoLock, Procs
      <4>4. lock[f] = proc[p].saw /\ lock[f].whole /\ ~lock[f].aged
        BY <1>7, <4>1, <4>2, <4>3 DEF UnlinkStale, f
      <4>5. ~Alive(lock[f].by)
        BY <2>1, <4>4 DEF LocksInv, JudgedHeld
      <4> QED
        BY <4>2, <4>5
    <3>2. LockFileOf(q) # f => lock'[LockFileOf(q)] = lock[LockFileOf(q)]
      BY <2>1
    <3> QED
      BY <1>1, <1>2, <2>2, <3>1, <3>2, LocksOfOthers
  <2>3. proc'[p].pc \in {"create", "gone"}
    <3>1. \E pc \in {"gone", "create"}, n \in Nat :
            proc' = [proc EXCEPT ![p] = [proc[p] EXCEPT !.pc = pc, !.saw = NoLock, !.tries = n]]
      BY <1>7, UnlinkMoves
    <3> QED
      BY <3>1, <1>0 DEF ProcessTypes, ProcType
  <2> QED
    BY <2>2, <2>3 DEF LocksInv, JudgedHeld, Owned, InSection
<1> QED
  BY <1>4, <1>5, <1>6, <1>7

(* A process that has its lock moves on inside its section. *)
LEMMA LocksInside ==
  ASSUME ProcessTypes, LocksInv, NEW p \in Procs, UNCHANGED <<lock, stolen>>,
         \A o \in Procs : o # p => proc'[o] = proc[o],
         proc[p].pc \in InSection, proc'[p].verb = proc[p].verb, proc'[p].pc # "unlink"
  PROVE  LocksInv'
<1>1. Alive(p)
  BY DEF Alive, InSection
<1>2. ASSUME NEW q \in Procs, q # p PROVE JudgedHeld(q)' /\ (stolen' \/ Owned(q)')
  BY <1>1, <1>2, LocksOfOthers
<1>3. stolen' \/ Owned(p)'
  BY OwnedFrame
<1> QED
  BY <1>2, <1>3 DEF LocksInv, JudgedHeld

(* Letting go of the lock, which is one's own or was stolen before. *)
LEMMA LocksLetGo ==
  ASSUME ProcessTypes, LocksInv, NEW p \in Procs, stolen' = stolen,
         \A o \in Procs : o # p => proc'[o] = proc[o],
         proc[p].pc \in InSection, proc'[p].pc \in {"create", "gone"},
         lock' = [lock EXCEPT ![LockFileOf(p)] = NoLock]
  PROVE  LocksInv'
<1>1. Alive(p)
  BY DEF Alive, InSection
<1>2. ASSUME NEW q \in Procs, q # p PROVE JudgedHeld(q)' /\ (stolen' \/ Owned(q)')
  <2>1. stolen \/ proc[q].pc \notin InSection \/ LockFileOf(q) # LockFileOf(p)
    BY <1>2 DEF LocksInv, Owned
  <2>2. LockFileOf(q) # LockFileOf(p) => lock'[LockFileOf(q)] = lock[LockFileOf(q)]
    OBVIOUS
  <2> QED
    BY <1>1, <1>2, <2>1, <2>2, LocksOfOthers
<1>3. JudgedHeld(p)' /\ Owned(p)'
  BY DEF JudgedHeld, Owned, InSection
<1> QED
  BY <1>2, <1>3 DEF LocksInv

LEMMA LocksTerminal ==
  ASSUME ProcessTypes, LocksInv, NEW p \in Shells,
         \/ GiveUp(p) \/ ReadCurrent(p) \/ ConfirmVersion(p) \/ WriteAtomic(p)
         \/ PerformUpdate(p) \/ ReleaseLock(p)
  PROVE  LocksInv'
<1>0. p \in Procs /\ proc[p] \in ProcType
  BY DEF Procs, ProcessTypes
<1>1. CASE GiveUp(p)
  <2>1. \A q \in Procs : proc'[q] = proc[q] \/ proc'[q].pc = "gone"
    BY <1>0, <1>1 DEF GiveUp, Enter, ProcessTypes, ProcType
  <2> QED
    BY <1>1, <2>1, LocksIdle DEF GiveUp, LocksLeft, ghosts
<1>2. CASE ReadCurrent(p)
  <2>1. proc'[p].pc = "confirm" /\ proc'[p].verb = proc[p].verb
    BY <1>0, <1>2 DEF ReadCurrent, ProcessTypes, ProcType
  <2> QED
    BY <1>0, <1>2, <2>1, LocksInside DEF ReadCurrent, ghosts, InSection
<1>3. CASE ConfirmVersion(p)
  <2>1. proc'[p].pc \in {"write", "release"} /\ proc'[p].verb = proc[p].verb
    <3>1. CASE Confirmed(p)
      BY <1>0, <1>3, <3>1 DEF ConfirmVersion, ProcessTypes, ProcType
    <3>2. CASE ~Confirmed(p)
      BY <1>0, <1>3, <3>2 DEF ConfirmVersion, ProcessTypes, ProcType
    <3> QED
      BY <3>1, <3>2
  <2> QED
    BY <1>0, <1>3, <2>1, LocksInside DEF ConfirmVersion, ghosts, InSection
<1>4. CASE WriteAtomic(p)
  <2>1. proc'[p].pc = "release" /\ proc'[p].verb = proc[p].verb
    BY <1>0, <1>4 DEF WriteAtomic, Enter, ProcessTypes, ProcType
  <2> QED
    BY <1>0, <1>4, <2>1, LocksInside DEF WriteAtomic, Enter, InSection
<1>5. CASE PerformUpdate(p)
  <2>1. proc'[p].pc = "release" /\ proc'[p].verb = proc[p].verb
    BY <1>0, <1>5 DEF PerformUpdate, ProcessTypes, ProcType
  <2> QED
    BY <1>0, <1>5, <2>1, LocksInside DEF PerformUpdate, ghosts, InSection
<1>6. CASE ReleaseLock(p)
  <2>1. \E pc \in {"create", "gone"} : Enter(p, pc)
    BY <1>6 DEF ReleaseLock
  <2>2. proc'[p].pc \in {"create", "gone"} /\ \A o \in Procs : o # p => proc'[o] = proc[o]
    BY <1>0, <2>1 DEF Enter, ProcessTypes, ProcType
  <2> QED
    BY <1>0, <1>6, <2>2, LocksLetGo DEF ReleaseLock, ghosts, InSection
<1> QED
  BY <1>1, <1>2, <1>3, <1>4, <1>5, <1>6

(* A new process is in no section; its slot was free. *)
LEMMA LocksNew ==
  ASSUME ProcessTypes, LocksInv, NEW p \in Procs, NEW slots, IsSlot(p, slots),
         NEW verb, NEW supervised, UNCHANGED <<lock, stolen>>,
         proc' = [proc EXCEPT ![p] = Slot("create", verb, supervised)]
  PROVE  LocksInv'
<1>1. Free(p)
  BY SlotIsFree
<1>2. \A o \in Procs : o # p => proc'[o] = proc[o]
  OBVIOUS
<1>3. ASSUME NEW q \in Procs, q # p PROVE JudgedHeld(q)' /\ (stolen' \/ Owned(q)')
  BY <1>1, <1>2, <1>3, LocksOfOthers
<1>4. proc'[p].pc = "create"
  BY DEF ProcessTypes, Slot
<1> QED
  BY <1>3, <1>4 DEF LocksInv, JudgedHeld, Owned, InSection

LEMMA LocksWorld ==
  ASSUME ProcessTypes, LocksInv,
         \/ \E p \in Shells, v \in Verbs : RunVerb(p, v)
         \/ \E p \in Procs : Killed(p)
         \/ \E f \in Docs : LockAges(f)
         \/ DaemonFails \/ StopAsked \/ UNCHANGED procVars
         \/ \E gap \in BOOLEAN : Observe(gap)
  PROVE  LocksInv'
<1>1. ASSUME NEW p \in Shells, NEW v \in Verbs, RunVerb(p, v) PROVE LocksInv'
  BY <1>1, LocksNew DEF RunVerb, Procs
<1>2. ASSUME NEW p \in Procs, Killed(p) PROVE LocksInv'
  <2>1. \A q \in Procs : proc'[q] = proc[q] \/ proc'[q].pc = "gone"
    BY <1>2 DEF Killed, Enter, ProcessTypes, ProcType
  <2> QED
    BY <1>2, <2>1, LocksIdle DEF Killed, ghosts
<1>3. ASSUME NEW f \in Docs, LockAges(f) PROVE LocksInv'
  <2>1. f \in LockFiles /\ lock[f] \in [by : Procs, whole : BOOLEAN, aged : BOOLEAN]
    BY <1>3 DEF LockAges, ProcessTypes, LockType, LockFiles
  <2>2. lock' = [lock EXCEPT ![f] = [lock[f] EXCEPT !.aged = TRUE]] /\ proc' = proc /\ stolen' = stolen
    BY <1>3 DEF LockAges, ghosts
  <2>3. \A g \in LockFiles : lock'[g].by = lock[g].by
    BY <2>1, <2>2 DEF ProcessTypes
  <2>4. NoneRevived
    BY <2>2 DEF NoneRevived, Alive
  <2>5. ASSUME NEW q \in Procs PROVE JudgedHeld(q)' /\ (stolen' \/ Owned(q)')
    BY <2>2, <2>3, <2>4, FileIs, JudgedFrame, OwnedFrame
  <2> QED
    BY <2>5 DEF LocksInv
<1>4. CASE UNCHANGED <<proc, lock, stolen>>
  BY <1>4, LocksIdle
<1>5. DaemonFails \/ StopAsked \/ UNCHANGED procVars => UNCHANGED <<proc, lock, stolen>>
  BY DEF DaemonFails, StopAsked, procVars, ghosts
<1>6. ASSUME NEW gap \in BOOLEAN, Observe(gap) PROVE UNCHANGED <<proc, lock, stolen>>
  BY <1>6 DEF Observe, rest
<1> QED
  BY <1>1, <1>2, <1>3, <1>4, <1>5, <1>6

LEMMA LocksConsole ==
  ASSUME ProcessTypes, LocksInv, NEW c \in Consoles,
         ConsumeBootstrapRequest(c) \/ HandleTerm(c) \/ ForegroundConsole(c) \/ Interrupted(c)
  PROVE  LocksInv'
<1>0. c \in Procs /\ proc[c] \in ProcType /\ LockFileOf(c) = "instance"
  BY FileIs DEF Procs, ProcessTypes
<1>1. CASE ConsumeBootstrapRequest(c)
  BY <1>1, LocksIdle DEF ConsumeBootstrapRequest
<1>2. CASE HandleTerm(c)
  <2>1. CASE Enter(c, "gone") /\ lock' = lock
    <3>1. \A q \in Procs : proc'[q] = proc[q] \/ proc'[q].pc = "gone"
      BY <1>0, <2>1 DEF Enter, ProcessTypes, ProcType
    <3> QED
      BY <1>2, <2>1, <3>1, LocksIdle DEF HandleTerm, ghosts
  <2>2. CASE proc[c].pc = "serving" /\ Enter(c, "stopping") /\ lock' = lock
    <3>1. /\ proc'[c].pc = "stopping" /\ proc'[c].verb = proc[c].verb
          /\ \A o \in Procs : o # c => proc'[o] = proc[o]
      BY <1>0, <2>2 DEF Enter, ProcessTypes, ProcType
    <3> QED
      BY <1>0, <1>2, <2>2, <3>1, LocksInside DEF HandleTerm, ghosts, InSection
  <2>3. CASE proc[c].pc = "stopping" /\ Enter(c, "gone") /\ lock' = [lock EXCEPT !["instance"] = NoLock]
    <3>1. proc'[c].pc = "gone" /\ \A o \in Procs : o # c => proc'[o] = proc[o]
      BY <1>0, <2>3 DEF Enter, ProcessTypes, ProcType
    <3> QED
      BY <1>0, <1>2, <2>3, <3>1, LocksLetGo DEF HandleTerm, ghosts, InSection
  <2> QED
    BY <1>2, <2>1, <2>2, <2>3 DEF HandleTerm
<1>3. CASE ForegroundConsole(c)
  BY <1>0, <1>3, LocksNew DEF ForegroundConsole, Spawned, ghosts
<1>4. CASE Interrupted(c)
  <2>1. /\ proc'[c].pc = "stopping" /\ proc'[c].verb = proc[c].verb
        /\ \A o \in Procs : o # c => proc'[o] = proc[o]
    BY <1>0, <1>4 DEF Interrupted, ProcessTypes, ProcType
  <2> QED
    BY <1>0, <1>4, <2>1, LocksInside DEF Interrupted, ghosts, InSection
<1> QED
  BY <1>1, <1>2, <1>3, <1>4

LEMMA LocksSupervisor == ASSUME ProcessTypes, LocksInv, Supervisor PROVE LocksInv'
<1>0. sup.ui \in Consoles \cup {"none"}
  BY DEF ProcessTypes, SupType
<1>1. CASE StartContainer \/ Settle \/ ConsoleExited \/ Terminate
  <2>1. UNCHANGED <<lock, proc, stolen>>
    BY <1>1 DEF StartContainer, Settle, ConsoleExited, Terminate, rest
  <2> QED
    BY <2>1, LocksIdle
<1>2. ASSUME NEW pc, StartConsole(pc), UNCHANGED rest PROVE LocksInv'
  <2>1. PICK c \in Consoles : IsSlot(c, Consoles) /\ Spawned(c, TRUE)
    BY <1>2 DEF StartConsole
  <2> QED
    BY <1>2, <2>1, LocksNew DEF Spawned, Procs, rest
<1>3. ASSUME proc' = Signalled(sup.ui) \/ proc' = proc, UNCHANGED rest PROVE LocksInv'
  <2>1. CASE proc' = Signalled(sup.ui)
    BY <1>0, <1>3, <2>1, SignalTypes, LocksIdle DEF rest
  <2>2. CASE proc' = proc
    BY <1>3, <2>2, LocksIdle DEF rest
  <2> QED
    BY <1>3, <2>1, <2>2
<1>4. CASE Tick
  BY <1>2, <1>3, <1>4 DEF Tick
<1>5. CASE Respawn
  BY <1>2, <1>3, <1>5 DEF Respawn
<1>6. CASE StopChildren
  BY <1>3, <1>6 DEF StopChildren
<1>7. CASE ContainerExits
  <2>1. \A q \in Procs : proc'[q].pc \in {"none", "gone"}
    BY <1>7 DEF ContainerExits, Slot
  <2> QED
    BY <1>7, <2>1, LocksIdle DEF ContainerExits, rest
<1> QED
  BY <1>1, <1>4, <1>5, <1>6, <1>7 DEF Supervisor

LEMMA LocksKept == ProcessTypes /\ ProcessTypes' /\ LocksInv /\ [ProcessNext]_procVars => LocksInv'
<1> SUFFICES ASSUME ProcessTypes, ProcessTypes', LocksInv, [ProcessNext]_procVars PROVE LocksInv'
  OBVIOUS
<1>1. ASSUME NEW p \in Shells, Verb(p) PROVE LocksInv'
  BY <1>1, LocksProtocol, LocksTerminal DEF Verb, Procs
<1>2. ASSUME NEW c \in Consoles, Console(c) \/ ForegroundConsole(c) \/ Interrupted(c) PROVE LocksInv'
  BY <1>2, LocksProtocol, LocksConsole DEF Console, Procs
<1>3. CASE Supervisor
  BY <1>3, LocksSupervisor
<1> QED
  BY <1>1, <1>2, <1>3, LocksWorld DEF ProcessNext

-----------------------------------------------------------------------------
(* Writes. *)

(* A step that leaves the documents alone and moves no writer past its read. *)
LEMMA WritesIdle ==
  ASSUME WritesInv, UNCHANGED <<doc, applied, overtaken>>,
         \A p \in Shells : \/ proc'[p].pc \notin {"confirm", "write"} \/ proc'[p].verb = "update"
                          \/ /\ proc'[p].pc = proc[p].pc /\ proc'[p].verb = proc[p].verb
                             /\ proc'[p].base = proc[p].base /\ proc'[p].seen = proc[p].seen
  PROVE  WritesInv'
<1>1. CASE overtaken
  BY <1>1 DEF WritesInv
<1>2. CASE ~overtaken
  <2>1. NoWriteLost'
    BY <1>2 DEF WritesInv, NoWriteLost
  <2>2. ASSUME NEW p \in Shells PROVE BaseHeld(p)'
    <3>1. CASE proc'[p].pc \notin {"confirm", "write"} \/ proc'[p].verb = "update"
      BY <3>1 DEF BaseHeld
    <3>2. CASE /\ proc'[p].pc = proc[p].pc /\ proc'[p].verb = proc[p].verb
               /\ proc'[p].base = proc[p].base /\ proc'[p].seen = proc[p].seen
      <4>1. LockFileOf(p)' = LockFileOf(p)
        BY <3>2 DEF LockFileOf
      <4> QED
        BY <1>2, <3>2, <4>1 DEF WritesInv, BaseHeld
    <3> QED
      BY <3>1, <3>2
  <2> QED
    BY <2>1, <2>2 DEF WritesInv
<1> QED
  BY <1>1, <1>2

LEMMA WritesTerminal ==
  ASSUME ProcessTypes, ProcessTypes', WritesInv, NEW p \in Shells,
         \/ ReadCurrent(p) \/ ConfirmVersion(p) \/ WriteAtomic(p)
  PROVE  WritesInv'
<1> DEFINE f == LockFileOf(p)
<1>0. p \in Procs /\ proc[p] \in ProcType /\ f \in LockFiles /\ (f \in Docs <=> proc[p].verb # "update")
  BY FileIs DEF Procs, ProcessTypes
<1>1. \A q \in Shells : q # p => proc'[q] = proc[q]
  <2>1. CASE ReadCurrent(p)
    BY <2>1 DEF ReadCurrent, ProcessTypes, Procs
  <2>2. CASE ConfirmVersion(p)
    <3>1. PICK r : proc' = [proc EXCEPT ![p] = r]
      BY <2>2, Zenon DEF ConfirmVersion
    <3> QED
      BY <3>1 DEF ProcessTypes, Procs
  <2>3. CASE WriteAtomic(p)
    BY <2>3 DEF WriteAtomic, Enter, ProcessTypes, Procs
  <2> QED
    BY <2>1, <2>2, <2>3
<1>2. CASE overtaken
  BY <1>2 DEF ReadCurrent, ConfirmVersion, WriteAtomic, WritesInv, ghosts
<1>3. CASE ~overtaken /\ (ReadCurrent(p) \/ ConfirmVersion(p))
  <2>1. UNCHANGED <<doc, applied, overtaken>>
    BY <1>3 DEF ReadCurrent, ConfirmVersion, ghosts
  <2>2. NoWriteLost /\ NoWriteLost' /\ BaseHeld(p)
    BY <1>3, <2>1 DEF WritesInv, NoWriteLost
  <2>3. ASSUME NEW q \in Shells, q # p PROVE BaseHeld(q)'
    <3>1. proc'[q] = proc[q] /\ BaseHeld(q)
      BY <1>1, <1>3, <2>3 DEF WritesInv
    <3>2. LockFileOf(q)' = LockFileOf(q)
      BY <3>1 DEF LockFileOf
    <3> QED
      BY <2>1, <3>1, <3>2 DEF BaseHeld
  <2>4. proc[p].verb # "update" /\ proc'[p].verb = proc[p].verb
    <3>1. StepOf(p, proc[p])
      BY <1>0 DEF ProcessTypes
    <3>2. proc[p].verb # "update"
      BY <1>3, <3>1 DEF ReadCurrent, ConfirmVersion, StepOf
    <3>3. proc'[p].verb = proc[p].verb
      <4>1. CASE ReadCurrent(p)
        BY <1>0, <4>1 DEF ReadCurrent, ProcessTypes, ProcType
      <4>2. CASE ConfirmVersion(p)
        <5>1. CASE Confirmed(p)
          BY <1>0, <4>2, <5>1 DEF ConfirmVersion, ProcessTypes, ProcType
        <5>2. CASE ~Confirmed(p)
          BY <1>0, <4>2, <5>2 DEF ConfirmVersion, ProcessTypes, ProcType
        <5> QED
          BY <5>1, <5>2
      <4> QED
        BY <1>3, <4>1, <4>2
    <3> QED
      BY <3>2, <3>3
  <2>5. LockFileOf(p)' = f /\ f \in Docs
    BY <1>0, <2>4 DEF LockFileOf
  <2>6. doc[f].ver \in Nat
    BY <2>5 DEF ProcessTypes, DocType
  <2>7. CASE ReadCurrent(p)
    <3>1. proc'[p].pc = "confirm" /\ proc'[p].base = doc[f]
      BY <1>0, <2>7 DEF ReadCurrent, DocOf, ProcessTypes, ProcType
    <3>2. applied[f] \subseteq doc[f].marks
      BY <1>3, <2>2, <2>5 DEF NoWriteLost
    <3>3. BaseHeld(p)'
      BY <2>1, <2>5, <2>6, <3>1, <3>2 DEF BaseHeld
    <3> QED
      BY <2>2, <2>3, <3>3 DEF WritesInv
  <2>8. CASE ConfirmVersion(p)
    <3>1. proc[p].pc = "confirm"
      BY <2>8 DEF ConfirmVersion
    <3>2. /\ proc'[p].base = proc[p].base /\ proc'[p].seen = doc[f].ver
          /\ proc'[p].pc = "release" \/ (proc'[p].pc = "write" /\ proc[p].base.ver = doc[f].ver)
      <4>1. CASE Confirmed(p)
        BY <1>0, <2>8, <4>1 DEF ConfirmVersion, Confirmed, DocOf, ProcessTypes, ProcType
      <4>2. CASE ~Confirmed(p)
        BY <1>0, <2>8, <4>2 DEF ConfirmVersion, DocOf, ProcessTypes, ProcType
      <4> QED
        BY <4>1, <4>2
    <3>3. BaseHeld(p)'
      BY <2>1, <2>2, <2>4, <2>5, <3>1, <3>2 DEF BaseHeld
    <3> QED
      BY <2>2, <2>3, <3>3 DEF WritesInv
  <2> QED
    BY <1>3, <2>7, <2>8
<1>4. CASE ~overtaken /\ WriteAtomic(p)
  <2>1. CASE overtaken'
    BY <2>1 DEF WritesInv
  <2>2. CASE ~overtaken'
    <3> DEFINE b == proc[p].base
    <3>1. proc[p].pc = "write" /\ proc[p].verb # "update" /\ f \in Docs /\ doc[f].ver = proc[p].seen
      BY <1>0, <1>4, <2>2 DEF WriteAtomic
    <3>2. doc[f].ver = b.ver /\ applied[f] \subseteq b.marks /\ b.ver \in Nat
      BY <1>0, <1>4, <3>1 DEF WritesInv, BaseHeld, ProcType, DocType
    <3>3. /\ doc'[f].ver = b.ver + 1 /\ doc'[f].marks = b.marks \cup {p}
          /\ applied'[f] = applied[f] \cup {p}
      BY <1>4, <3>1 DEF WriteAtomic, Mutated, ProcessTypes
    <3>4. \A g \in Docs : g # f => doc'[g] = doc[g] /\ applied'[g] = applied[g]
      BY <1>4, <3>1 DEF WriteAtomic, ProcessTypes
    <3>5. NoWriteLost'
      <4>1. \A g \in Docs : applied[g] \subseteq doc[g].marks
        BY <1>4 DEF WritesInv, NoWriteLost
      <4> QED
        BY <3>2, <3>3, <3>4, <4>1 DEF NoWriteLost
    <3>6. proc'[p].pc = "release"
      BY <1>0, <1>4 DEF WriteAtomic, Enter, ProcessTypes, ProcType
    <3>7. ASSUME NEW q \in Shells PROVE BaseHeld(q)'
      <4>1. CASE q = p
        BY <3>6, <4>1 DEF BaseHeld
      <4>2. CASE q # p /\ proc[q].pc \in {"confirm", "write"} /\ proc[q].verb # "update"
        <5>1. proc'[q] = proc[q] /\ BaseHeld(q) /\ LockFileOf(q) \in Docs /\ proc[q].base.ver \in Nat
          BY <1>1, <1>4, <4>2, FileIs DEF WritesInv, Procs, ProcessTypes, ProcType, DocType
        <5>2. LockFileOf(q)' = LockFileOf(q)
          BY <5>1 DEF LockFileOf
        <5>3. CASE LockFileOf(q) = f
          <6>1. proc[q].base.ver <= b.ver
            BY <3>2, <4>2, <5>1, <5>3 DEF BaseHeld
          <6>2. proc[q].base.ver < doc'[f].ver
            BY <3>2, <3>3, <5>1, <6>1
          <6>3. doc'[f].ver \in Nat
            BY <3>2, <3>3
          <6> QED
            BY <4>2, <5>1, <5>2, <5>3, <6>2, <6>3 DEF BaseHeld
        <5>4. CASE LockFileOf(q) # f
          BY <3>4, <4>2, <5>1, <5>2, <5>4 DEF BaseHeld
        <5> QED
          BY <5>3, <5>4
      <4>3. CASE q # p /\ ~(proc[q].pc \in {"confirm", "write"} /\ proc[q].verb # "update")
        BY <1>1, <4>3 DEF BaseHeld
      <4> QED
        BY <4>1, <4>2, <4>3
    <3> QED
      BY <3>5, <3>7 DEF WritesInv
  <2> QED
    BY <2>1, <2>2
<1> QED
  BY <1>2, <1>3, <1>4

(* A terminal's slot starts another verb: its old mark goes from both sides. *)
LEMMA WritesVerb ==
  ASSUME ProcessTypes, WritesInv, NEW p \in Shells, NEW v \in Verbs, RunVerb(p, v)
  PROVE  WritesInv'
<1>0. p \in Procs /\ proc' = [proc EXCEPT ![p] = Slot("create", v, FALSE)]
  BY DEF RunVerb, Procs
<1>1. CASE overtaken
  BY <1>1 DEF RunVerb, WritesInv
<1>2. CASE ~overtaken
  <2>1. \A f \in Docs : /\ doc'[f].ver = doc[f].ver /\ doc'[f].marks = doc[f].marks \ {p}
                        /\ applied'[f] = applied[f] \ {p}
    BY DEF RunVerb, ProcessTypes, DocType
  <2>2. NoWriteLost'
    BY <1>2, <2>1 DEF WritesInv, NoWriteLost
  <2>3. ASSUME NEW q \in Shells PROVE BaseHeld(q)'
    <3>1. CASE q = p
      BY <1>0, <3>1 DEF BaseHeld, ProcessTypes, Slot
    <3>2. CASE q # p /\ proc[q].verb # "update"
      <4>1. proc'[q] = proc[q] /\ BaseHeld(q) /\ LockFileOf(q) \in Docs
        BY <1>0, <1>2, <3>2, FileIs DEF WritesInv, Procs
      <4>2. LockFileOf(q)' = LockFileOf(q)
        BY <4>1 DEF LockFileOf
      <4> QED
        BY <2>1, <4>1, <4>2 DEF BaseHeld
    <3>3. CASE q # p /\ proc[q].verb = "update"
      BY <1>0, <3>3 DEF BaseHeld
    <3> QED
      BY <3>1, <3>2, <3>3
  <2> QED
    BY <2>2, <2>3 DEF WritesInv
<1> QED
  BY <1>1, <1>2

LEMMA WritesKept == ProcessTypes /\ ProcessTypes' /\ WritesInv /\ [ProcessNext]_procVars => WritesInv'
<1> SUFFICES ASSUME ProcessTypes, ProcessTypes', WritesInv, [ProcessNext]_procVars PROVE WritesInv'
  OBVIOUS
(* Steps of the protocol that are neither a read, a check nor a rename. *)
<1>1. ASSUME NEW p \in Procs,
             \/ CreateLock(p) \/ FillLock(p) \/ Inspect(p) \/ UnlinkStale(p)
             \/ GiveUp(p) \/ PerformUpdate(p) \/ ReleaseLock(p)
      PROVE  WritesInv'
  <2>0. proc[p] \in ProcType
    BY DEF ProcessTypes
  <2>1. UNCHANGED <<doc, applied, overtaken>>
    BY <1>1 DEF CreateLock, FillLock, Inspect, UnlinkStale, GiveUp, PerformUpdate, ReleaseLock, ghosts
  <2>2. CASE \E pc \in {"fill", "inspect", "serving", "read", "create", "gone"} : Enter(p, pc)
    BY <2>0, <2>1, <2>2, WritesIdle DEF Enter, ProcessTypes, ProcType, Procs
  <2>3. CASE CreateLock(p)
    <3>1. Enter(p, "fill") \/ Enter(p, "inspect")
      BY <2>3 DEF CreateLock
    <3> QED
      BY <2>2, <3>1
  <2>4. CASE FillLock(p)
    <3>1. CASE p \in Shells /\ proc[p].verb = "update" /\ Enter(p, "write")
      <4>1. proc'[p].verb = "update" /\ \A q \in Shells : q # p => proc'[q] = proc[q]
        BY <2>0, <3>1 DEF Enter, ProcessTypes, ProcType, Procs
      <4> QED
        BY <2>1, <4>1, WritesIdle
    <3>2. CASE Enter(p, "serving") \/ Enter(p, "read")
      BY <2>2, <3>2
    <3> QED
      BY <2>4, <3>1, <3>2 DEF FillLock, Procs
  <2>5. CASE Inspect(p)
    <3>1. CASE proc' = [proc EXCEPT ![p] = [proc[p] EXCEPT !.pc = "unlink", !.saw = lock[LockFileOf(p)]]]
      <4>1. proc'[p].pc = "unlink" /\ \A q \in Shells : q # p => proc'[q] = proc[q]
        BY <2>0, <3>1 DEF ProcessTypes, ProcType, Procs
      <4> QED
        BY <2>1, <4>1, WritesIdle
    <3> QED
      BY <2>2, <2>5, <3>1, InspectMoves
  <2>6. CASE UnlinkStale(p)
    <3>1. PICK pc \in {"gone", "create"}, n \in Nat :
            proc' = [proc EXCEPT ![p] = [proc[p] EXCEPT !.pc = pc, !.saw = NoLock, !.tries = n]]
      BY <2>6, UnlinkMoves
    <3>2. proc'[p].pc \in {"gone", "create"} /\ \A q \in Shells : q # p => proc'[q] = proc[q]
      BY <2>0, <3>1 DEF ProcessTypes, ProcType, Procs
    <3> QED
      BY <2>1, <3>2, WritesIdle
  <2>7. CASE GiveUp(p)
    BY <2>2, <2>7 DEF GiveUp
  <2>8. CASE PerformUpdate(p)
    <3>1. proc'[p].pc = "release" /\ \A q \in Shells : q # p => proc'[q] = proc[q]
      BY <2>0, <2>8 DEF PerformUpdate, ProcessTypes, ProcType, Procs
    <3> QED
      BY <2>1, <3>1, WritesIdle
  <2>9. CASE ReleaseLock(p)
    <3>1. Enter(p, "create") \/ Enter(p, "gone")
      BY <2>9 DEF ReleaseLock
    <3> QED
      BY <2>2, <3>1
  <2> QED
    BY <1>1, <2>3, <2>4, <2>5, <2>6, <2>7, <2>8, <2>9
(* Steps after which every terminal is where it was, or gone. *)
<1>2. ASSUME UNCHANGED <<doc, applied, overtaken>>,
             \A p \in Shells : proc'[p] = proc[p] \/ proc'[p].pc \in {"none", "gone"}
      PROVE  WritesInv'
  BY <1>2, WritesIdle
<1>3. ASSUME NEW c \in Consoles, NEW r, proc' = [proc EXCEPT ![c] = r]
      PROVE  \A p \in Shells : proc'[p] = proc[p]
  BY <1>3, ProcsAssumption
<1>4. ASSUME NEW p \in Shells, Verb(p) PROVE WritesInv'
  BY <1>1, <1>4, WritesTerminal DEF Verb, Procs
<1>5. ASSUME NEW c \in Consoles, Console(c) \/ ForegroundConsole(c) \/ Interrupted(c) PROVE WritesInv'
  <2>0. c \in Procs /\ c \notin Shells
    BY ProcsAssumption DEF Procs
  <2>1. CASE ConsumeBootstrapRequest(c)
    BY <1>2, <2>1 DEF ConsumeBootstrapRequest
  <2>2. CASE HandleTerm(c)
    <3>1. \E pc : Enter(c, pc)
      BY <2>2 DEF HandleTerm
    <3>2. \A p \in Shells : proc'[p] = proc[p]
      BY <2>0, <3>1 DEF Enter
    <3> QED
      BY <1>2, <2>2, <3>2 DEF HandleTerm, ghosts
  <2>3. CASE ForegroundConsole(c)
    BY <1>2, <1>3, <2>3 DEF ForegroundConsole, Spawned, ghosts
  <2>4. CASE Interrupted(c)
    <3>1. \A p \in Shells : proc'[p] = proc[p]
      <4>1. proc' = [proc EXCEPT ![c] = [proc[c] EXCEPT !.pc = "stopping", !.term = TRUE]]
        BY <2>0, <2>4 DEF Interrupted, ProcessTypes, ProcType
      <4> QED
        BY <2>0, <4>1
    <3> QED
      BY <1>2, <2>4, <3>1 DEF Interrupted, ghosts
  <2> QED
    BY <1>1, <1>5, <2>0, <2>1, <2>2, <2>3, <2>4 DEF Console
<1>6. CASE Supervisor
  <2>0. sup.ui \in Consoles \cup {"none"}
    BY DEF ProcessTypes, SupType
  <2>1. UNCHANGED <<doc, applied, overtaken>>
    BY <1>6 DEF Supervisor, StartContainer, Settle, Tick, ConsoleExited, Respawn, Terminate,
                StopChildren, ContainerExits, rest
  <2>2. ASSUME NEW pc, StartConsole(pc) PROVE WritesInv'
    <3>1. PICK c \in Consoles : Spawned(c, TRUE)
      BY <2>2 DEF StartConsole
    <3> QED
      BY <1>2, <1>3, <2>1, <3>1 DEF Spawned
  <2>3. CASE proc' = Signalled(sup.ui)
    <3>1. \A p \in Shells : proc'[p] = proc[p]
      BY <2>0, <2>3, ProcsAssumption DEF Signalled
    <3> QED
      BY <1>2, <2>1, <3>1
  <2>4. CASE proc' = proc
    BY <1>2, <2>1, <2>4
  <2>5. CASE ContainerExits
    <3>1. \A q \in Procs : proc'[q].pc \in {"none", "gone"}
      BY <2>5 DEF ContainerExits, Slot
    <3> QED
      BY <1>2, <2>1, <3>1 DEF Procs
  <2>6. CASE StartContainer \/ Settle \/ ConsoleExited \/ Terminate
    BY <2>4, <2>6 DEF StartContainer, Settle, ConsoleExited, Terminate
  <2>7. CASE Tick
    BY <2>2, <2>3, <2>7 DEF Tick
  <2>8. CASE Respawn
    BY <2>2, <2>4, <2>8 DEF Respawn
  <2>9. CASE StopChildren
    BY <2>3, <2>9 DEF StopChildren
  <2> QED
    BY <1>6, <2>5, <2>6, <2>7, <2>8, <2>9 DEF Supervisor
<1>7. ASSUME NEW p \in Procs, Killed(p) PROVE WritesInv'
  <2>1. \A q \in Procs : proc'[q] = proc[q] \/ proc'[q].pc = "gone"
    BY <1>7 DEF Killed, Enter, ProcessTypes, ProcType
  <2> QED
    BY <1>2, <1>7, <2>1 DEF Killed, ghosts, Procs
<1>8. ASSUME NEW f \in Docs, LockAges(f) PROVE WritesInv'
  BY <1>2, <1>8 DEF LockAges, ghosts
<1>9. CASE DaemonFails \/ StopAsked \/ UNCHANGED procVars
  BY <1>2, <1>9 DEF DaemonFails, StopAsked, procVars, ghosts
<1>10. ASSUME NEW gap \in BOOLEAN, Observe(gap) PROVE WritesInv'
  <2>1. UNCHANGED <<proc, doc, applied, overtaken>>
    BY <1>10 DEF Observe, rest
  <2> QED
    BY <1>2, <2>1
<1>11. ASSUME NEW p \in Shells, NEW v \in Verbs, RunVerb(p, v) PROVE WritesInv'
  BY <1>11, WritesVerb
<1> QED
  BY <1>4, <1>5, <1>6, <1>7, <1>8, <1>9, <1>10, <1>11 DEF ProcessNext

-----------------------------------------------------------------------------
(* No two processes are in one section, unless a lock was removed half written, by
   age, or in place of the one judged; and an update that returned is in its document,
   unless a rename fell between another's last check and its rename (store-lock.ts,
   update.ts, instance.ts). *)
THEOREM LocksHoldAlways == ProcessSpec => []LocksHold
<1>1. ProcessInit(TRUE) => ProcessInv
  BY ProcessStarts
<1>2. ProcessInv /\ [ProcessNext]_procVars => ProcessInv'
  BY TypesKept, LocksKept, WritesKept DEF ProcessInv
<1>3. ProcessInv => LocksHold
  <2> SUFFICES ASSUME ProcessInv PROVE SingleHolder /\ NoWriteLost
    BY DEF LocksHold
  <2>1. SingleHolder
    BY DEF ProcessInv, LocksInv, Owned, SingleHolder
  <2>2. NoWriteLost
    BY DEF ProcessInv, WritesInv, NoWriteLost
  <2> QED
    BY <2>1, <2>2
<1> QED
  BY <1>1, <1>2, <1>3, PTL DEF ProcessSpec

-----------------------------------------------------------------------------
(* The watchdog.  The silence it counts is never longer than the reads since the *)
(* last beat, and while the daemon beats those stay within the period.           *)
WatchHeld ==
  /\ sup \in SupType /\ due \in Nat
  /\ watch \in [seen : BOOLEAN, age : Nat, silent : Nat, stale : BOOLEAN]
  /\ daemon = "up" => watch.silent <= due /\ due <= Period /\ ~watch.stale
  /\ sup.pc = "terminate" => daemon # "up"

LEMMA ObserveKeepsWatch ==
  ASSUME WatchHeld, NEW gap \in BOOLEAN, Observe(gap)
  PROVE  WatchHeld'
<1> DEFINE Seen(fresh) == watch.seen \/ fresh
           Age == IF watch.seen THEN Least(watch.age + Watched(gap), Grace) ELSE 0
           Silent(fresh) ==
             IF fresh \/ ~Seen(fresh) THEN 0 ELSE Least(watch.silent + Watched(gap), Stale + 1)
<1>1. PICK fresh \in BOOLEAN :
        /\ (daemon = "up" /\ watch.seen /\ ~gap /\ due = Period) => fresh
        /\ watch' = [seen |-> Seen(fresh), age |-> Age, silent |-> Silent(fresh),
                     stale |-> Seen(fresh) /\ Age >= Grace /\ Silent(fresh) > Stale]
        /\ due' = IF fresh THEN 0 ELSE IF gap \/ ~watch.seen THEN due ELSE Least(due + 1, Period)
  BY DEF Observe
<1>2. /\ watch.age \in Nat /\ watch.silent \in Nat /\ due \in Nat /\ Watched(gap) \in {0, 1}
      /\ Grace \in Nat /\ Stale \in Nat /\ Period \in Nat /\ Period <= Stale
      /\ gap => Watched(gap) = 0
      /\ UNCHANGED <<sup, daemon>>
  BY TimesAssumption DEF WatchHeld, Watched, Observe
<1>3. Age \in Nat /\ Silent(fresh) \in Nat /\ due' \in Nat
  BY <1>1, <1>2 DEF Least
<1>4. ASSUME daemon = "up" PROVE Silent(fresh) <= due' /\ due' <= Period
  <2>1. watch.silent <= due /\ due <= Period
    BY <1>4 DEF WatchHeld
  <2>2. CASE fresh
    BY <1>1, <1>2, <2>2
  <2>3. CASE ~fresh /\ ~watch.seen
    BY <1>1, <1>2, <2>1, <2>3
  <2>4. CASE ~fresh /\ watch.seen /\ gap
    <3>1. Watched(gap) = 0 /\ due' = due
      BY <1>1, <1>2, <2>4
    <3>2. Silent(fresh) <= watch.silent
      <4>1. watch.silent + Watched(gap) = watch.silent
        BY <1>2, <3>1
      <4>2. Silent(fresh) = 0 \/ Silent(fresh) = Least(watch.silent, Stale + 1)
        BY <4>1
      <4>3. Least(watch.silent, Stale + 1) <= watch.silent
        BY <1>2 DEF Least
      <4> QED
        BY <1>2, <4>2, <4>3
    <3> QED
      BY <1>2, <1>3, <2>1, <3>1, <3>2
  <2>5. CASE ~fresh /\ watch.seen /\ ~gap
    <3>1. due # Period
      BY <1>1, <1>4, <2>5
    <3>2. due' = due + 1
      BY <1>1, <1>2, <2>1, <2>5, <3>1 DEF Least
    <3> QED
      BY <1>2, <2>1, <2>5, <3>1, <3>2 DEF Least
  <2> QED
    BY <2>2, <2>3, <2>4, <2>5
<1> HIDE DEF Age, Silent, Seen
<1>5. /\ watch'.silent = Silent(fresh)
      /\ watch'.stale = (Seen(fresh) /\ Age >= Grace /\ Silent(fresh) > Stale)
  BY <1>1
<1>6. watch' \in [seen : BOOLEAN, age : Nat, silent : Nat, stale : BOOLEAN]
  <2>1. Seen(fresh) \in BOOLEAN
    BY <1>2 DEF Seen, WatchHeld
  <2> QED
    BY <1>1, <1>3, <2>1
<1>7. daemon = "up" => watch'.silent <= due' /\ due' <= Period /\ ~watch'.stale
  <2>1. daemon = "up" => Silent(fresh) <= due' /\ due' <= Period /\ ~(Silent(fresh) > Stale)
    BY <1>2, <1>3, <1>4
  <2> QED
    BY <1>5, <2>1, Zenon
<1> QED
  BY <1>2, <1>3, <1>6, <1>7 DEF WatchHeld

LEMMA WatchStays ==
  ASSUME WatchHeld, [ProcessNext]_procVars
  PROVE  WatchHeld'
<1>1. CASE UNCHANGED <<sup, daemon, due, watch>>
  BY <1>1 DEF WatchHeld
<1>2. CASE Supervisor
  <2>0. /\ sup \in SupType
        /\ \A pc \in {"race", "terminate"} : StartConsole(pc) => sup' \in SupType /\ sup'.pc = pc
    <3>1. sup \in SupType
      BY DEF WatchHeld
    <3>2. ASSUME NEW pc \in {"race", "terminate"}, StartConsole(pc) PROVE sup' \in SupType /\ sup'.pc = pc
      <4>1. PICK c \in Consoles : Spawned(c, TRUE) /\ sup' = [sup EXCEPT !.pc = pc, !.ui = c]
        BY <3>2 DEF StartConsole
      <4>2. pc \in {"gone", "race", "backoff", "terminate", "stop", "leave"} /\ c \in Consoles \cup {"none"}
        OBVIOUS
      <4> QED
        BY <3>1, <4>1, <4>2 DEF SupType
    <3> QED
      BY <3>1, <3>2
  <2>1. ASSUME UNCHANGED <<daemon, due, watch>>, sup' \in SupType, sup'.pc = "terminate" => daemon # "up"
        PROVE  WatchHeld'
    BY <2>1 DEF WatchHeld
  <2>2. CASE StartContainer
    BY <2>2, TimesAssumption DEF StartContainer, WatchHeld, FreshWatch, SupType
  <2>3. CASE Settle
    <3>1. sup' \in SupType /\ (sup'.pc = "terminate" => watch.stale)
      BY <2>3 DEF Settle, WatchHeld, SupType, Undisturbed
    <3> QED
      BY <2>1, <2>3, <3>1 DEF Settle, WatchHeld
  <2>4. CASE Tick \/ ConsoleExited
    <3>1. sup' \in SupType /\ sup'.pc # "terminate"
      <4>1. CASE StartConsole("race")
        BY <2>0, <4>1
      <4>2. CASE sup' = [sup EXCEPT !.ui = "none"] /\ sup.pc = "race"
        BY <2>0, <4>2 DEF SupType
      <4>3. CASE ConsoleExited
        BY <2>0, <4>3 DEF ConsoleExited, SupType
      <4> QED
        BY <2>4, <4>1, <4>2, <4>3 DEF Tick
    <3> QED
      BY <2>1, <2>4, <3>1 DEF Tick, ConsoleExited
  <2>5. CASE Respawn
    <3>1. sup' \in SupType /\ (sup'.pc = "terminate" => watch.stale)
      <4>1. CASE sup' = [sup EXCEPT !.pc = "stop"]
        BY <2>0, <4>1 DEF SupType
      <4>2. CASE StartConsole(IF watch.stale /\ daemon # "gone" THEN "terminate" ELSE "race")
        <5>1. CASE watch.stale /\ daemon # "gone"
          BY <2>0, <4>2, <5>1
        <5>2. CASE ~(watch.stale /\ daemon # "gone")
          BY <2>0, <4>2, <5>2
        <5> QED
          BY <5>1, <5>2
      <4> QED
        BY <2>5, <4>1, <4>2 DEF Respawn
    <3> QED
      BY <2>1, <2>5, <3>1 DEF Respawn, WatchHeld
  <2>6. CASE Terminate \/ ContainerExits
    BY <2>6 DEF Terminate, ContainerExits, WatchHeld, SupType
  <2>7. CASE StopChildren
    BY <2>7 DEF StopChildren, WatchHeld, SupType
  <2> QED
    BY <1>2, <2>2, <2>3, <2>4, <2>5, <2>6, <2>7 DEF Supervisor
<1>3. CASE DaemonFails \/ StopAsked
  BY <1>3 DEF DaemonFails, StopAsked, WatchHeld, SupType
<1>4. CASE \E gap \in BOOLEAN : Observe(gap)
  BY <1>4, ObserveKeepsWatch
<1>5. ASSUME NEW p \in Shells, Verb(p) \/ \E v \in Verbs : RunVerb(p, v) PROVE UNCHANGED <<sup, daemon, due, watch>>
  BY <1>5 DEF Verb, RunVerb, CreateLock, FillLock, Inspect, UnlinkStale, GiveUp, ReadCurrent, ConfirmVersion,
              WriteAtomic, PerformUpdate, ReleaseLock, supervision
<1>6. ASSUME NEW c \in Consoles, Console(c) \/ ForegroundConsole(c) \/ Interrupted(c)
      PROVE  UNCHANGED <<sup, daemon, due, watch>>
  BY <1>6 DEF Console, ForegroundConsole, Interrupted, CreateLock, FillLock, Inspect, UnlinkStale, GiveUp,
              ConsumeBootstrapRequest, HandleTerm, ReleaseLock, supervision
<1>7. ASSUME NEW p \in Procs, Killed(p) PROVE UNCHANGED <<sup, daemon, due, watch>>
  BY <1>7 DEF Killed, supervision
<1>8. ASSUME NEW f \in Docs, LockAges(f) PROVE UNCHANGED <<sup, daemon, due, watch>>
  BY <1>8 DEF LockAges, supervision
<1> QED
  BY <1>1, <1>2, <1>3, <1>4, <1>5, <1>6, <1>7, <1>8 DEF ProcessNext, procVars

(* A daemon that beats is never stopped for silence, whatever the scheduler, the
   consoles and the operator do meanwhile and however long the machine sleeps between
   two reads, as long as a beat comes within staleMs (container-watchdog.ts). *)
THEOREM BeatingIsSparedHolds == ProcessSpec => BeatingIsSpared
<1>1. ProcessInit(TRUE) => WatchHeld
  BY TimesAssumption DEF ProcessInit, WatchHeld, SupType, FreshWatch
<1>2. WatchHeld /\ [ProcessNext]_procVars => WatchHeld'
  BY WatchStays
<1>3. WatchHeld => (sup.pc = "terminate" => daemon # "up")
  BY DEF WatchHeld
<1> QED
  BY <1>1, <1>2, <1>3, PTL DEF ProcessSpec, BeatingIsSpared

-----------------------------------------------------------------------------
(***************************************************************************)
(* What the console answers from (ConsoleReads).                           *)
(*                                                                         *)
(*  - AttemptHeld: an attempt under way has noticed when the database it   *)
(*    asks, or the one pg.json names, could not have answered, so that a   *)
(*    refusal handed to whoever waited is grounded;                        *)
(*  - VaultHeld: the credential in memory is not newer than its file, and  *)
(*    the bucket it was read with is only then not the current one when    *)
(*    the file has been rewritten since;                                   *)
(*  - AskHeld: a request that has seen the file's signature and finds it   *)
(*    in memory was under way while that bucket was served from.           *)
(***************************************************************************)
Handles == {NoDb} \cup Databases
OutsideType == [on : BOOLEAN, coords : Handles, reach : SUBSET Databases, version : Nat, bucket : {1, 2},
                holds : SUBSET {1, 2}, left : Nat, reads : Nat]
AttemptType == [pc : {"idle", "reading", "opening"}, dsn : Handles, sour : BOOLEAN]
MountType == [handle : Handles, says : {"not-configured", "unavailable", "ready"}, attempt : AttemptType,
              sig : Nat, vault : 0..2, store : 0..2]
AskType == [kind : Kinds \cup {""},
            pc : {"idle", "recording", "waiting", "querying", "stat", "reading", "heading", "told"},
            db : 0..2, served : SUBSET {1, 2},
            said : {"", "rows", "refused", "unknown", "failed", "unchecked", "unrecorded", "healthy", "missing"},
            from : 0..2, sour : BOOLEAN, stat : Nat, recorded : BOOLEAN]

ReadTypes == outside \in OutsideType /\ mount \in MountType /\ asks \in [Readers -> AskType]

AttemptHeld(o, m) == m.attempt.pc # "idle" /\ (Bad(o) \/ Gone(m.attempt, o)) => m.attempt.sour

VaultHeld(o, m) ==
  /\ o.version > 0 /\ m.sig <= o.version /\ m.vault <= o.bucket
  /\ m.store = 0 \/ m.store = m.vault
  /\ m.sig > 0 => m.vault > 0
  /\ m.vault = 1 /\ o.bucket = 2 => m.sig < o.version

BucketHeld(a, o, m) ==
  /\ a.pc # "idle" => o.bucket \in a.served
  /\ a.stat <= o.version
  /\ a.pc = "reading" => a.stat > 0
  /\ a.pc = "reading" /\ m.vault = 1 /\ m.sig = a.stat => 1 \in a.served
  /\ a.pc = "heading" => a.db \in a.served
  /\ a.pc = "told" /\ a.said \in {"missing", "healthy"} => a.db \in a.served

AskHeld(a) ==
  /\ a.pc = "querying" => a.db # NoDb
  /\ a.pc = "waiting" => a.kind # "facts"
  /\ a.kind = "export" /\ a.pc \notin {"idle", "recording"} /\ ~(a.pc = "told" /\ a.said = "unrecorded")
       => a.recorded
  /\ a.pc = "told" /\ a.said = "rows" => a.from # NoDb
  /\ a.pc = "told" /\ a.said = "refused" => a.sour /\ a.kind # "facts"

ReadsInv ==
  /\ ReadTypes /\ AttemptHeld(outside, mount) /\ VaultHeld(outside, mount)
  /\ \A r \in Readers : BucketHeld(asks[r], outside, mount) /\ AskHeld(asks[r])

-----------------------------------------------------------------------------
(* What the pieces do.                                                     *)

LEMMA AskSet ==
  ASSUME ReadTypes, NEW r \in Readers, NEW a \in AskType, asks' = [asks EXCEPT ![r] = a]
  PROVE  asks' \in [Readers -> AskType] /\ asks'[r] = a /\ \A q \in Readers : q # r => asks'[q] = asks[q]
BY DEF ReadTypes

LEMMA BucketFrame ==
  ASSUME NEW a, NEW o, NEW m, NEW n, BucketHeld(a, o, m), n.vault = m.vault, n.sig = m.sig
  PROVE  BucketHeld(a, o, n)
BY DEF BucketHeld

(* A refresh begins an attempt, or joins the one under way. *)
LEMMA Refreshed ==
  ASSUME outside \in OutsideType, NEW m \in MountType, AttemptHeld(outside, m), VaultHeld(outside, m)
  PROVE  /\ Refresh(m) \in MountType /\ AttemptHeld(outside, Refresh(m)) /\ VaultHeld(outside, Refresh(m))
         /\ Refresh(m).vault = m.vault /\ Refresh(m).sig = m.sig
<1> DEFINE sour == Bad(outside)
           attempt == [NoAttempt EXCEPT !.pc = "reading", !.sour = sour]
           n == [m EXCEPT !.attempt = attempt]
<1>1. sour \in BOOLEAN
  BY DEF Bad
<1>2. Refresh(m) = n \/ Refresh(m) = m
  BY DEF Refresh, Begin
<1>3. sour <=> Bad(outside)
  OBVIOUS
<1> HIDE DEF sour
<1>4. attempt \in AttemptType /\ attempt.pc = "reading" /\ attempt.sour = sour
  BY <1>1 DEF NoAttempt, AttemptType, Handles
<1> HIDE DEF attempt
<1>5. /\ n \in MountType /\ n.attempt = attempt /\ n.vault = m.vault /\ n.sig = m.sig /\ n.store = m.store
  BY <1>4 DEF MountType
<1> HIDE DEF n
<1>6. AttemptHeld(outside, n)
  BY <1>3, <1>4, <1>5 DEF AttemptHeld, Gone
<1>7. VaultHeld(outside, n)
  BY <1>5 DEF VaultHeld
<1> QED
  BY <1>2, <1>5, <1>6, <1>7

(* One request moves; the world and what is in memory of the bucket stay. *)
LEMMA ReaderKeeps ==
  ASSUME ReadsInv, NEW r \in Readers, NEW a \in AskType, asks' = [asks EXCEPT ![r] = a],
         outside' \in OutsideType, outside'.coords = outside.coords, outside'.reach = outside.reach,
         outside'.version = outside.version, outside'.bucket = outside.bucket,
         mount' = mount \/ mount' = Refresh(mount),
         BucketHeld(a, outside, mount), AskHeld(a)
  PROVE  ReadsInv'
<1>0. ReadTypes /\ AttemptHeld(outside, mount) /\ VaultHeld(outside, mount)
  BY DEF ReadsInv
<1>1. /\ mount' \in MountType /\ AttemptHeld(outside, mount') /\ VaultHeld(outside, mount')
      /\ mount'.vault = mount.vault /\ mount'.sig = mount.sig
  BY <1>0, Refreshed DEF ReadTypes
<1>2. asks' \in [Readers -> AskType] /\ asks'[r] = a /\ \A q \in Readers : q # r => asks'[q] = asks[q]
  BY <1>0, AskSet
<1>3. AttemptHeld(outside', mount') /\ VaultHeld(outside', mount')
  BY <1>1 DEF AttemptHeld, VaultHeld, Bad, Gone
<1>4. \A q \in Readers : BucketHeld(asks'[q], outside, mount) /\ AskHeld(asks'[q])
  BY <1>2 DEF ReadsInv
<1>5. \A q \in Readers : BucketHeld(asks'[q], outside', mount')
  BY <1>1, <1>4 DEF BucketHeld
<1> QED
  BY <1>1, <1>2, <1>3, <1>4, <1>5 DEF ReadsInv, ReadTypes

(* What a read is given that comes for the handle. *)
LEMMA AskedIs ==
  ASSUME ReadTypes, NEW a \in AskType, a.stat <= outside.version, outside.bucket \in a.served,
         a.kind = "export" => a.recorded
  PROVE  Asked(a) \in AskType /\ AskHeld(Asked(a)) /\ BucketHeld(Asked(a), outside, mount)
<1>0. mount.handle \in 0..2
  BY DEF ReadTypes, MountType, Handles, NoDb, Databases
<1>1. CASE mount.handle # NoDb
  <2> DEFINE b == [a EXCEPT !.pc = "querying", !.db = mount.handle]
  <2>1. Asked(a) = b
    BY <1>1 DEF Asked
  <2>2. /\ b \in AskType /\ b.pc = "querying" /\ b.db = mount.handle /\ b.stat = a.stat /\ b.served = a.served
        /\ b.kind = a.kind /\ b.recorded = a.recorded
    BY <1>0 DEF AskType
  <2> HIDE DEF b
  <2> QED
    BY <1>1, <2>1, <2>2 DEF AskHeld, BucketHeld
<1>2. CASE mount.handle = NoDb /\ a.kind = "facts"
  <2> DEFINE b == [a EXCEPT !.pc = "told", !.said = "unknown"]
  <2>1. Asked(a) = b
    BY <1>2 DEF Asked, Handless
  <2>2. /\ b \in AskType /\ b.pc = "told" /\ b.said = "unknown" /\ b.stat = a.stat /\ b.served = a.served
        /\ b.kind = a.kind
    BY DEF AskType
  <2> HIDE DEF b
  <2> QED
    BY <1>2, <2>1, <2>2 DEF AskHeld, BucketHeld
<1>3. CASE mount.handle = NoDb /\ a.kind # "facts"
  <2> DEFINE b == [a EXCEPT !.pc = "waiting"]
  <2>1. Asked(a) = b
    BY <1>3 DEF Asked, Handless
  <2>2. /\ b \in AskType /\ b.pc = "waiting" /\ b.stat = a.stat /\ b.served = a.served
        /\ b.kind = a.kind /\ b.recorded = a.recorded
    BY DEF AskType
  <2> HIDE DEF b
  <2> QED
    BY <1>3, <2>1, <2>2 DEF AskHeld, BucketHeld
<1> QED
  BY <1>1, <1>2, <1>3

(* A request that ends with what it has to say. *)
LEMMA ToldIs ==
  ASSUME NEW a \in AskType, NEW said, said \in {"failed", "unchecked", "rows", "healthy", "missing", "unrecorded"},
         NEW from \in 0..2,
         a.stat <= outside.version, outside.bucket \in a.served, a.kind = "export" /\ said # "unrecorded" => a.recorded,
         said = "rows" => from # NoDb, said \in {"healthy", "missing"} => a.db \in a.served
  PROVE  LET b == [a EXCEPT !.pc = "told", !.said = said, !.from = from]
         IN  b \in AskType /\ AskHeld(b) /\ BucketHeld(b, outside, mount)
<1> DEFINE b == [a EXCEPT !.pc = "told", !.said = said, !.from = from]
<1>1. /\ b \in AskType /\ b.pc = "told" /\ b.said = said /\ b.from = from /\ b.stat = a.stat
      /\ b.served = a.served /\ b.kind = a.kind /\ b.recorded = a.recorded /\ b.db = a.db
  BY DEF AskType
<1> HIDE DEF b
<1>2. AskHeld(b) /\ BucketHeld(b, outside, mount)
  BY <1>1 DEF AskHeld, BucketHeld
<1> QED
  BY <1>1, <1>2 DEF b

-----------------------------------------------------------------------------
(* The steps of a request.                                                 *)

(* What the invariant says of one request. *)
LEMMA OneRequest ==
  ASSUME ReadsInv, NEW r \in Readers
  PROVE  /\ asks[r] \in AskType /\ BucketHeld(asks[r], outside, mount) /\ AskHeld(asks[r])
         /\ asks \in [Readers -> AskType] /\ outside \in OutsideType /\ mount \in MountType
BY DEF ReadsInv, ReadTypes

LEMMA ArriveKeeps ==
  ASSUME ReadsInv, NEW r \in Readers, NEW kind \in Kinds, Arrive(r, kind)
  PROVE  ReadsInv'
<1> DEFINE sour == Bad(outside)
           buckets == {outside.bucket}
           a == [NoAsk EXCEPT !.kind = kind, !.sour = sour, !.served = buckets]
<1>0. ReadTypes /\ outside \in OutsideType
  BY DEF ReadsInv, ReadTypes
<1>1. outside.reads > 0 /\ outside' = [outside EXCEPT !.reads = @ - 1]
  BY DEF Arrive
<1>2. \/ kind = "export" /\ asks' = [asks EXCEPT ![r] = [a EXCEPT !.pc = "recording"]] /\ mount' = mount
      \/ kind # "export" /\ asks' = [asks EXCEPT ![r] = Asked(a)] /\ mount' = Refresh(mount)
  BY DEF Arrive
<1>3. sour \in BOOLEAN /\ buckets \subseteq {1, 2} /\ outside.bucket \in buckets
  BY <1>0 DEF Bad, OutsideType
<1> HIDE DEF sour, buckets
<1>4. /\ a \in AskType /\ a.kind = kind /\ a.served = buckets /\ a.stat = 0 /\ a.said = "" /\ a.pc = "idle"
  <2>1. /\ NoAsk \in AskType /\ NoAsk.stat = 0 /\ NoAsk.said = "" /\ NoAsk.pc = "idle"
    BY DEF NoAsk, AskType, Kinds, NoDb
  <2>2. kind \in Kinds \cup {""}
    OBVIOUS
  <2>3. a \in AskType
    BY <1>3, <2>1, <2>2 DEF AskType
  <2>4. a.kind = kind /\ a.served = buckets
    BY <2>1 DEF AskType
  <2>5. a.stat = NoAsk.stat /\ a.said = NoAsk.said /\ a.pc = NoAsk.pc
    BY <2>1 DEF AskType
  <2> QED
    BY <2>1, <2>3, <2>4, <2>5
<1> HIDE DEF a
<1>5. /\ outside' \in OutsideType /\ outside'.coords = outside.coords /\ outside'.reach = outside.reach
      /\ outside'.version = outside.version /\ outside'.bucket = outside.bucket
  <2> DEFINE left == outside.reads - 1
  <2>1. left \in Nat /\ outside' = [outside EXCEPT !.reads = left]
    BY <1>0, <1>1 DEF OutsideType
  <2> HIDE DEF left
  <2> QED
    BY <1>0, <2>1 DEF OutsideType
<1>6. a.stat <= outside.version
  <2>1. outside.version \in Nat
    BY <1>0 DEF OutsideType
  <2>2. a.stat = 0
    BY <1>4
  <2> QED
    BY <2>1, <2>2
<1>7. CASE kind = "export"
  <2> DEFINE b == [a EXCEPT !.pc = "recording"]
  <2>1. b \in AskType /\ b.pc = "recording" /\ b.served = a.served /\ b.stat = a.stat
    BY <1>4 DEF AskType
  <2>2. asks' = [asks EXCEPT ![r] = b] /\ mount' = mount
    BY <1>2, <1>7
  <2> HIDE DEF b
  <2>3. AskHeld(b) /\ BucketHeld(b, outside, mount)
    BY <1>3, <1>4, <1>6, <2>1 DEF AskHeld, BucketHeld
  <2> QED
    BY <1>5, <2>1, <2>2, <2>3, ReaderKeeps
<1>8. CASE kind # "export"
  <2>1. Asked(a) \in AskType /\ AskHeld(Asked(a)) /\ BucketHeld(Asked(a), outside, mount)
    BY <1>0, <1>3, <1>4, <1>6, <1>8, AskedIs
  <2>2. asks' = [asks EXCEPT ![r] = Asked(a)] /\ mount' = Refresh(mount)
    BY <1>2, <1>8
  <2> QED
    BY <1>5, <2>1, <2>2, ReaderKeeps
<1> QED
  BY <1>7, <1>8

LEMMA RecordKeeps ==
  ASSUME ReadsInv, NEW r \in Readers, Record(r)
  PROVE  ReadsInv'
<1> DEFINE a == [asks[r] EXCEPT !.recorded = TRUE]
           b == [asks[r] EXCEPT !.pc = "told", !.said = "unrecorded"]
<1>0. ReadTypes /\ asks[r].pc = "recording" /\ outside' = outside
  BY DEF ReadsInv, Record
<1>1. asks[r].stat <= outside.version /\ outside.bucket \in asks[r].served
  BY <1>0, OneRequest DEF BucketHeld
<1>2. \/ mount' = Refresh(mount) /\ asks' = [asks EXCEPT ![r] = Asked(a)]
      \/ mount' = mount /\ asks' = [asks EXCEPT ![r] = b]
  BY OneRequest DEF Record
<1>3. a \in AskType /\ a.stat = asks[r].stat /\ a.served = asks[r].served /\ a.recorded
  BY OneRequest DEF AskType
<1>4. /\ b \in AskType /\ b.pc = "told" /\ b.said = "unrecorded" /\ b.stat = asks[r].stat
      /\ b.served = asks[r].served
  BY OneRequest DEF AskType
<1> HIDE DEF a, b
<1>5. Asked(a) \in AskType /\ AskHeld(Asked(a)) /\ BucketHeld(Asked(a), outside, mount)
  BY <1>0, <1>1, <1>3, AskedIs
<1>6. AskHeld(b) /\ BucketHeld(b, outside, mount)
  BY <1>1, <1>4 DEF AskHeld, BucketHeld
<1> QED
  BY <1>0, <1>2, <1>4, <1>5, <1>6, ReaderKeeps, OneRequest

LEMMA QueryKeeps ==
  ASSUME ReadsInv, NEW r \in Readers, Query(r)
  PROVE  ReadsInv'
<1> DEFINE a == asks[r]
           end(said) == [a EXCEPT !.pc = "told", !.said = said, !.from = a.db]
           b == [a EXCEPT !.pc = "stat"]
<1>0. a \in AskType /\ BucketHeld(a, outside, mount) /\ AskHeld(a) /\ a.pc = "querying"
  BY OneRequest DEF Query
<1>1. outside' = outside /\ mount' = mount /\ outside \in OutsideType
  BY OneRequest DEF Query
<1>2. \/ \E said \in {"failed", "rows", "unchecked"} : asks' = [asks EXCEPT ![r] = end(said)]
      \/ asks' = [asks EXCEPT ![r] = b]
  BY OneRequest DEF Query
<1>3. /\ a.stat <= outside.version /\ outside.bucket \in a.served /\ a.db \in 0..2 /\ a.db # NoDb
      /\ a.kind = "export" => a.recorded
  BY <1>0 DEF BucketHeld, AskHeld, AskType
<1>4. b \in AskType /\ AskHeld(b) /\ BucketHeld(b, outside, mount)
  <2>1. /\ b \in AskType /\ b.pc = "stat" /\ b.stat = a.stat /\ b.served = a.served /\ b.kind = a.kind
        /\ b.said = a.said /\ b.recorded = a.recorded
    BY <1>0 DEF AskType
  <2> HIDE DEF b
  <2> QED
    BY <1>0, <2>1 DEF AskHeld, BucketHeld
<1>5. CASE asks' = [asks EXCEPT ![r] = b]
  BY <1>1, <1>4, <1>5, ReaderKeeps
<1>6. ASSUME NEW said \in {"failed", "rows", "unchecked"}, asks' = [asks EXCEPT ![r] = end(said)]
      PROVE  ReadsInv'
  <2>1. end(said) \in AskType /\ AskHeld(end(said)) /\ BucketHeld(end(said), outside, mount)
    BY <1>0, <1>3, ToldIs
  <2> HIDE DEF end
  <2> QED
    BY <1>1, <1>6, <2>1, ReaderKeeps
<1> QED
  BY <1>2, <1>5, <1>6

LEMMA StatKeeps ==
  ASSUME ReadsInv, NEW r \in Readers, Stat(r)
  PROVE  ReadsInv'
<1> DEFINE a == asks[r]
           b == [a EXCEPT !.pc = "reading", !.stat = outside.version]
<1>0. a \in AskType /\ BucketHeld(a, outside, mount) /\ AskHeld(a) /\ a.pc = "stat"
  BY OneRequest DEF Stat
<1>1. outside' = outside /\ mount' = mount /\ outside \in OutsideType /\ VaultHeld(outside, mount)
  BY OneRequest DEF Stat, ReadsInv
<1>2. asks' = [asks EXCEPT ![r] = b]
  BY OneRequest DEF Stat
<1>3. outside.version \in Nat /\ outside.version > 0 /\ outside.bucket \in {1, 2}
  BY <1>1 DEF OutsideType, VaultHeld
<1>4. /\ b \in AskType /\ b.pc = "reading" /\ b.stat = outside.version /\ b.served = a.served
      /\ b.kind = a.kind /\ b.recorded = a.recorded
  BY <1>0, <1>3 DEF AskType
<1> HIDE DEF b
<1>5. AskHeld(b)
  BY <1>0, <1>4 DEF AskHeld
<1>6. BucketHeld(b, outside, mount)
  <2>1. outside.bucket \in b.served
    BY <1>0, <1>4 DEF BucketHeld
  <2>2. mount.vault = 1 /\ mount.sig = b.stat => outside.bucket = 1
    BY <1>1, <1>3, <1>4 DEF VaultHeld
  <2> QED
    BY <1>3, <1>4, <2>1, <2>2 DEF BucketHeld
<1> QED
  BY <1>1, <1>2, <1>4, <1>5, <1>6, ReaderKeeps

(* The bucket asked is the one the credential in memory names, and that one was
   served from since the file was last seen to have this signature. *)
LEMMA BindKeeps ==
  ASSUME ReadsInv, NEW r \in Readers, Bind(r)
  PROVE  ReadsInv'
<1> DEFINE a == asks[r]
           s == a.stat
           synced == [mount EXCEPT !.sig = s, !.vault = outside.bucket, !.store = 0]
           m == IF mount.sig = s THEN mount ELSE synced
           store == IF m.store = 0 THEN m.vault ELSE m.store
           n == [m EXCEPT !.store = store]
           b == [a EXCEPT !.pc = "heading", !.db = store]
<1>0. a \in AskType /\ BucketHeld(a, outside, mount) /\ AskHeld(a) /\ a.pc = "reading"
  BY OneRequest DEF Bind
<1>1. outside' = outside /\ outside \in OutsideType /\ mount \in MountType
  BY OneRequest DEF Bind
<1>2. AttemptHeld(outside, mount) /\ VaultHeld(outside, mount)
  BY DEF ReadsInv
<1>3. s \in Nat /\ s > 0 /\ s <= outside.version /\ outside.bucket \in {1, 2} /\ outside.bucket \in 0..2
  <2>1. s \in Nat
    BY <1>0 DEF AskType
  <2>2. s > 0 /\ s <= outside.version
    BY <1>0 DEF BucketHeld
  <2>3. outside.bucket \in {1, 2}
    BY <1>1 DEF OutsideType
  <2> QED
    BY <2>1, <2>2, <2>3
<1>4. m \in MountType /\ m.attempt = mount.attempt /\ m.sig = s /\ m.vault \in 0..2
  <2>1. /\ synced \in MountType /\ synced.attempt = mount.attempt /\ synced.sig = s
        /\ synced.vault = outside.bucket
    <3> DEFINE vaulted == outside.bucket
    <3>1. s \in Nat /\ vaulted \in 0..2 /\ 0 \in 0..2
      BY <1>3
    <3> HIDE DEF s, vaulted
    <3>2. synced = [mount EXCEPT !.sig = s, !.vault = vaulted, !.store = 0]
      BY DEF vaulted
    <3> HIDE DEF synced
    <3>3. synced \in MountType
      BY <1>1, <3>1, <3>2 DEF MountType
    <3>4. synced.attempt = mount.attempt /\ synced.sig = s /\ synced.vault = vaulted
      BY <1>1, <3>2 DEF MountType
    <3> QED
      BY <3>3, <3>4 DEF vaulted
  <2> HIDE DEF synced
  <2> QED
    BY <1>1, <2>1 DEF MountType
<1>5. \/ m.vault = outside.bucket /\ m.store = 0
      \/ m = mount /\ mount.sig = s
  <2>1. synced.vault = outside.bucket /\ synced.store = 0
    BY <1>1 DEF MountType
  <2> HIDE DEF synced
  <2> QED
    BY <2>1
<1>6. mount' = n /\ n.store = store
  <2>1. n.store = store
    <3> HIDE DEF m, store
    <3> QED
      BY <1>4 DEF MountType
  <2>2. mount' = n
    BY DEF Bind, Sync
  <2> QED
    BY <2>1, <2>2
<1>7. asks' = [asks EXCEPT ![r] = b]
  <2>1. asks' = [asks EXCEPT ![r].pc = "heading", ![r].db = n.store]
    BY DEF Bind, Sync
  <2> HIDE DEF n, store
  <2> QED
    BY <1>6, <2>1, OneRequest
<1> HIDE DEF m
<1>8. store = m.vault /\ store \in 0..2 /\ store \in a.served
  <2>1. store = m.vault
    BY <1>2, <1>5 DEF VaultHeld
  <2>2. m.vault = outside.bucket \/ (m.vault = 1 /\ m = mount /\ mount.sig = s)
    <3>1. CASE m = mount /\ mount.sig = s
      <4>1. m.vault > 0 /\ m.vault <= outside.bucket
        BY <1>2, <1>3, <3>1 DEF VaultHeld
      <4> QED
        BY <1>3, <1>4, <3>1, <4>1
    <3> QED
      BY <1>5, <3>1
  <2>3. m.vault \in a.served
    BY <1>0, <2>2 DEF BucketHeld
  <2> QED
    BY <1>4, <2>1, <2>3
<1> HIDE DEF store
<1>9. n \in MountType /\ n.attempt = mount.attempt /\ n.vault = m.vault /\ n.sig = s
  BY <1>4, <1>8 DEF MountType
<1>10. /\ b \in AskType /\ b.pc = "heading" /\ b.db = store /\ b.served = a.served /\ b.stat = s
       /\ b.kind = a.kind /\ b.recorded = a.recorded
  BY <1>0, <1>8 DEF AskType
<1> HIDE DEF n, b
<1>11. AttemptHeld(outside, n)
  BY <1>2, <1>9 DEF AttemptHeld, Gone
<1>12. VaultHeld(outside, n)
  <2>1. n.store = n.vault
    BY <1>6, <1>8, <1>9
  <2>2. CASE n.vault = outside.bucket
    BY <1>2, <1>3, <1>9, <2>1, <2>2 DEF VaultHeld
  <2>3. CASE n.vault = mount.vault /\ mount.sig = s
    BY <1>2, <1>9, <2>1, <2>3 DEF VaultHeld
  <2> QED
    BY <1>5, <1>9, <2>2, <2>3
<1>13. AskHeld(b) /\ BucketHeld(b, outside, n)
  BY <1>0, <1>8, <1>10 DEF AskHeld, BucketHeld
<1>14. asks' \in [Readers -> AskType] /\ asks'[r] = b /\ \A q \in Readers : q # r => asks'[q] = asks[q]
  BY <1>7, <1>10, AskSet DEF ReadsInv
<1>15. ASSUME NEW q \in Readers, q # r PROVE BucketHeld(asks[q], outside, n)
  <2>1. BucketHeld(asks[q], outside, mount)
    BY DEF ReadsInv
  <2>2. CASE n.vault = mount.vault /\ mount.sig = s
    BY <1>9, <2>1, <2>2 DEF BucketHeld
  <2>3. CASE n.vault = outside.bucket
    BY <2>1, <2>3 DEF BucketHeld
  <2> QED
    BY <1>5, <1>9, <2>2, <2>3
<1>16. \A q \in Readers : BucketHeld(asks'[q], outside, n) /\ AskHeld(asks'[q])
  BY <1>13, <1>14, <1>15 DEF ReadsInv
<1> QED
  BY <1>1, <1>6, <1>9, <1>11, <1>12, <1>14, <1>16 DEF ReadsInv, ReadTypes

LEMMA HeadObjectKeeps ==
  ASSUME ReadsInv, NEW r \in Readers, HeadObject(r)
  PROVE  ReadsInv'
<1> DEFINE a == asks[r]
           end(said) == [a EXCEPT !.pc = "told", !.said = said, !.from = a.from]
<1>0. a \in AskType /\ BucketHeld(a, outside, mount) /\ AskHeld(a) /\ a.pc = "heading"
  BY OneRequest DEF HeadObject
<1>1. outside' = outside /\ mount' = mount /\ outside \in OutsideType
  BY OneRequest DEF HeadObject
<1>2. \E said \in {"healthy", "missing", "unchecked"} : asks' = [asks EXCEPT ![r].pc = "told", ![r].said = said]
  BY DEF HeadObject
<1>3. PICK said \in {"healthy", "missing", "unchecked"} : asks' = [asks EXCEPT ![r].pc = "told", ![r].said = said]
  BY <1>2
<1>4. asks' = [asks EXCEPT ![r] = end(said)]
  BY <1>0, <1>3, OneRequest DEF AskType
<1>5. /\ a.stat <= outside.version /\ outside.bucket \in a.served /\ a.from \in 0..2 /\ a.db \in a.served
      /\ a.kind = "export" => a.recorded
  BY <1>0 DEF BucketHeld, AskHeld, AskType
<1>6. end(said) \in AskType /\ AskHeld(end(said)) /\ BucketHeld(end(said), outside, mount)
  BY <1>0, <1>5, ToldIs
<1> HIDE DEF end
<1> QED
  BY <1>1, <1>4, <1>6, ReaderKeeps

LEMMA AnsweredKeeps ==
  ASSUME ReadsInv, NEW r \in Readers, Answered(r)
  PROVE  ReadsInv'
<1>1. /\ outside' = outside /\ mount' = mount /\ asks' = [asks EXCEPT ![r] = NoAsk]
      /\ outside \in OutsideType /\ mount \in MountType
  BY OneRequest DEF Answered
<1>2. NoAsk \in AskType /\ NoAsk.pc = "idle" /\ NoAsk.stat = 0
  BY DEF NoAsk, AskType, NoDb
<1>3. AskHeld(NoAsk) /\ BucketHeld(NoAsk, outside, mount)
  <2>1. outside.version \in Nat
    BY <1>1 DEF OutsideType
  <2> QED
    BY <1>2, <2>1 DEF AskHeld, BucketHeld
<1> QED
  BY <1>1, <1>2, <1>3, ReaderKeeps

-----------------------------------------------------------------------------
(* The end of an attempt, and the world outside.                           *)

(* An attempt that ends without a handle has noticed why: what it tells those
   who waited is grounded. *)
LEMMA SettledKeeps ==
  ASSUME ReadsInv, NEW handle \in Handles, NEW says \in {"not-configured", "unavailable", "ready"},
         Settled(handle, says), outside' = outside, handle # NoDb \/ mount.attempt.sour
  PROVE  ReadsInv'
<1> DEFINE m == [mount EXCEPT !.handle = handle, !.says = says, !.attempt = NoAttempt]
<1>0. ReadTypes /\ AttemptHeld(outside, mount) /\ VaultHeld(outside, mount)
  BY DEF ReadsInv
<1>1. mount' = m \/ mount' = Refresh(m)
  BY DEF Settled
<1>2. m \in MountType /\ m.attempt = NoAttempt /\ m.vault = mount.vault /\ m.sig = mount.sig /\ m.store = mount.store
  <2>1. NoAttempt \in AttemptType
    BY DEF NoAttempt, AttemptType, Handles
  <2> QED
    BY <1>0, <2>1 DEF ReadTypes, MountType
<1> HIDE DEF m
<1>3. AttemptHeld(outside, m) /\ VaultHeld(outside, m)
  BY <1>0, <1>2 DEF AttemptHeld, VaultHeld, NoAttempt
<1>4. /\ mount' \in MountType /\ AttemptHeld(outside, mount') /\ VaultHeld(outside, mount')
      /\ mount'.vault = mount.vault /\ mount'.sig = mount.sig
  BY <1>0, <1>1, <1>2, <1>3, Refreshed DEF ReadTypes
<1>5. ASSUME NEW r \in Readers
      PROVE  asks'[r] \in AskType /\ AskHeld(asks'[r]) /\ BucketHeld(asks'[r], outside, mount)
  <2> DEFINE a == asks[r]
             sour == a.sour \/ mount.attempt.sour
             querying == [a EXCEPT !.pc = "querying", !.db = handle]
             told == [a EXCEPT !.pc = "told", !.said = "refused", !.sour = sour]
  <2>1. a \in AskType /\ BucketHeld(a, outside, mount) /\ AskHeld(a)
    BY OneRequest
  <2>2. asks'[r] = IF a.pc # "waiting" THEN a ELSE IF handle # NoDb THEN querying ELSE told
    BY DEF Settled, Resume
  <2>3. sour \in BOOLEAN /\ handle \in 0..2 /\ (mount.attempt.sour => sour)
    <3>1. a.sour \in BOOLEAN /\ mount.attempt.sour \in BOOLEAN
      BY <1>0, <2>1 DEF AskType, ReadTypes, MountType, AttemptType
    <3>2. sour \in BOOLEAN /\ (mount.attempt.sour => sour)
      BY <3>1
    <3>3. handle \in 0..2
      BY DEF Handles, NoDb, Databases
    <3> QED
      BY <3>2, <3>3
  <2> HIDE DEF sour
  <2>4. /\ querying \in AskType /\ querying.pc = "querying" /\ querying.db = handle /\ querying.stat = a.stat
        /\ querying.served = a.served /\ querying.kind = a.kind /\ querying.recorded = a.recorded
    BY <2>1, <2>3 DEF AskType
  <2>5. /\ told \in AskType /\ told.pc = "told" /\ told.said = "refused" /\ told.sour = sour /\ told.stat = a.stat
        /\ told.served = a.served /\ told.kind = a.kind /\ told.recorded = a.recorded
    BY <2>1, <2>3 DEF AskType
  <2> HIDE DEF a, querying, told
  <2>6. CASE a.pc # "waiting"
    BY <2>1, <2>2, <2>6
  <2>7. CASE a.pc = "waiting" /\ handle # NoDb
    <3>1. AskHeld(querying) /\ BucketHeld(querying, outside, mount)
      BY <2>1, <2>4, <2>7 DEF AskHeld, BucketHeld
    <3> QED
      BY <2>2, <2>4, <2>7, <3>1
  <2>8. CASE a.pc = "waiting" /\ handle = NoDb
    <3>1. AskHeld(told) /\ BucketHeld(told, outside, mount)
      BY <2>1, <2>3, <2>5, <2>8 DEF AskHeld, BucketHeld
    <3> QED
      BY <2>2, <2>5, <2>8, <3>1
  <2> QED
    BY <2>6, <2>7, <2>8
<1>6. asks' \in [Readers -> AskType]
  <2>1. asks' = [r \in Readers |-> asks'[r]]
    BY DEF Settled, Resume
  <2> QED
    BY <1>5, <2>1
<1>7. \A r \in Readers : BucketHeld(asks'[r], outside, mount')
  BY <1>4, <1>5 DEF BucketHeld
<1> QED
  BY <1>0, <1>4, <1>5, <1>6, <1>7 DEF ReadsInv, ReadTypes

LEMMA AttemptKeeps ==
  ASSUME ReadsInv, ReadCoords \/ Prove \/ Tile
  PROVE  ReadsInv'
<1>0. ReadTypes /\ AttemptHeld(outside, mount) /\ VaultHeld(outside, mount) /\ outside' = outside
  BY DEF ReadsInv, ReadCoords, Prove, Tile
<1>1. mount \in MountType /\ mount.attempt \in AttemptType /\ outside.coords \in Handles
  BY <1>0 DEF ReadTypes, MountType, OutsideType
<1>2. CASE ReadCoords
  <2>0. mount.attempt.pc = "reading"
    BY <1>2 DEF ReadCoords
  <2>1. CASE outside.coords = NoDb /\ Settled(NoDb, "not-configured")
    <3>1. mount.attempt.sour
      BY <1>0, <2>0, <2>1 DEF AttemptHeld, Bad
    <3> QED
      BY <1>0, <2>1, <3>1, SettledKeeps DEF Handles
  <2>2. CASE outside.coords # NoDb /\ mount.handle = outside.coords /\ Settled(mount.handle, "ready")
    BY <1>0, <1>1, <2>2, SettledKeeps
  <2>3. CASE /\ mount' = [mount EXCEPT !.attempt.pc = "opening", !.attempt.dsn = outside.coords]
             /\ asks' = asks
    <3> DEFINE attempt == [mount.attempt EXCEPT !.pc = "opening", !.dsn = outside.coords]
               m == [mount EXCEPT !.attempt = attempt]
    <3>1. mount' = m
      BY <1>1, <2>3 DEF MountType
    <3>2. /\ attempt \in AttemptType /\ attempt.pc = "opening" /\ attempt.dsn = outside.coords
          /\ attempt.sour = mount.attempt.sour
      BY <1>1 DEF AttemptType
    <3> HIDE DEF attempt
    <3>3. m \in MountType /\ m.attempt = attempt /\ m.vault = mount.vault /\ m.sig = mount.sig /\ m.store = mount.store
      BY <1>1, <3>2 DEF MountType
    <3> HIDE DEF m
    <3>4. AttemptHeld(outside, m)
      BY <1>0, <2>0, <3>2, <3>3 DEF AttemptHeld, Bad, Gone
    <3>5. VaultHeld(outside, m)
      BY <1>0, <3>3 DEF VaultHeld
    <3>6. \A r \in Readers : BucketHeld(asks[r], outside, m)
      BY <3>3, BucketFrame DEF ReadsInv
    <3> QED
      BY <1>0, <2>3, <3>1, <3>3, <3>4, <3>5, <3>6 DEF ReadsInv, ReadTypes
  <2> QED
    BY <1>2, <2>1, <2>2, <2>3 DEF ReadCoords
<1>3. CASE Prove
  <2>0. mount.attempt.pc = "opening" /\ mount.attempt.dsn \in Handles
    BY <1>1, <1>3 DEF Prove, AttemptType
  <2>1. CASE mount.attempt.dsn \in outside.reach
    <3>1. mount.attempt.dsn # NoDb
      BY <1>0, <2>1 DEF ReadTypes, OutsideType, NoDb, Databases
    <3>2. Settled(mount.attempt.dsn, "ready")
      BY <1>3, <2>1 DEF Prove
    <3> QED
      BY <1>0, <2>0, <3>1, <3>2, SettledKeeps
  <2>2. CASE mount.attempt.dsn \notin outside.reach
    <3>1. mount.attempt.sour
      BY <1>0, <2>0, <2>2 DEF AttemptHeld, Gone
    <3>2. Settled(NoDb, "unavailable")
      BY <1>3, <2>2 DEF Prove
    <3> QED
      BY <1>0, <3>1, <3>2, SettledKeeps DEF Handles
  <2> QED
    BY <2>1, <2>2
<1>4. CASE Tile
  <2>1. mount' = Refresh(mount) /\ asks' = asks
    BY <1>4 DEF Tile
  <2>2. /\ mount' \in MountType /\ AttemptHeld(outside, mount') /\ VaultHeld(outside, mount')
        /\ mount'.vault = mount.vault /\ mount'.sig = mount.sig
    BY <1>0, <2>1, Refreshed DEF ReadTypes
  <2>3. \A r \in Readers : BucketHeld(asks[r], outside, mount')
    BY <2>2 DEF ReadsInv, BucketHeld
  <2> QED
    BY <1>0, <2>1, <2>2, <2>3 DEF ReadsInv, ReadTypes
<1> QED
  BY <1>2, <1>3, <1>4

(* The world changes: a rewritten file has another signature, and the bucket it
   names is only left for the next. *)
LEMMA ChangeKeeps ==
  ASSUME ReadsInv, NEW o \in OutsideType, Change(o), o.left = outside.left,
         \/ o.version = outside.version /\ o.bucket = outside.bucket
         \/ o.version = outside.version + 1 /\ (o.bucket = outside.bucket \/ o.bucket = 2)
  PROVE  ReadsInv'
<1> DEFINE old == mount.attempt
           left == o.left - 1
           sour == old.sour \/ (old.pc # "idle" /\ (Bad(o) \/ Gone(old, o)))
           attempt == [old EXCEPT !.sour = sour]
           m == [mount EXCEPT !.attempt = attempt]
           p == [o EXCEPT !.left = left]
<1>0. ReadTypes /\ AttemptHeld(outside, mount) /\ VaultHeld(outside, mount)
  BY DEF ReadsInv
<1>1. mount \in MountType /\ old \in AttemptType /\ outside \in OutsideType
  BY <1>0 DEF ReadTypes, MountType
<1>2. outside' = p /\ outside.left > 0
  BY DEF Change
<1>3. left \in Nat
  BY <1>1, <1>2 DEF OutsideType
<1>4. /\ p \in OutsideType /\ p.version = o.version /\ p.bucket = o.bucket /\ p.coords = o.coords
      /\ p.reach = o.reach
  <2> HIDE DEF left
  <2> QED
    BY <1>3 DEF OutsideType
<1>5. mount' = m
  BY <1>1 DEF Change, MountType
<1>6. sour \in BOOLEAN /\ (old.pc # "idle" /\ (Bad(o) \/ Gone(old, o)) => sour)
  BY <1>1 DEF AttemptType
<1>7. attempt \in AttemptType /\ attempt.sour = sour /\ attempt.pc = old.pc /\ attempt.dsn = old.dsn
  <2> HIDE DEF sour
  <2> QED
    BY <1>1, <1>6 DEF AttemptType
<1> HIDE DEF attempt, sour
<1>8. m \in MountType /\ m.attempt = attempt /\ m.vault = mount.vault /\ m.sig = mount.sig /\ m.store = mount.store
  BY <1>1, <1>7 DEF MountType
<1> HIDE DEF m, p
<1>9. AttemptHeld(p, m)
  BY <1>4, <1>6, <1>7, <1>8 DEF AttemptHeld, Bad, Gone
<1>10. /\ outside.version \in Nat /\ o.version \in Nat /\ mount.sig \in Nat /\ mount.vault \in 0..2
       /\ o.bucket \in {1, 2} /\ outside.bucket \in {1, 2}
  BY <1>1 DEF OutsideType, MountType
<1>11. VaultHeld(p, m)
  BY <1>0, <1>4, <1>8, <1>10 DEF VaultHeld
<1>12. ASSUME NEW r \in Readers
       PROVE  asks'[r] \in AskType /\ AskHeld(asks'[r]) /\ BucketHeld(asks'[r], p, m)
  <2> DEFINE a == asks[r]
             soured == a.sour \/ (a.pc # "idle" /\ Bad(o))
             buckets == IF a.pc = "idle" THEN a.served ELSE a.served \cup {o.bucket}
             b == [a EXCEPT !.sour = soured, !.served = buckets]
  <2>1. a \in AskType /\ BucketHeld(a, outside, mount) /\ AskHeld(a)
    BY OneRequest
  <2>2. asks'[r] = b
    BY DEF Change
  <2>3. /\ soured \in BOOLEAN /\ (a.sour => soured) /\ buckets \subseteq {1, 2} /\ a.served \subseteq buckets
        /\ a.pc # "idle" => o.bucket \in buckets
    BY <1>10, <2>1 DEF AskType
  <2>4. a.stat \in Nat /\ a.stat <= outside.version
    BY <2>1 DEF AskType, BucketHeld
  <2> HIDE DEF a, soured, buckets
  <2>5. /\ b \in AskType /\ b.sour = soured /\ b.served = buckets /\ b.pc = a.pc /\ b.kind = a.kind /\ b.db = a.db
        /\ b.said = a.said /\ b.from = a.from /\ b.stat = a.stat /\ b.recorded = a.recorded
    BY <2>1, <2>3 DEF AskType
  <2> HIDE DEF b
  <2>6. AskHeld(b)
    BY <2>1, <2>3, <2>5 DEF AskHeld
  <2>7. BucketHeld(b, p, m)
    <3>1. b.stat <= p.version
      BY <1>4, <1>10, <2>4, <2>5
    <3> QED
      BY <1>4, <1>8, <2>1, <2>3, <2>5, <3>1 DEF BucketHeld
  <2> QED
    BY <2>2, <2>5, <2>6, <2>7
<1>13. asks' \in [Readers -> AskType]
  <2>1. asks' = [r \in Readers |-> asks'[r]]
    BY DEF Change
  <2> QED
    BY <1>12, <2>1
<1> QED
  BY <1>2, <1>4, <1>5, <1>8, <1>9, <1>11, <1>12, <1>13 DEF ReadsInv, ReadTypes

LEMMA WorldKeeps ==
  ASSUME ReadsInv, Named \/ Flapped \/ Ingested \/ Rotated \/ CutOver
  PROVE  ReadsInv'
<1>0. outside \in OutsideType
  BY DEF ReadsInv, ReadTypes
<1>1. ASSUME Named PROVE ReadsInv'
  <2>1. PICK d \in Databases : Change([outside EXCEPT !.coords = d])
    BY <1>1 DEF Named
  <2> DEFINE o == [outside EXCEPT !.coords = d]
  <2>2. o \in OutsideType /\ o.left = outside.left /\ o.version = outside.version /\ o.bucket = outside.bucket
    BY <1>0 DEF OutsideType, Handles
  <2> HIDE DEF o
  <2> QED
    BY <2>1, <2>2, ChangeKeeps DEF o
<1>2. ASSUME Flapped PROVE ReadsInv'
  <2>1. PICK d \in Databases : Change([outside EXCEPT !.reach = IF d \in @ THEN @ \ {d} ELSE @ \cup {d}])
    BY <1>2 DEF Flapped
  <2> DEFINE reach == IF d \in outside.reach THEN outside.reach \ {d} ELSE outside.reach \cup {d}
             o == [outside EXCEPT !.reach = reach]
  <2>2. reach \subseteq Databases
    BY <1>0 DEF OutsideType
  <2>3. Change(o)
    BY <2>1
  <2> HIDE DEF reach
  <2>4. o \in OutsideType /\ o.left = outside.left /\ o.version = outside.version /\ o.bucket = outside.bucket
    BY <1>0, <2>2 DEF OutsideType
  <2> HIDE DEF o
  <2> QED
    BY <2>3, <2>4, ChangeKeeps
<1>3. ASSUME Ingested PROVE ReadsInv'
  <2> DEFINE o == [outside EXCEPT !.holds = {outside.bucket}]
  <2>1. Change(o)
    BY <1>3 DEF Ingested
  <2>2. o \in OutsideType /\ o.left = outside.left /\ o.version = outside.version /\ o.bucket = outside.bucket
    BY <1>0 DEF OutsideType
  <2> HIDE DEF o
  <2> QED
    BY <2>1, <2>2, ChangeKeeps
<1>4. ASSUME Rotated PROVE ReadsInv'
  <2> DEFINE version == outside.version + 1
             o == [outside EXCEPT !.version = version]
  <2>1. Change(o) /\ version \in Nat
    BY <1>0, <1>4 DEF Rotated, OutsideType
  <2> HIDE DEF version
  <2>2. o \in OutsideType /\ o.left = outside.left /\ o.version = version /\ o.bucket = outside.bucket
    BY <1>0, <2>1 DEF OutsideType
  <2> HIDE DEF o
  <2> QED
    BY <2>1, <2>2, ChangeKeeps DEF version
<1>5. ASSUME CutOver PROVE ReadsInv'
  <2> DEFINE version == outside.version + 1
             holds == IF outside.holds = {} THEN {} ELSE outside.holds \cup {2}
             o == [outside EXCEPT !.version = version, !.bucket = 2, !.holds = holds]
  <2>1. Change(o) /\ version \in Nat /\ holds \subseteq {1, 2}
    BY <1>0, <1>5 DEF CutOver, OutsideType
  <2> HIDE DEF version, holds
  <2>2. o \in OutsideType /\ o.left = outside.left /\ o.version = version /\ o.bucket = 2
    BY <1>0, <2>1 DEF OutsideType
  <2> HIDE DEF o
  <2> QED
    BY <2>1, <2>2, ChangeKeeps DEF version
<1> QED
  BY <1>1, <1>2, <1>3, <1>4, <1>5

(* A refusal is grounded in a database that could not have answered, an export
   leaves only recorded, and a verdict about a transcript is given by a bucket
   served from while it was asked: for any number of requests and of changes to
   the coordinates, the databases and the credential. *)
THEOREM ReadsJustHolds == ReadsSpec => []ReadsJust
<1>1. ReadsInit(TRUE) => ReadsInv
  <2> SUFFICES ASSUME ReadsInit(TRUE) PROVE ReadsInv
    OBVIOUS
  <2>1. MaxChanges \in Nat /\ MaxReads \in Nat
    BY ReadLimitsAssumption
  <2>2. outside \in OutsideType /\ outside.version = 1 /\ outside.bucket = 1
    BY <2>1 DEF ReadsInit, OutsideType, Handles
  <2>3. NoAttempt \in AttemptType
    BY DEF NoAttempt, AttemptType, Handles
  <2>4. /\ mount \in MountType /\ mount.attempt = NoAttempt /\ mount.sig = 0 /\ mount.vault = 0 /\ mount.store = 0
    BY <2>3 DEF ReadsInit, MountType, Handles
  <2>5. NoAsk \in AskType /\ NoAsk.pc = "idle" /\ NoAsk.stat = 0
    BY DEF NoAsk, AskType, NoDb
  <2>6. asks \in [Readers -> AskType] /\ \A r \in Readers : asks[r] = NoAsk
    BY <2>5 DEF ReadsInit
  <2>7. AttemptHeld(outside, mount) /\ VaultHeld(outside, mount)
    BY <2>2, <2>4 DEF AttemptHeld, VaultHeld, NoAttempt
  <2>8. AskHeld(NoAsk) /\ BucketHeld(NoAsk, outside, mount)
    BY <2>2, <2>4, <2>5 DEF AskHeld, BucketHeld
  <2> QED
    BY <2>2, <2>4, <2>6, <2>7, <2>8 DEF ReadsInv, ReadTypes
<1>2. ReadsInv /\ [ReadsNext]_readVars => ReadsInv'
  <2>1. ReadsInv /\ UNCHANGED readVars => ReadsInv'
    BY DEF readVars, ReadsInv, ReadTypes, AttemptHeld, VaultHeld, BucketHeld, AskHeld, Bad, Gone
  <2>2. ReadsInv /\ ReadsNext => ReadsInv'
    BY WorldKeeps, AttemptKeeps, ArriveKeeps, RecordKeeps, QueryKeeps, StatKeeps, BindKeeps, HeadObjectKeeps,
       AnsweredKeeps DEF ReadsNext
  <2> QED
    BY <2>1, <2>2
<1>3. ReadsInv => ReadsJust
  <2> SUFFICES ASSUME ReadsInv PROVE ReadsJust
    OBVIOUS
  <2>1. VerdictCurrent
    BY DEF ReadsInv, BucketHeld, VerdictCurrent
  <2>2. AnswersJust
    BY DEF ReadsInv, AskHeld, AnswersJust
  <2> QED
    BY <2>1, <2>2 DEF ReadsJust
<1> QED
  BY <1>1, <1>2, <1>3, PTL DEF ReadsSpec

-----------------------------------------------------------------------------
(***************************************************************************)
(* A browser tab (BrowserTab).                                             *)
(*                                                                         *)
(*  - FeedHeld: the stream's closure runs exactly while the tab is signed  *)
(*    in, a retry timer and a connection exclude each other, and only the  *)
(*    current controller has a connection, never under a hidden tab;       *)
(*  - PollHeld: an answer that has not been cancelled holds every command  *)
(*    the tab was told of when its effect began;                           *)
(*  - AckHeld: the tab counts no command the console has not taken.        *)
(***************************************************************************)
LinkType == [st : {"off", "dialing", "open"}, token : Nat]
WebType == [up : BOOLEAN, live : SUBSET Nat, minted : Nat, rows : Nat, troubles : Nat]
TabType == [token : Nat, hidden : BOOLEAN, busy : BOOLEAN, asks : Nat,
            screen : {"closed", "unknown", "anonymous", "signed-in"}]
ReqType == [pc : {"none", "sent", "answered"}, token : Nat, answer : {"", "ok", "none", "401"}, rows : Nat,
            kept : BOOLEAN]
PanelType == [on : BOOLEAN, known : BOOLEAN, rows : Nat, fresh : BOOLEAN, stale : BOOLEAN, floor : Nat,
              ask : BOOLEAN, busy : BOOLEAN, acked : Nat]
FeedType == [on : BOOLEAN, ctl : Links \cup {None}, timer : BOOLEAN,
             says : {"connecting", "reconnecting", "live"}, links : [Links -> LinkType]]

TabTypes ==
  web \in WebType /\ tab \in TabType /\ req \in [Slots -> ReqType] /\ panel \in PanelType /\ feed \in FeedType

NoLink(f) == \A l \in Links : f.links[l].st = "off"
FeedSound(f, hidden) ==
  /\ f.timer => f.on /\ ~hidden /\ NoLink(f)
  /\ \A l \in Links : f.links[l].st # "off" => f.on /\ ~hidden /\ f.ctl = l

FeedHeld ==
  /\ FeedSound(feed, tab.hidden)
  /\ feed.on <=> tab.screen = "signed-in"
  /\ tab.busy => tab.screen = "anonymous"

Covers(r, floor) == r.kept /\ r.pc = "answered" /\ r.answer = "ok" => r.rows >= floor
PollHeld == \A s \in Polls : Covers(req[s], panel.floor)

Told(r) == IF r.pc = "answered" /\ r.answer = "ok" THEN 1 ELSE 0
AckHeld == panel.floor <= panel.acked /\ panel.acked + Told(req["submit"]) <= web.rows

TabInv == TabTypes /\ FeedHeld /\ PollHeld /\ AckHeld /\ ReloadHolds

-----------------------------------------------------------------------------
(* What the stream's closure does.                                         *)

LEMMA CutIs ==
  ASSUME NEW f \in FeedType, NEW l \in Links
  PROVE  /\ Cut(f, l) \in FeedType
         /\ Cut(f, l).on = f.on /\ Cut(f, l).ctl = f.ctl /\ Cut(f, l).timer = f.timer
         /\ Cut(f, l).links[l].st = "off"
         /\ \A k \in Links : k # l => Cut(f, l).links[k] = f.links[k]
<1> DEFINE cold == [st |-> "off", token |-> None]
           links == [f.links EXCEPT ![l] = cold]
           g == [f EXCEPT !.links = links]
<1>1. Cut(f, l) = g
  BY DEF Cut
<1>2. cold \in LinkType /\ cold.st = "off"
  BY DEF LinkType, None
<1> HIDE DEF cold
<1>3. f.links \in [Links -> LinkType]
  BY DEF FeedType
<1>4. links \in [Links -> LinkType] /\ links[l] = cold /\ \A k \in Links : k # l => links[k] = f.links[k]
  BY <1>2, <1>3
<1> HIDE DEF links
<1>5. g \in FeedType /\ g.links = links /\ g.on = f.on /\ g.ctl = f.ctl /\ g.timer = f.timer
  BY <1>4 DEF FeedType
<1> QED
  BY <1>1, <1>2, <1>4, <1>5

(* The current controller's connection is the only one there is. *)
LEMMA AbortIs ==
  ASSUME NEW f \in FeedType, NEW hidden \in BOOLEAN, FeedSound(f, hidden)
  PROVE  Abort(f) \in FeedType /\ NoLink(Abort(f)) /\ Abort(f).on = f.on
<1>1. CASE f.ctl = None
  BY <1>1 DEF Abort, FeedSound, NoLink, Links, None
<1>2. CASE f.ctl # None
  <2>1. f.ctl \in Links /\ Abort(f) = Cut(f, f.ctl)
    BY <1>2 DEF Abort, FeedType
  <2>2. Abort(f) \in FeedType /\ Abort(f).on = f.on /\ Abort(f).links[f.ctl].st = "off"
        /\ \A k \in Links : k # f.ctl => Abort(f).links[k] = f.links[k]
    BY <2>1, CutIs
  <2>3. \A k \in Links : k # f.ctl => f.links[k].st = "off"
    BY DEF FeedSound
  <2> QED
    BY <2>2, <2>3 DEF NoLink
<1> QED
  BY <1>1, <1>2

LEMMA ClosedIs ==
  ASSUME NEW f \in FeedType, NEW hidden \in BOOLEAN, FeedSound(f, hidden)
  PROVE  /\ ClosedFeed(f) \in FeedType /\ ~ClosedFeed(f).on /\ NoLink(ClosedFeed(f)) /\ ~ClosedFeed(f).timer
         /\ FeedSound(ClosedFeed(f), hidden)
<1> DEFINE a == Abort(f)
           g == [a EXCEPT !.on = FALSE, !.ctl = None, !.timer = FALSE]
<1>1. a \in FeedType /\ NoLink(a)
  BY AbortIs
<1>2. ClosedFeed(f) = g
  BY DEF ClosedFeed
<1> HIDE DEF a
<1>3. g \in FeedType /\ ~g.on /\ ~g.timer /\ g.links = a.links
  BY <1>1 DEF FeedType
<1> QED
  BY <1>1, <1>2, <1>3 DEF NoLink, FeedSound

LEMMA HiddenIs ==
  ASSUME NEW f \in FeedType, FeedSound(f, FALSE)
  PROVE  HiddenFeed(f) \in FeedType /\ HiddenFeed(f).on = f.on /\ FeedSound(HiddenFeed(f), TRUE)
<1> DEFINE a == Abort(f)
           g == [a EXCEPT !.timer = FALSE]
<1>1. a \in FeedType /\ NoLink(a) /\ a.on = f.on
  BY AbortIs
<1>2. HiddenFeed(f) = g
  BY DEF HiddenFeed
<1> HIDE DEF a
<1>3. g \in FeedType /\ g.on = a.on /\ ~g.timer /\ g.links = a.links
  BY <1>1 DEF FeedType
<1> QED
  BY <1>1, <1>2, <1>3 DEF NoLink, FeedSound

(* A connection begins only where there is none and no retry is timed. *)
LEMMA ConnectedIs ==
  ASSUME NEW f \in FeedType, NEW hidden \in BOOLEAN, NEW token \in Nat, NoLink(f), ~f.timer
  PROVE  /\ Connected(f, hidden, token) \in FeedType /\ Connected(f, hidden, token).on = f.on
         /\ FeedSound(Connected(f, hidden, token), hidden)
<1> DEFINE l == CHOOSE x \in Links : f.links[x].st = "off"
           dialing == [st |-> "dialing", token |-> token]
           link == IF token = None THEN f.links[l] ELSE dialing
           links == [f.links EXCEPT ![l] = link]
           g == [f EXCEPT !.ctl = l, !.links = links]
<1>1. l \in Links /\ f.links[l].st = "off" /\ f.links \in [Links -> LinkType]
  <2>1. \E x \in Links : f.links[x].st = "off"
    BY DEF NoLink, Links
  <2> QED
    BY <2>1 DEF FeedType
<1> HIDE DEF l
<1>2. link \in LinkType
  BY <1>1 DEF LinkType
<1> HIDE DEF link
<1>3. links \in [Links -> LinkType] /\ \A k \in Links : k # l => links[k] = f.links[k]
  BY <1>1, <1>2
<1> HIDE DEF links
<1>4. g \in FeedType /\ g.ctl = l /\ g.links = links /\ g.on = f.on /\ g.timer = f.timer
  BY <1>1, <1>3 DEF FeedType
<1> HIDE DEF g
<1>5. CASE ~f.on \/ hidden
  <2>1. Connected(f, hidden, token) = f
    BY <1>5 DEF Connected
  <2> QED
    BY <2>1 DEF FeedSound, NoLink
<1>6. CASE f.on /\ ~hidden
  <2>1. Connected(f, hidden, token) = g
    <3>1. ~(~f.on \/ hidden \/ \A x \in Links : f.links[x].st # "off")
      BY <1>6, <1>1
    <3>2. Connected(f, hidden, token) = [f EXCEPT !.ctl = l, !.links[l] = link]
      BY <3>1 DEF Connected, l, link
    <3> QED
      BY <3>2 DEF g, links
  <2>2. \A k \in Links : g.links[k].st # "off" => g.ctl = k
    BY <1>3, <1>4 DEF NoLink
  <2> QED
    BY <2>1, <2>2, <1>4, <1>6 DEF FeedSound
<1> QED
  BY <1>5, <1>6

LEMMA DroppedIs ==
  ASSUME NEW f \in FeedType, NEW hidden \in BOOLEAN, NEW l \in Links, FeedSound(f, hidden), f.links[l].st # "off"
  PROVE  /\ Dropped(f, l, hidden) \in FeedType /\ Dropped(f, l, hidden).on = f.on
         /\ FeedSound(Dropped(f, l, hidden), hidden)
<1> DEFINE g == Cut(f, l)
           h == [g EXCEPT !.says = "reconnecting"]
           d == [h EXCEPT !.timer = TRUE]
<1>1. f.on /\ ~hidden /\ f.ctl = l /\ \A k \in Links : k # l => f.links[k].st = "off"
  BY DEF FeedSound
<1>2. g \in FeedType /\ g.on /\ NoLink(g)
  <2>1. g \in FeedType /\ g.on = f.on /\ g.links[l].st = "off" /\ \A k \in Links : k # l => g.links[k] = f.links[k]
    BY CutIs
  <2> QED
    BY <1>1, <2>1 DEF NoLink
<1>3. Dropped(f, l, hidden) = [h EXCEPT !.timer = h.timer \/ (h.on /\ ~hidden)]
  BY <1>1 DEF Dropped, Scheduled
<1> HIDE DEF g
<1>4. h \in FeedType /\ h.on /\ h.links = g.links /\ h.timer \in BOOLEAN
  BY <1>2 DEF FeedType
<1> HIDE DEF h
<1>5. (h.timer \/ (h.on /\ ~hidden)) = TRUE
  BY <1>1, <1>4
<1>6. Dropped(f, l, hidden) = d
  BY <1>3, <1>5
<1>7. d \in FeedType /\ d.on /\ d.timer /\ d.links = g.links
  BY <1>4 DEF FeedType
<1> HIDE DEF d
<1> QED
  BY <1>1, <1>2, <1>6, <1>7 DEF FeedSound, NoLink

-----------------------------------------------------------------------------
(* What leaving and entering the signed-in screen do.                      *)

LEMMA SlotsAre == {"auth", "leave", "submit"} \subseteq Slots /\ Polls \subseteq Slots
                  /\ "auth" \notin Polls /\ "leave" \notin Polls /\ "submit" \notin Polls
BY DEF Slots, Polls

LEMMA QuietIs == /\ Quiet \in ReqType /\ Quiet.pc = "none" /\ Told(Quiet) = 0 /\ \A n : Covers(Quiet, n)
BY DEF Quiet, ReqType, Told, Covers, None

LEMMA SentIs ==
  ASSUME NEW token \in Nat, NEW kept \in BOOLEAN
  PROVE  /\ Sent(token) \in ReqType /\ [Sent(token) EXCEPT !.kept = kept] \in ReqType
         /\ Sent(token).pc = "sent" /\ [Sent(token) EXCEPT !.kept = kept].pc = "sent"
         /\ Told(Sent(token)) = 0 /\ Told([Sent(token) EXCEPT !.kept = kept]) = 0
BY DEF Sent, Quiet, ReqType, Told

LEMMA CancelledIs ==
  ASSUME NEW r \in [Slots -> ReqType]
  PROVE  /\ Cancelled(r) \in [Slots -> ReqType] /\ Cancelled(r)["submit"] = r["submit"]
         /\ \A s \in Polls : \A n : Covers(Cancelled(r)[s], n)
<1>1. \A s \in Slots : [r[s] EXCEPT !.kept = FALSE] \in ReqType /\ ~[r[s] EXCEPT !.kept = FALSE].kept
  BY DEF ReqType
<1>2. Cancelled(r) \in [Slots -> ReqType]
  BY <1>1 DEF Cancelled
<1>3. \A s \in Polls : ~Cancelled(r)[s].kept
  BY <1>1, SlotsAre DEF Cancelled
<1> QED
  BY <1>2, <1>3, SlotsAre DEF Cancelled, Covers

LEMMA ColdIs ==
  ASSUME NEW acked \in Nat
  PROVE  /\ [Cold EXCEPT !.acked = acked] \in PanelType
         /\ [Cold EXCEPT !.on = TRUE, !.acked = acked, !.floor = acked] \in PanelType
BY DEF Cold, PanelType

(* A request is put in the place of another. *)
LEMMA ReqSet ==
  ASSUME TabTypes, NEW s \in Slots, NEW q \in ReqType
  PROVE  /\ [req EXCEPT ![s] = q] \in [Slots -> ReqType] /\ [req EXCEPT ![s] = q][s] = q
         /\ \A t \in Slots : t # s => [req EXCEPT ![s] = q][t] = req[t]
BY DEF TabTypes

LEMMA ForgetKeeps ==
  ASSUME TabInv, NEW r \in [Slots -> ReqType], Forget(r), web' = web, Told(r["submit"]) <= Told(req["submit"])
  PROVE  TabInv'
<1> DEFINE t == [tab EXCEPT !.token = None, !.screen = "anonymous"]
           p == [Cold EXCEPT !.acked = panel.acked]
<1>1. tab' = t /\ panel' = p /\ feed' = ClosedFeed(feed) /\ req' = Cancelled(r)
  BY DEF Forget
<1>2. TabTypes /\ panel.acked \in Nat /\ tab.hidden \in BOOLEAN /\ web.rows \in Nat
  BY DEF TabInv, TabTypes, PanelType, TabType, WebType
<1>3. t \in TabType /\ t.screen = "anonymous" /\ t.hidden = tab.hidden
  BY <1>2 DEF TabTypes, TabType, None
<1>4. p \in PanelType /\ p.acked = panel.acked /\ p.floor = 0 /\ ~p.on
  <2>1. p \in PanelType
    BY <1>2, ColdIs
  <2> QED
    BY <2>1 DEF Cold
<1>5. ClosedFeed(feed) \in FeedType /\ ~ClosedFeed(feed).on /\ FeedSound(ClosedFeed(feed), tab.hidden)
  BY <1>2, ClosedIs DEF TabInv, TabTypes, FeedHeld
<1>6. Cancelled(r) \in [Slots -> ReqType] /\ Cancelled(r)["submit"] = r["submit"]
      /\ \A s \in Polls : \A n : Covers(Cancelled(r)[s], n)
  BY CancelledIs
<1> HIDE DEF t, p
<1>7. TabTypes'
  BY <1>1, <1>2, <1>3, <1>4, <1>5, <1>6 DEF TabTypes
<1>8. FeedHeld'
  BY <1>1, <1>3, <1>5 DEF FeedHeld
<1>9. PollHeld' /\ ReloadHolds'
  BY <1>1, <1>4, <1>6 DEF PollHeld, ReloadHolds
<1>10. AckHeld'
  <2>1. panel.acked + Told(req["submit"]) <= web.rows /\ Told(r["submit"]) \in {0, 1} /\ Told(req["submit"]) \in {0, 1}
    BY DEF TabInv, AckHeld, Told
  <2> QED
    BY <1>1, <1>2, <1>4, <1>6, <2>1 DEF AckHeld
<1> QED
  BY <1>7, <1>8, <1>9, <1>10 DEF TabInv

LEMMA RefusedKeeps ==
  ASSUME TabInv, NEW s \in Slots, Refused(s), web' = web
  PROVE  TabInv'
<1> DEFINE r == [req EXCEPT ![s] = Quiet]
<1>1. r \in [Slots -> ReqType] /\ r[s] = Quiet /\ \A q \in Slots : q # s => r[q] = req[q]
  BY QuietIs, ReqSet DEF TabInv
<1>2. Told(r["submit"]) <= Told(req["submit"])
  BY <1>1, QuietIs, SlotsAre DEF Told
<1> QED
  BY <1>1, <1>2, ForgetKeeps DEF Refused

LEMMA AdmitKeeps ==
  ASSUME TabInv, NEW r \in [Slots -> ReqType], Admit(r), web' = web, r["submit"] = req["submit"],
         tab.screen # "signed-in"
  PROVE  TabInv'
<1> DEFINE t == [tab EXCEPT !.screen = "signed-in", !.busy = FALSE]
           p == [Cold EXCEPT !.on = TRUE, !.acked = panel.acked, !.floor = panel.acked]
           g == [feed EXCEPT !.on = TRUE, !.says = "connecting"]
           f == Connected(g, tab.hidden, tab.token)
<1>1. tab' = t /\ panel' = p /\ feed' = f /\ req' = Cancelled(r)
  BY DEF Admit, OpenedFeed
<1>2. TabTypes /\ panel.acked \in Nat /\ tab.hidden \in BOOLEAN /\ web.rows \in Nat /\ tab.token \in Nat
  BY DEF TabInv, TabTypes, PanelType, TabType, WebType
<1>3. t \in TabType /\ t.screen = "signed-in" /\ t.hidden = tab.hidden /\ ~t.busy
  BY <1>2 DEF TabTypes, TabType
<1>4. p \in PanelType /\ p.acked = panel.acked /\ p.floor = panel.acked /\ ~p.fresh
  <2>1. p \in PanelType
    BY <1>2, ColdIs
  <2> QED
    BY <2>1 DEF Cold
<1>5. ~feed.on /\ ~feed.timer /\ NoLink(feed) /\ feed \in FeedType
  BY DEF TabInv, FeedHeld, FeedSound, NoLink, TabTypes, FeedType
<1>6. g \in FeedType /\ g.on /\ ~g.timer /\ g.links = feed.links
  BY <1>5 DEF FeedType
<1> HIDE DEF g
<1>7. f \in FeedType /\ f.on /\ FeedSound(f, tab.hidden)
  BY <1>2, <1>5, <1>6, ConnectedIs DEF NoLink
<1>8. Cancelled(r) \in [Slots -> ReqType] /\ Cancelled(r)["submit"] = r["submit"]
      /\ \A s \in Polls : \A n : Covers(Cancelled(r)[s], n)
  BY CancelledIs
<1> HIDE DEF t, p, f
<1>9. TabTypes'
  BY <1>1, <1>2, <1>3, <1>4, <1>7, <1>8 DEF TabTypes
<1>10. FeedHeld'
  BY <1>1, <1>3, <1>7 DEF FeedHeld
<1>11. PollHeld' /\ ReloadHolds'
  BY <1>1, <1>4, <1>8 DEF PollHeld, ReloadHolds
<1>12. AckHeld'
  BY <1>1, <1>2, <1>4, <1>8 DEF TabInv, AckHeld
<1> QED
  BY <1>9, <1>10, <1>11, <1>12 DEF TabInv

-----------------------------------------------------------------------------
(* The session.                                                            *)

LEMMA SignKeeps ==
  ASSUME TabInv, SignIn \/ SignedIn \/ SignOut
  PROVE  TabInv'
<1>1. TabTypes /\ UNCHANGED <<web, panel, feed>> /\ FeedHeld /\ AckHeld /\ PollHeld /\ ReloadHolds
  BY DEF SignIn, SignedIn, SignOut, TabInv
<1>2. SUFFICES /\ tab' \in TabType /\ tab'.hidden = tab.hidden /\ tab'.screen = tab.screen
               /\ tab'.busy => tab.screen = "anonymous"
               /\ \E s \in {"auth", "leave"}, q \in ReqType : req' = [req EXCEPT ![s] = q]
  <2>1. PICK s \in {"auth", "leave"}, q \in ReqType : req' = [req EXCEPT ![s] = q]
    BY <1>2
  <2>2. req' \in [Slots -> ReqType] /\ \A u \in Slots : u # s => req'[u] = req[u]
    BY <2>1, <1>1, ReqSet, SlotsAre
  <2>3. TabTypes'
    BY <2>2, <1>1, <1>2 DEF TabTypes
  <2>4. FeedHeld' /\ ReloadHolds'
    BY <1>1, <1>2 DEF FeedHeld, ReloadHolds
  <2>5. req'["submit"] = req["submit"] /\ \A u \in Polls : req'[u] = req[u]
    BY <2>2, SlotsAre DEF Polls
  <2>6. PollHeld' /\ AckHeld'
    BY <2>5, <1>1 DEF PollHeld, AckHeld
  <2> QED
    BY <2>3, <2>4, <2>6 DEF TabInv
<1>3. CASE SignIn
  <2> DEFINE t == [tab EXCEPT !.busy = TRUE]
  <2>1. tab' = t /\ tab.screen = "anonymous" /\ req' = [req EXCEPT !["auth"] = Sent(None)]
    BY <1>3 DEF SignIn
  <2>2. t \in TabType /\ t.hidden = tab.hidden /\ t.screen = tab.screen
    BY <1>1 DEF TabTypes, TabType
  <2>3. Sent(None) \in ReqType
    BY SentIs DEF None
  <2> QED
    BY <2>1, <2>2, <2>3
<1>4. CASE SignedIn
  <2>1. tab \in TabType /\ req["auth"] \in ReqType /\ (tab.busy => tab.screen = "anonymous")
    BY <1>1, SlotsAre DEF TabTypes, FeedHeld
  <2>2. CASE req["auth"].answer = "ok"
    <3> DEFINE token == req["auth"].rows
               t == [tab EXCEPT !.token = token]
               q == [Sent(token) EXCEPT !.kept = FALSE]
    <3>1. tab' = t /\ req' = [req EXCEPT !["auth"] = q]
      BY <1>4, <2>2 DEF SignedIn
    <3>2. token \in Nat
      BY <2>1 DEF ReqType
    <3>3. q \in ReqType
      BY <3>2, SentIs
    <3> HIDE DEF token
    <3>4. t \in TabType /\ t.hidden = tab.hidden /\ t.screen = tab.screen /\ t.busy = tab.busy
      BY <2>1, <3>2 DEF TabType
    <3> HIDE DEF t, q
    <3> QED
      BY <3>1, <3>3, <3>4, <2>1
  <2>3. CASE req["auth"].answer # "ok"
    <3> DEFINE t == [tab EXCEPT !.busy = FALSE]
    <3>1. tab' = t /\ req' = [req EXCEPT !["auth"] = Quiet]
      BY <1>4, <2>3 DEF SignedIn
    <3>2. t \in TabType /\ t.hidden = tab.hidden /\ t.screen = tab.screen /\ ~t.busy
      BY <2>1 DEF TabType
    <3> HIDE DEF t
    <3> QED
      BY <3>1, <3>2, QuietIs
  <2> QED
    BY <2>2, <2>3
<1>5. CASE SignOut
  <2>1. tab \in TabType /\ tab.token \in Nat /\ (tab.busy => tab.screen = "anonymous") /\ tab' = tab
    BY <1>1, <1>5 DEF TabTypes, TabType, FeedHeld, SignOut
  <2>2. req' = [req EXCEPT !["leave"] = Sent(tab.token)] /\ Sent(tab.token) \in ReqType
    BY <1>5, <2>1, SentIs DEF SignOut
  <2> QED
    BY <2>1, <2>2
<1> QED
  BY <1>3, <1>4, <1>5

LEMMA WhoamiKeeps ==
  ASSUME TabInv, WhoamiAnswered
  PROVE  TabInv'
<1> DEFINE r == [req EXCEPT !["auth"] = Quiet]
<1>1. TabTypes /\ web' = web /\ r \in [Slots -> ReqType] /\ r["submit"] = req["submit"]
      /\ \A s \in Polls : r[s] = req[s]
  BY QuietIs, ReqSet, SlotsAre DEF TabInv, WhoamiAnswered
<1>2. tab.screen # "signed-in"
  BY DEF WhoamiAnswered, TabInv, FeedHeld
<1>3. CASE Admit(r)
  BY <1>1, <1>2, <1>3, AdmitKeeps
<1>4. CASE /\ tab' = [tab EXCEPT !.busy = FALSE] /\ req' = r
           /\ UNCHANGED <<panel, feed>>
  <2> DEFINE t == [tab EXCEPT !.busy = FALSE]
  <2>1. t \in TabType /\ t.hidden = tab.hidden /\ t.screen = tab.screen /\ ~t.busy
    BY <1>1 DEF TabTypes, TabType
  <2> HIDE DEF t, r
  <2>2. tab' = t /\ req' = r /\ UNCHANGED <<web, panel, feed>>
    BY <1>4, <1>1 DEF t
  <2>3. TabTypes'
    BY <1>1, <2>1, <2>2 DEF TabTypes
  <2>4. FeedHeld' /\ ReloadHolds'
    BY <2>1, <2>2 DEF TabInv, FeedHeld, ReloadHolds
  <2>5. PollHeld' /\ AckHeld'
    BY <1>1, <2>2 DEF TabInv, PollHeld, AckHeld
  <2> QED
    BY <2>3, <2>4, <2>5 DEF TabInv
<1>5. CASE /\ tab' = [tab EXCEPT !.busy = FALSE, !.token = None, !.screen = "anonymous"]
           /\ panel' = [Cold EXCEPT !.acked = panel.acked] /\ feed' = ClosedFeed(feed)
           /\ req' = Cancelled(r)
  <2> DEFINE t == [tab EXCEPT !.busy = FALSE, !.token = None, !.screen = "anonymous"]
             p == [Cold EXCEPT !.acked = panel.acked]
  <2>1. panel.acked \in Nat /\ tab.hidden \in BOOLEAN
    BY <1>1 DEF TabTypes, PanelType, TabType
  <2>2. t \in TabType /\ t.screen = "anonymous" /\ t.hidden = tab.hidden
    BY <1>1 DEF TabTypes, TabType, None
  <2>3. p \in PanelType
    BY <2>1, ColdIs
  <2>4. p.acked = panel.acked /\ p.floor = 0 /\ ~p.on
    BY <2>3 DEF Cold
  <2>5. ClosedFeed(feed) \in FeedType /\ ~ClosedFeed(feed).on /\ FeedSound(ClosedFeed(feed), tab.hidden)
    BY <1>1, <2>1, ClosedIs DEF TabInv, TabTypes, FeedHeld
  <2>6. Cancelled(r) \in [Slots -> ReqType] /\ Cancelled(r)["submit"] = r["submit"]
        /\ \A s \in Polls : \A n : Covers(Cancelled(r)[s], n)
    BY <1>1, CancelledIs
  <2> HIDE DEF t, p, r
  <2>7. tab' = t /\ panel' = p /\ feed' = ClosedFeed(feed) /\ req' = Cancelled(r)
    BY <1>5 DEF t, p
  <2>8. TabTypes'
    BY <1>1, <2>2, <2>3, <2>5, <2>6, <2>7 DEF TabTypes
  <2>9. FeedHeld'
    BY <2>2, <2>5, <2>7 DEF FeedHeld
  <2>10. PollHeld' /\ ReloadHolds'
    BY <2>4, <2>6, <2>7 DEF PollHeld, ReloadHolds
  <2>11. AckHeld'
    BY <1>1, <2>1, <2>4, <2>6, <2>7 DEF TabInv, AckHeld
  <2> QED
    BY <2>8, <2>9, <2>10, <2>11 DEF TabInv
<1> QED
  BY <1>3, <1>4, <1>5 DEF WhoamiAnswered

LEMMA SignedOutKeeps ==
  ASSUME TabInv, SignedOut
  PROVE  TabInv'
<1>1. Refused("leave") /\ web' = web
  BY DEF SignedOut, Refused
<1> QED
  BY <1>1, RefusedKeeps, SlotsAre

-----------------------------------------------------------------------------
(* The panel and its control.                                              *)

(* A step of the panel: what it asks and what it shows. *)
LEMMA PanelKeeps ==
  ASSUME TabInv, NEW p \in PanelType, NEW r \in [Slots -> ReqType], UNCHANGED <<web, tab, feed>>,
         panel' = p, req' = r,
         \A s \in Polls : Covers(r[s], p.floor),
         p.floor <= p.acked, p.acked + Told(r["submit"]) <= web.rows,
         p.on /\ p.fresh => p.rows >= p.floor
  PROVE  TabInv'
<1>1. TabTypes'
  BY DEF TabInv, TabTypes
<1>2. FeedHeld' /\ PollHeld' /\ AckHeld' /\ ReloadHolds'
  BY DEF TabInv, FeedHeld, PollHeld, AckHeld, ReloadHolds
<1> QED
  BY <1>1, <1>2 DEF TabInv

LEMMA PanelIs ==
  ASSUME TabInv
  PROVE  /\ panel \in PanelType /\ req \in [Slots -> ReqType] /\ web \in WebType /\ tab \in TabType
         /\ panel.acked \in Nat /\ panel.floor \in Nat /\ web.rows \in Nat /\ panel.on \in BOOLEAN
         /\ panel.floor <= panel.acked /\ panel.acked <= web.rows /\ panel.acked + Told(req["submit"]) <= web.rows
         /\ \A s \in Polls : Covers(req[s], panel.floor)
         /\ panel.on /\ panel.fresh => panel.rows >= panel.floor
<1>1. panel \in PanelType /\ req \in [Slots -> ReqType] /\ web \in WebType /\ tab \in TabType
  BY DEF TabInv, TabTypes
<1>2. panel.acked \in Nat /\ panel.floor \in Nat /\ web.rows \in Nat /\ panel.on \in BOOLEAN
  BY <1>1 DEF PanelType, WebType
<1>3. Told(req["submit"]) \in {0, 1}
  BY DEF Told
<1> QED
  BY <1>1, <1>2, <1>3 DEF TabInv, AckHeld, PollHeld, ReloadHolds

(* A request is answered or sent in one slot, and the panel stays. *)
LEMMA SlotKeeps ==
  ASSUME TabInv, NEW s \in Slots, NEW q \in ReqType, UNCHANGED <<web, tab, feed, panel>>,
         req' = [req EXCEPT ![s] = q], Told(q) = 0, s \in Polls => Covers(q, panel.floor)
  PROVE  TabInv'
<1>1. req' \in [Slots -> ReqType] /\ req'[s] = q /\ \A t \in Slots : t # s => req'[t] = req[t]
  BY ReqSet DEF TabInv
<1>2. Told(req'["submit"]) = Told(req["submit"]) \/ Told(req'["submit"]) = 0
  BY <1>1, SlotsAre
<1>3. panel.acked + Told(req'["submit"]) <= web.rows
  BY <1>2, PanelIs
<1>4. \A t \in Polls : Covers(req'[t], panel.floor)
  BY <1>1, PanelIs, SlotsAre
<1> DEFINE r == req'
<1>5. TabTypes' /\ FeedHeld' /\ ReloadHolds'
  BY <1>1 DEF TabInv, TabTypes, FeedHeld, ReloadHolds
<1>6. PollHeld' /\ AckHeld'
  BY <1>3, <1>4, PanelIs DEF PollHeld, AckHeld
<1> QED
  BY <1>5, <1>6 DEF TabInv

LEMMA LoadKeeps ==
  ASSUME TabInv, NEW s \in Polls, Load(s)
  PROVE  TabInv'
<1> DEFINE q == [Sent(tab.token) EXCEPT !.kept = panel.on]
<1>1. tab.token \in Nat /\ panel.on \in BOOLEAN
  BY PanelIs DEF TabType
<1>2. q \in ReqType /\ q.pc = "sent" /\ Told(q) = 0
  BY <1>1, SentIs
<1>3. req' = [req EXCEPT ![s] = q] /\ UNCHANGED <<web, tab, panel, feed>>
  BY DEF Load
<1> HIDE DEF q
<1>4. Covers(q, panel.floor)
  BY <1>2 DEF Covers
<1> QED
  BY <1>2, <1>3, <1>4, SlotKeeps, SlotsAre

LEMMA LoadedKeeps ==
  ASSUME TabInv, NEW s \in Polls, Loaded(s)
  PROVE  TabInv'
<1>1. web' = web /\ s \in Slots /\ req[s].pc = "answered"
  BY SlotsAre DEF Loaded
<1>2. CASE Refused(s)
  BY <1>1, <1>2, RefusedKeeps
<1>3. CASE ~Refused(s)
  <2> DEFINE r == [req EXCEPT ![s] = Quiet]
             shown == [panel EXCEPT !.known = TRUE, !.rows = req[s].rows, !.stale = FALSE,
                                    !.fresh = panel.fresh \/ req[s].kept]
             kept == [panel EXCEPT !.stale = panel.known]
             p == IF ~panel.on \/ ~req[s].kept THEN panel ELSE IF req[s].answer = "ok" THEN shown ELSE kept
  <2>1. req' = r /\ panel' = p /\ UNCHANGED <<web, tab, feed>>
    BY <1>3 DEF Loaded, Kept
  <2>2. r \in [Slots -> ReqType] /\ r[s] = Quiet /\ \A t \in Slots : t # s => r[t] = req[t]
    BY <1>1, QuietIs, ReqSet DEF TabInv
  <2>3. req[s] \in ReqType /\ Covers(req[s], panel.floor)
    BY <1>1, PanelIs
  <2>4. shown \in PanelType /\ kept \in PanelType
    <3> DEFINE fresh == panel.fresh \/ req[s].kept
               rows == req[s].rows
               known == panel.known
    <3>1. fresh \in BOOLEAN /\ rows \in Nat /\ known \in BOOLEAN
      BY <2>3, PanelIs DEF ReqType, PanelType
    <3> HIDE DEF fresh, rows, known
    <3>2. [panel EXCEPT !.known = TRUE, !.rows = rows, !.stale = FALSE, !.fresh = fresh] \in PanelType
          /\ [panel EXCEPT !.stale = known] \in PanelType
      BY <3>1, PanelIs DEF PanelType
    <3> QED
      BY <3>2 DEF fresh, rows, known
  <2>5. /\ shown.floor = panel.floor /\ shown.acked = panel.acked /\ shown.rows = req[s].rows
        /\ kept.floor = panel.floor /\ kept.acked = panel.acked /\ kept.rows = panel.rows
        /\ kept.on = panel.on /\ kept.fresh = panel.fresh
    BY PanelIs DEF PanelType
  <2> HIDE DEF shown, kept
  <2>6. p \in PanelType /\ p.floor = panel.floor /\ p.acked = panel.acked
    BY <2>4, <2>5, PanelIs
  <2>7. p.on /\ p.fresh => p.rows >= p.floor
    <3>1. CASE ~panel.on \/ ~req[s].kept
      BY <3>1, PanelIs
    <3>2. CASE panel.on /\ req[s].kept /\ req[s].answer = "ok"
      <4>1. req[s].rows >= panel.floor /\ p = shown
        BY <3>2, <2>3, <1>1 DEF Covers
      <4> QED
        BY <4>1, <2>5
    <3>3. CASE panel.on /\ req[s].kept /\ req[s].answer # "ok"
      <4>1. p = kept
        BY <3>3
      <4> QED
        BY <4>1, <2>5, PanelIs
    <3> QED
      BY <3>1, <3>2, <3>3
  <2>8. \A t \in Polls : Covers(r[t], panel.floor)
    BY <2>2, PanelIs, QuietIs, SlotsAre
  <2>9. r["submit"] = req["submit"]
    BY <2>2, SlotsAre
  <2> HIDE DEF r, p
  <2> QED
    BY <2>1, <2>2, <2>6, <2>7, <2>8, <2>9, PanelIs, PanelKeeps
<1> QED
  BY <1>2, <1>3

LEMMA BegunIs ==
  ASSUME NEW p \in PanelType
  PROVE  Begun(p) \in PanelType /\ ~Begun(p).fresh /\ Begun(p).floor = p.acked /\ Begun(p).acked = p.acked
<1> DEFINE acked == p.acked
           b == [p EXCEPT !.fresh = FALSE, !.floor = acked]
<1>1. acked \in Nat
  BY DEF PanelType
<1> HIDE DEF acked
<1>2. b \in PanelType /\ ~b.fresh /\ b.floor = acked /\ b.acked = p.acked
  BY <1>1 DEF PanelType
<1> QED
  BY <1>2 DEF Begun, acked

LEMMA NavigateKeeps ==
  ASSUME TabInv, Navigate
  PROVE  TabInv'
<1> DEFINE b == Begun(panel)
           on == ~b.on
           p == [b EXCEPT !.on = on]
<1>1. b \in PanelType /\ ~b.fresh /\ b.floor = panel.acked /\ b.acked = panel.acked
  BY PanelIs, BegunIs
<1>2. panel' = p /\ req' = Cancelled(req) /\ UNCHANGED <<web, tab, feed>>
  BY DEF Navigate
<1> HIDE DEF b
<1>3. p \in PanelType /\ ~p.fresh /\ p.floor = panel.acked /\ p.acked = panel.acked
  BY <1>1 DEF PanelType
<1>4. Cancelled(req) \in [Slots -> ReqType] /\ Cancelled(req)["submit"] = req["submit"]
      /\ \A s \in Polls : \A n : Covers(Cancelled(req)[s], n)
  BY PanelIs, CancelledIs
<1> DEFINE r == Cancelled(req)
<1> HIDE DEF p
<1>5. \A s \in Polls : Covers(r[s], p.floor)
  BY <1>4
<1>6. p.floor <= p.acked /\ p.acked + Told(r["submit"]) <= web.rows
  BY <1>3, <1>4, PanelIs
<1>7. r \in [Slots -> ReqType] /\ req' = r
  BY <1>2, <1>4
<1> HIDE DEF r
<1> QED
  BY <1>2, <1>3, <1>5, <1>6, <1>7, PanelKeeps

LEMMA ControlKeeps ==
  ASSUME TabInv, Ask \/ Cancel \/ Confirm
  PROVE  TabInv'
<1>1. /\ panel \in PanelType /\ req \in [Slots -> ReqType] /\ tab \in TabType /\ tab.token \in Nat /\ tab.asks \in Nat
  BY PanelIs DEF TabType
<1>2. CASE Ask
  <2> DEFINE controls == tab.asks - 1
             t == [tab EXCEPT !.asks = controls]
             p == [panel EXCEPT !.ask = TRUE]
  <2>1. tab' = t /\ panel' = p /\ UNCHANGED <<web, req, feed>> /\ tab.asks > 0
    BY <1>2 DEF Ask
  <2>2. controls \in Nat
    BY <1>1, <2>1
  <2> HIDE DEF controls
  <2>3. t \in TabType /\ t.hidden = tab.hidden /\ t.screen = tab.screen /\ t.busy = tab.busy
    BY <1>1, <2>2 DEF TabType
  <2>4. p \in PanelType /\ p.floor = panel.floor /\ p.acked = panel.acked /\ p.on = panel.on
        /\ p.fresh = panel.fresh /\ p.rows = panel.rows
    BY <1>1 DEF PanelType
  <2> HIDE DEF t, p
  <2>5. TabTypes'
    BY <2>1, <2>3, <2>4 DEF TabInv, TabTypes
  <2>6. FeedHeld' /\ PollHeld' /\ AckHeld' /\ ReloadHolds'
    BY <2>1, <2>3, <2>4 DEF TabInv, FeedHeld, PollHeld, AckHeld, ReloadHolds
  <2> QED
    BY <2>5, <2>6 DEF TabInv
<1>3. CASE Cancel
  <2> DEFINE p == [panel EXCEPT !.ask = FALSE]
  <2>1. panel' = p /\ req' = req /\ UNCHANGED <<web, tab, feed>>
    BY <1>3 DEF Cancel
  <2>2. p \in PanelType /\ p.floor = panel.floor /\ p.acked = panel.acked /\ p.on = panel.on
        /\ p.fresh = panel.fresh /\ p.rows = panel.rows
    BY <1>1 DEF PanelType
  <2> HIDE DEF p
  <2> QED
    BY <1>1, <2>1, <2>2, PanelIs, PanelKeeps
<1>4. CASE Confirm
  <2> DEFINE p == [panel EXCEPT !.ask = FALSE, !.busy = TRUE]
             r == [req EXCEPT !["submit"] = Sent(tab.token)]
  <2>1. panel' = p /\ req' = r /\ UNCHANGED <<web, tab, feed>>
    BY <1>4 DEF Confirm
  <2>2. p \in PanelType /\ p.floor = panel.floor /\ p.acked = panel.acked /\ p.on = panel.on
        /\ p.fresh = panel.fresh /\ p.rows = panel.rows
    BY <1>1 DEF PanelType
  <2>3. r \in [Slots -> ReqType] /\ r["submit"] = Sent(tab.token) /\ \A t \in Polls : r[t] = req[t]
    BY <1>1, SentIs, SlotsAre, ReqSet DEF TabInv
  <2>4. Told(r["submit"]) = 0
    BY <2>3, <1>1, SentIs
  <2> HIDE DEF p, r
  <2>5. \A s \in Polls : Covers(r[s], p.floor)
    BY <2>2, <2>3, PanelIs
  <2>6. p.acked + Told(r["submit"]) <= web.rows
    BY <2>2, <2>4, PanelIs
  <2>7. p.floor <= p.acked /\ (p.on /\ p.fresh => p.rows >= p.floor)
    BY <2>2, PanelIs
  <2> QED
    BY <2>1, <2>2, <2>3, <2>5, <2>6, <2>7, PanelKeeps
<1> QED
  BY <1>2, <1>3, <1>4

LEMMA SubmittedKeeps ==
  ASSUME TabInv, Submitted
  PROVE  TabInv'
<1>1. web' = web /\ req["submit"].pc = "answered"
  BY DEF Submitted
<1>2. CASE Refused("submit")
  BY <1>1, <1>2, RefusedKeeps, SlotsAre
<1>3. CASE ~Refused("submit")
  <2> DEFINE r == [req EXCEPT !["submit"] = Quiet]
             acked == IF req["submit"].answer = "ok" THEN panel.acked + 1 ELSE panel.acked
             q == [panel EXCEPT !.acked = acked, !.busy = FALSE]
             p == IF panel.on THEN Begun(q) ELSE q
  <2>1. panel' = p /\ req' = Cancelled(r) /\ UNCHANGED <<web, tab, feed>>
    BY <1>1, <1>3 DEF Submitted
  <2>2. r \in [Slots -> ReqType] /\ r["submit"] = Quiet
    BY QuietIs, SlotsAre, ReqSet DEF TabInv
  <2>3. Cancelled(r) \in [Slots -> ReqType] /\ Cancelled(r)["submit"] = Quiet
        /\ \A s \in Polls : \A n : Covers(Cancelled(r)[s], n)
    BY <2>2, CancelledIs
  <2>4. acked \in Nat /\ acked <= web.rows /\ acked >= panel.acked
    BY <1>1, PanelIs DEF Told
  <2> HIDE DEF acked
  <2>5. q \in PanelType /\ q.floor = panel.floor /\ q.acked = acked /\ q.on = panel.on
    BY <2>4, PanelIs DEF PanelType
  <2> HIDE DEF q, r
  <2>6. Begun(q) \in PanelType /\ ~Begun(q).fresh /\ Begun(q).floor = acked /\ Begun(q).acked = acked
    BY <2>5, BegunIs
  <2>7. p \in PanelType /\ p.floor <= p.acked /\ p.acked = acked /\ (p.on /\ p.fresh => p.rows >= p.floor)
    <3>1. CASE panel.on
      BY <3>1, <2>4, <2>6
    <3>2. CASE ~panel.on
      <4>1. p = q
        BY <3>2
      <4> QED
        BY <3>2, <4>1, <2>4, <2>5, PanelIs
    <3> QED
      BY <3>1, <3>2
  <2> DEFINE c == Cancelled(r)
  <2>8. c \in [Slots -> ReqType] /\ req' = c /\ \A s \in Polls : Covers(c[s], p.floor)
    BY <2>1, <2>3
  <2>9. p.acked + Told(c["submit"]) <= web.rows
    BY <2>3, <2>4, <2>7, QuietIs, PanelIs
  <2> HIDE DEF p, c
  <2> QED
    BY <2>1, <2>7, <2>8, <2>9, PanelKeeps
<1> QED
  BY <1>2, <1>3

-----------------------------------------------------------------------------
(* The stream.                                                             *)

LEMMA StreamKeeps ==
  ASSUME TabInv, NEW f \in FeedType, NEW t \in TabType, UNCHANGED <<req, panel>>, feed' = f, tab' = t,
         web' \in WebType, web'.rows = web.rows,
         f.on = feed.on, FeedSound(f, t.hidden), t.screen = tab.screen, t.busy = tab.busy
  PROVE  TabInv'
<1>1. TabTypes'
  BY DEF TabInv, TabTypes
<1>2. FeedHeld' /\ PollHeld' /\ AckHeld' /\ ReloadHolds'
  BY DEF TabInv, FeedHeld, PollHeld, AckHeld, ReloadHolds
<1> QED
  BY <1>1, <1>2 DEF TabInv

LEMMA FeedIs ==
  ASSUME TabInv
  PROVE  /\ feed \in FeedType /\ tab \in TabType /\ web \in WebType /\ tab.hidden \in BOOLEAN /\ tab.token \in Nat
         /\ FeedSound(feed, tab.hidden) /\ feed.links \in [Links -> LinkType] /\ web.troubles \in Nat
<1>1. feed \in FeedType /\ tab \in TabType /\ web \in WebType /\ FeedSound(feed, tab.hidden)
  BY DEF TabInv, TabTypes, FeedHeld
<1> QED
  BY <1>1 DEF TabType, FeedType, WebType

LEMMA TroubleSpent ==
  ASSUME web \in WebType, web.troubles > 0
  PROVE  [web EXCEPT !.troubles = @ - 1] \in WebType /\ [web EXCEPT !.troubles = @ - 1].rows = web.rows
<1> DEFINE n == web.troubles - 1
           w == [web EXCEPT !.troubles = n]
<1>1. n \in Nat
  BY DEF WebType
<1> HIDE DEF n
<1>2. w \in WebType /\ w.rows = web.rows
  BY <1>1 DEF WebType
<1> QED
  BY <1>2 DEF n

LEMMA RetryKeeps ==
  ASSUME TabInv, Retry
  PROVE  TabInv'
<1> DEFINE g == [feed EXCEPT !.timer = FALSE]
           f == Connected(g, tab.hidden, tab.token)
<1>1. feed' = f /\ UNCHANGED <<web, tab, req, panel>> /\ NoLink(feed)
  BY FeedIs DEF Retry, FeedSound
<1>2. g \in FeedType /\ ~g.timer /\ g.on = feed.on /\ NoLink(g)
  BY <1>1, FeedIs DEF FeedType, NoLink
<1> HIDE DEF g
<1>3. f \in FeedType /\ f.on = feed.on /\ FeedSound(f, tab.hidden)
  BY <1>2, FeedIs, ConnectedIs
<1> HIDE DEF f
<1> QED
  BY <1>1, <1>3, FeedIs, StreamKeeps

LEMMA ShowKeeps ==
  ASSUME TabInv, Show
  PROVE  TabInv'
<1> DEFINE f == Connected(feed, FALSE, tab.token)
           t == [tab EXCEPT !.hidden = FALSE]
<1>1. feed' = f /\ tab' = t /\ UNCHANGED <<web, req, panel>> /\ NoLink(feed) /\ ~feed.timer
  BY FeedIs DEF Show, FeedSound, NoLink
<1>2. f \in FeedType /\ f.on = feed.on /\ FeedSound(f, FALSE)
  BY <1>1, FeedIs, ConnectedIs
<1>3. t \in TabType /\ t.hidden = FALSE /\ t.screen = tab.screen /\ t.busy = tab.busy
  BY FeedIs DEF TabType
<1> HIDE DEF f, t
<1> QED
  BY <1>1, <1>2, <1>3, FeedIs, StreamKeeps

LEMMA HideKeeps ==
  ASSUME TabInv, Hide
  PROVE  TabInv'
<1> DEFINE f == IF feed.on THEN HiddenFeed(feed) ELSE feed
           t == [tab EXCEPT !.hidden = TRUE]
<1>1. feed' = f /\ tab' = t /\ UNCHANGED <<req, panel>> /\ ~tab.hidden /\ web.troubles > 0
      /\ web' = [web EXCEPT !.troubles = @ - 1]
  BY DEF Hide
<1>2. f \in FeedType /\ f.on = feed.on /\ FeedSound(f, TRUE)
  <2>1. FeedSound(feed, FALSE)
    BY <1>1, FeedIs
  <2>2. CASE feed.on
    BY <2>1, <2>2, FeedIs, HiddenIs
  <2>3. CASE ~feed.on
    BY <2>1, <2>3, FeedIs DEF FeedSound
  <2> QED
    BY <2>2, <2>3
<1>3. t \in TabType /\ t.hidden = TRUE /\ t.screen = tab.screen /\ t.busy = tab.busy
  BY FeedIs DEF TabType
<1>4. web' \in WebType /\ web'.rows = web.rows
  BY <1>1, FeedIs, TroubleSpent
<1> HIDE DEF f, t
<1> QED
  BY <1>1, <1>2, <1>3, <1>4, StreamKeeps

LEMMA LinkKeeps ==
  ASSUME TabInv, NEW l \in Links, LinkAnswered(l) \/ LinkCapped(l) \/ LinkRefused(l) \/ LinkEnds(l)
  PROVE  TabInv'
<1>1. CASE LinkRefused(l)
  <2>1. Forget(req) /\ web' = web
    BY <1>1 DEF LinkRefused
  <2>2. Told(req["submit"]) <= Told(req["submit"])
    BY DEF Told
  <2> QED
    BY <2>1, <2>2, PanelIs, ForgetKeeps
<1>2. CASE feed' = Dropped(feed, l, tab.hidden) /\ UNCHANGED <<tab, req, panel>> /\ feed.links[l].st # "off"
           /\ web' \in WebType /\ web'.rows = web.rows
  <2> DEFINE f == Dropped(feed, l, tab.hidden)
  <2>1. f \in FeedType /\ f.on = feed.on /\ FeedSound(f, tab.hidden)
    BY <1>2, FeedIs, DroppedIs
  <2> HIDE DEF f
  <2>2. feed' = f
    BY <1>2 DEF f
  <2> QED
    BY <1>2, <2>1, <2>2, FeedIs, StreamKeeps
<1>3. CASE feed' = [feed EXCEPT !.links[l].st = "open", !.says = "live"] /\ UNCHANGED <<web, tab, req, panel>>
           /\ feed.links[l].st = "dialing"
  <2> DEFINE link == [feed.links[l] EXCEPT !.st = "open"]
             links == [feed.links EXCEPT ![l] = link]
             f == [feed EXCEPT !.links = links, !.says = "live"]
  <2>1. feed' = f
    BY <1>3
  <2>2. link \in LinkType
    BY FeedIs DEF LinkType
  <2> HIDE DEF link
  <2>3. links \in [Links -> LinkType] /\ \A k \in Links : k # l => links[k] = feed.links[k]
    BY <2>2, FeedIs
  <2> HIDE DEF links
  <2>4. f \in FeedType /\ f.links = links /\ f.on = feed.on /\ f.timer = feed.timer /\ f.ctl = feed.ctl
    BY <2>3, FeedIs DEF FeedType
  <2> HIDE DEF f
  <2>5. FeedSound(f, tab.hidden)
    <3>1. feed.on /\ ~tab.hidden /\ feed.ctl = l /\ ~feed.timer
      BY <1>3, FeedIs DEF FeedSound, NoLink
    <3>2. \A k \in Links : k # l => feed.links[k].st = "off"
      BY <3>1, FeedIs DEF FeedSound
    <3> QED
      BY <3>1, <3>2, <2>3, <2>4 DEF FeedSound
  <2> QED
    BY <1>3, <2>1, <2>4, <2>5, FeedIs, StreamKeeps
<1>4. CASE LinkCapped(l)
  <2>1. web' = [web EXCEPT !.troubles = @ - 1] /\ web.troubles > 0 /\ feed.links[l].st = "dialing"
        /\ feed' = Dropped(feed, l, tab.hidden) /\ UNCHANGED <<tab, req, panel>>
    BY <1>4 DEF LinkCapped
  <2>2. web' \in WebType /\ web'.rows = web.rows
    BY <2>1, FeedIs, TroubleSpent
  <2> QED
    BY <2>1, <2>2, <1>2
<1> QED
  BY <1>1, <1>2, <1>3, <1>4, FeedIs DEF LinkAnswered, LinkEnds

-----------------------------------------------------------------------------
(* The console's side.                                                     *)

LEMMA ConsoleKeeps ==
  ASSUME TabInv, Outage \/ Return
  PROVE  TabInv'
<1>1. UNCHANGED <<tab, req, panel, feed>> /\ web \in WebType
  BY FeedIs DEF Outage, Return
<1>2. web' \in WebType /\ web'.rows = web.rows
  <2>1. CASE Outage
    <3> DEFINE n == web.troubles - 1
               w == [web EXCEPT !.up = FALSE, !.live = {}, !.troubles = n]
    <3>1. n \in Nat /\ web' = w
      BY <2>1, FeedIs DEF Outage
    <3> HIDE DEF n
    <3>2. w \in WebType /\ w.rows = web.rows
      BY <3>1, <1>1 DEF WebType
    <3> QED
      BY <3>1, <3>2
  <2>2. CASE Return
    BY <2>2, <1>1 DEF Return, WebType
  <2> QED
    BY <2>1, <2>2
<1>3. FeedSound(feed, tab.hidden)
  BY FeedIs
<1> QED
  BY <1>1, <1>2, <1>3, FeedIs, StreamKeeps

LEMMA AnswerKeeps ==
  ASSUME TabInv, NEW s \in Slots, Answer(s)
  PROVE  TabInv'
<1> DEFINE r == req[s]
           known == r.token \in web.live
           signin == s = "auth" /\ r.kept /\ tab.busy
           minted == [web EXCEPT !.minted = @ + 1, !.live = @ \cup {web.minted + 1}]
           left == [web EXCEPT !.live = @ \ {r.token}]
           taken == [web EXCEPT !.rows = @ + 1]
           work == IF signin THEN minted ELSE IF ~known THEN web ELSE IF s = "leave" THEN left
                   ELSE IF s = "submit" THEN taken ELSE web
           rowsFor(n) == IF s = "auth" /\ ~signin THEN r.rows ELSE n
           told(a, n) == [r EXCEPT !.pc = "answered", !.answer = a, !.token = None, !.rows = rowsFor(n)]
           answer == IF signin \/ known THEN "ok" ELSE "401"
           shown == IF signin THEN web.minted + 1 ELSE IF s \in Polls /\ r.kept THEN web.rows ELSE 0
<1>1. /\ UNCHANGED <<tab, panel, feed>> /\ r.pc = "sent"
      /\ \/ web' = work /\ req' = [req EXCEPT ![s] = told(answer, shown)]
         \/ /\ web.troubles > 0 /\ web' = [work EXCEPT !.troubles = @ - 1]
            /\ req' = [req EXCEPT ![s] = told("none", 0)]
         \/ web' = web /\ req' = [req EXCEPT ![s] = told("none", 0)]
  <2>1. \A a, n : [req EXCEPT ![s].pc = "answered", ![s].answer = a, ![s].token = None, ![s].rows = rowsFor(n)]
                    = [req EXCEPT ![s] = told(a, n)]
    BY PanelIs DEF ReqType
  <2> HIDE DEF told
  <2>2. /\ UNCHANGED <<tab, panel, feed>> /\ r.pc = "sent"
        /\ \/ web' = work /\ req' = [req EXCEPT ![s].pc = "answered", ![s].answer = answer, ![s].token = None,
                                                ![s].rows = rowsFor(shown)]
           \/ /\ web.troubles > 0 /\ web' = [work EXCEPT !.troubles = @ - 1]
              /\ req' = [req EXCEPT ![s].pc = "answered", ![s].answer = "none", ![s].token = None,
                                    ![s].rows = rowsFor(0)]
           \/ web' = web /\ req' = [req EXCEPT ![s].pc = "answered", ![s].answer = "none", ![s].token = None,
                                               ![s].rows = rowsFor(0)]
    BY Zenon DEF Answer
  <2> HIDE DEF rowsFor, answer, shown, work
  <2>3. /\ [req EXCEPT ![s].pc = "answered", ![s].answer = answer, ![s].token = None, ![s].rows = rowsFor(shown)]
              = [req EXCEPT ![s] = told(answer, shown)]
        /\ [req EXCEPT ![s].pc = "answered", ![s].answer = "none", ![s].token = None, ![s].rows = rowsFor(0)]
              = [req EXCEPT ![s] = told("none", 0)]
    BY <2>1, Zenon
  <2> QED
    BY <2>2, <2>3, Zenon
<1>2. r \in ReqType /\ r.token \in Nat /\ r.rows \in Nat /\ web \in WebType /\ web.rows \in Nat
      /\ web.minted \in Nat /\ web.live \subseteq Nat /\ web.troubles \in Nat
  BY PanelIs DEF ReqType, WebType
<1>3. work \in WebType /\ work.troubles = web.troubles
      /\ work.rows = IF s = "submit" /\ known /\ ~signin THEN web.rows + 1 ELSE web.rows
  <2>1. minted \in WebType /\ minted.rows = web.rows /\ minted.troubles = web.troubles
    <3> DEFINE n == web.minted + 1
               live == web.live \cup {n}
               w == [web EXCEPT !.minted = n, !.live = live]
    <3>1. n \in Nat /\ live \in SUBSET Nat
      BY <1>2
    <3>2. minted = w
      OBVIOUS
    <3> HIDE DEF n, live, minted
    <3>3. w \in WebType /\ w.rows = web.rows /\ w.troubles = web.troubles
      BY <1>2, <3>1 DEF WebType
    <3> QED
      BY <3>2, <3>3
  <2>2. left \in WebType /\ left.rows = web.rows /\ left.troubles = web.troubles
    <3> DEFINE live == web.live \ {r.token}
    <3>1. live \in SUBSET Nat
      BY <1>2
    <3> HIDE DEF live
    <3>2. [web EXCEPT !.live = live] \in WebType /\ [web EXCEPT !.live = live].rows = web.rows
          /\ [web EXCEPT !.live = live].troubles = web.troubles
      BY <1>2, <3>1 DEF WebType
    <3> QED
      BY <3>2 DEF live
  <2>3. taken \in WebType /\ taken.rows = web.rows + 1 /\ taken.troubles = web.troubles
    <3> DEFINE n == web.rows + 1
    <3>1. n \in Nat
      BY <1>2
    <3> HIDE DEF n
    <3>2. [web EXCEPT !.rows = n] \in WebType /\ [web EXCEPT !.rows = n].rows = n
          /\ [web EXCEPT !.rows = n].troubles = web.troubles
      BY <1>2, <3>1 DEF WebType
    <3> QED
      BY <3>2 DEF n
  <2> HIDE DEF minted, left, taken, signin, known
  <2> QED
    BY <2>1, <2>2, <2>3, <1>2
<1>4. answer \in {"ok", "401"} /\ shown \in Nat
  BY <1>2
<1>5. /\ \A a \in {"ok", "none", "401"}, n \in Nat : told(a, n) \in ReqType
      /\ \A a, n : told(a, n).pc = "answered" /\ told(a, n).answer = a /\ told(a, n).kept = r.kept
                   /\ (s # "auth" => told(a, n).rows = n)
  <2>1. \A n \in Nat : rowsFor(n) \in Nat
    BY <1>2
  <2>2. \A n : s # "auth" => rowsFor(n) = n
    OBVIOUS
  <2> HIDE DEF rowsFor, r
  <2>3. \A a \in {"ok", "none", "401"}, n \in Nat : told(a, n) \in ReqType
    BY <1>2, <2>1 DEF ReqType, None
  <2>4. \A a, n : told(a, n).pc = "answered" /\ told(a, n).answer = a /\ told(a, n).kept = r.kept
                   /\ told(a, n).rows = rowsFor(n)
    BY <1>2 DEF ReqType
  <2> HIDE DEF told
  <2> QED
    BY <2>2, <2>3, <2>4
<1>6. s \in Polls => Covers(told(answer, shown), panel.floor)
  <2>1. HAVE s \in Polls
  <2>2. r.kept => shown = web.rows
    BY <2>1, SlotsAre
  <2>3. s # "auth"
    BY <2>1, SlotsAre
  <2> HIDE DEF told, shown, answer, r
  <2>4. told(answer, shown).rows = shown /\ told(answer, shown).kept = r.kept
    BY <2>3, <1>5
  <2> QED
    BY <2>2, <2>4, <1>2, PanelIs DEF Covers
<1>7. \A n : Covers(told("none", n), panel.floor) /\ Told(told("none", n)) = 0
  <2> HIDE DEF told
  <2> QED
    BY <1>5 DEF Covers, Told
<1>8. s = "submit" => Told(r) = 0 /\ Told(told(answer, shown)) = (IF known THEN 1 ELSE 0) /\ ~signin
  <2>1. HAVE s = "submit"
  <2>2. ~signin /\ Told(r) = 0
    BY <2>1, <1>1 DEF Told
  <2>3. answer = IF known THEN "ok" ELSE "401"
    BY <2>2
  <2> HIDE DEF told, answer, known
  <2> QED
    BY <2>2, <2>3, <1>5 DEF Told
<1> HIDE DEF told, answer, shown, work
<1>9. PICK q \in ReqType, w \in WebType :
        /\ req' = [req EXCEPT ![s] = q] /\ web' = w
        /\ s \in Polls => Covers(q, panel.floor)
        /\ w.rows >= web.rows
        /\ s = "submit" => panel.acked + Told(q) <= w.rows
  <2>1. panel.acked <= web.rows /\ panel.acked \in Nat
    BY PanelIs
  <2>2. CASE web' = work /\ req' = [req EXCEPT ![s] = told(answer, shown)]
    <3>1. told(answer, shown) \in ReqType
      BY <1>4, <1>5
    <3>2. work.rows >= web.rows
      BY <1>2, <1>3
    <3>3. s = "submit" => panel.acked + Told(told(answer, shown)) <= work.rows
      BY <1>2, <1>3, <1>8, <2>1
    <3> QED
      BY <2>2, <3>1, <3>2, <3>3, <1>3, <1>6
  <2>3. CASE req' = [req EXCEPT ![s] = told("none", 0)] /\ (web' = web \/ (web.troubles > 0 /\ web' = [work EXCEPT !.troubles = @ - 1]))
    <3>1. told("none", 0) \in ReqType
      BY <1>5
    <3>2. web' \in WebType /\ web'.rows >= web.rows
      <4>1. CASE web' = web
        BY <4>1, <1>2
      <4>2. CASE web.troubles > 0 /\ web' = [work EXCEPT !.troubles = @ - 1]
        <5> DEFINE n == work.troubles - 1
                   w == [work EXCEPT !.troubles = n]
        <5>1. n \in Nat
          BY <4>2, <1>2, <1>3
        <5> HIDE DEF n
        <5>2. w \in WebType /\ w.rows = work.rows
          BY <5>1, <1>3 DEF WebType
        <5>3. work.rows >= web.rows
          BY <1>2, <1>3
        <5>4. web' = w
          BY <4>2 DEF n
        <5> QED
          BY <5>2, <5>3, <5>4
      <4> QED
        BY <2>3, <4>1, <4>2
    <3>3. web'.rows \in Nat
      BY <3>2 DEF WebType
    <3>4. s = "submit" => panel.acked + Told(told("none", 0)) <= web'.rows
      BY <2>1, <3>2, <3>3, <1>2, <1>7
    <3> QED
      BY <2>3, <3>1, <3>2, <3>4, <1>7
  <2> QED
    BY <1>1, <2>2, <2>3
<1>10. req' \in [Slots -> ReqType] /\ req'[s] = q /\ \A t \in Slots : t # s => req'[t] = req[t]
  BY <1>9, ReqSet DEF TabInv
<1>11. TabTypes'
  BY <1>1, <1>9, <1>10 DEF TabInv, TabTypes
<1>12. FeedHeld' /\ ReloadHolds'
  BY <1>1 DEF TabInv, FeedHeld, ReloadHolds
<1>13. PollHeld'
  BY <1>1, <1>9, <1>10, PanelIs, SlotsAre DEF PollHeld
<1>14. AckHeld'
  <2>1. w.rows \in Nat
    BY DEF WebType
  <2>2. panel.acked + Told(req'["submit"]) <= w.rows
    <3>1. CASE s = "submit"
      BY <3>1, <1>9, <1>10
    <3>2. CASE s # "submit"
      <4>1. req'["submit"] = req["submit"]
        BY <3>2, <1>10, SlotsAre
      <4>2. Told(req["submit"]) \in {0, 1}
        BY DEF Told
      <4> QED
        BY <4>1, <4>2, <2>1, <1>9, PanelIs
    <3> QED
      BY <3>1, <3>2
  <2> QED
    BY <1>1, <1>9, <2>2, PanelIs DEF AckHeld
<1> QED
  BY <1>11, <1>12, <1>13, <1>14 DEF TabInv

-----------------------------------------------------------------------------

LEMMA TabInvInit == TabInit(TRUE) => TabInv
<1> SUFFICES ASSUME TabInit(TRUE) PROVE TabInv
  OBVIOUS
<1>1. PICK token \in IF TRUE THEN {None, 1} ELSE {None},
           left \in IF TRUE THEN {<<MaxAsks, 0>>, <<0, MaxTroubles>>} ELSE {<<0, 0>>} :
        \E live \in {{}, {token} \ {None}} :
          /\ web = [up |-> TRUE, live |-> live, minted |-> 1, rows |-> 0, troubles |-> left[2]]
          /\ tab = [token |-> token, hidden |-> FALSE, busy |-> FALSE, asks |-> left[1],
                    screen |-> IF ~TRUE THEN "closed" ELSE IF token = None THEN "anonymous" ELSE "unknown"]
          /\ req = [s \in Slots |-> IF TRUE /\ s = "auth" /\ token # None THEN Sent(token) ELSE Quiet]
          /\ panel = Cold
          /\ feed = Unfed
  BY DEF TabInit
<1>2. PICK live \in {{}, {token} \ {None}} :
        web = [up |-> TRUE, live |-> live, minted |-> 1, rows |-> 0, troubles |-> left[2]]
  BY <1>1
<1>3. left[1] \in Nat /\ left[2] \in Nat /\ token \in Nat /\ live \in SUBSET Nat
  BY <1>1, <1>2, TabLimitsAssumption DEF None
<1> DEFINE troubles == left[2]
           controls == left[1]
           screen == IF token = None THEN "anonymous" ELSE "unknown"
<1>4. screen \in {"anonymous", "unknown"} /\ troubles \in Nat /\ controls \in Nat
  BY <1>3
<1>5. web = [up |-> TRUE, live |-> live, minted |-> 1, rows |-> 0, troubles |-> troubles]
      /\ tab = [token |-> token, hidden |-> FALSE, busy |-> FALSE, asks |-> controls, screen |-> screen]
  BY <1>1, <1>2
<1> HIDE DEF troubles, controls, screen
<1>6. web \in WebType /\ web.rows = 0
  BY <1>3, <1>4, <1>5 DEF WebType
<1>7. tab \in TabType /\ ~tab.busy /\ tab.screen # "signed-in"
  BY <1>3, <1>4, <1>5 DEF TabType
<1>8. req \in [Slots -> ReqType] /\ req["submit"] = Quiet /\ \A s \in Polls : req[s] = Quiet
  <2>1. req = [s \in Slots |-> IF s = "auth" /\ token # None THEN Sent(token) ELSE Quiet]
    BY <1>1
  <2>2. Sent(token) \in ReqType /\ Quiet \in ReqType
    BY <1>3, QuietIs, SentIs
  <2> QED
    BY <2>1, <2>2, SlotsAre
<1>9. panel = [Cold EXCEPT !.acked = 0] /\ ~panel.on /\ panel.acked = 0 /\ panel.floor = 0
  BY <1>1 DEF Cold
<1>10. feed \in FeedType /\ ~feed.on /\ FeedSound(feed, tab.hidden)
  <2> DEFINE cold == [st |-> "off", token |-> None]
             links == [l \in Links |-> cold]
  <2>1. cold \in LinkType /\ cold.st = "off"
    BY DEF LinkType, None
  <2> HIDE DEF cold
  <2>2. links \in [Links -> LinkType] /\ \A l \in Links : links[l] = cold
    BY <2>1
  <2> HIDE DEF links
  <2>3. feed = [on |-> FALSE, ctl |-> None, timer |-> FALSE, says |-> "connecting", links |-> links]
    BY <1>1 DEF Unfed, links, cold
  <2> QED
    BY <2>1, <2>2, <2>3 DEF FeedType, FeedSound
<1>11. TabTypes
  <2>1. panel \in PanelType
    BY <1>9, ColdIs
  <2> QED
    BY <2>1, <1>6, <1>7, <1>8, <1>10 DEF TabTypes
<1>12. FeedHeld
  BY <1>7, <1>10 DEF FeedHeld
<1>13. PollHeld /\ AckHeld /\ ReloadHolds
  BY <1>6, <1>8, <1>9, QuietIs DEF PollHeld, AckHeld, ReloadHolds
<1> QED
  BY <1>11, <1>12, <1>13 DEF TabInv

LEMMA TabInvNext == TabInv /\ [TabNext]_tabVars => TabInv'
<1> SUFFICES ASSUME TabInv, [TabNext]_tabVars PROVE TabInv'
  OBVIOUS
<1>1. CASE SignIn \/ SignedIn \/ SignOut
  BY <1>1, SignKeeps
<1>2. CASE WhoamiAnswered
  BY <1>2, WhoamiKeeps
<1>3. CASE SignedOut
  BY <1>3, SignedOutKeeps
<1>4. CASE Navigate
  BY <1>4, NavigateKeeps
<1>5. CASE Ask \/ Cancel \/ Confirm
  BY <1>5, ControlKeeps
<1>6. CASE Submitted
  BY <1>6, SubmittedKeeps
<1>7. CASE Retry
  BY <1>7, RetryKeeps
<1>8. CASE Hide
  BY <1>8, HideKeeps
<1>9. CASE Show
  BY <1>9, ShowKeeps
<1>10. CASE Outage \/ Return
  BY <1>10, ConsoleKeeps
<1>11. ASSUME NEW s \in Polls, Load(s) PROVE TabInv'
  BY <1>11, LoadKeeps
<1>12. ASSUME NEW s \in Polls, Loaded(s) PROVE TabInv'
  BY <1>12, LoadedKeeps
<1>13. ASSUME NEW l \in Links, LinkAnswered(l) \/ LinkCapped(l) \/ LinkRefused(l) \/ LinkEnds(l) PROVE TabInv'
  BY <1>13, LinkKeeps
<1>14. ASSUME NEW s \in Slots, Answer(s) PROVE TabInv'
  BY <1>14, AnswerKeeps
<1>15. CASE UNCHANGED tabVars
  BY <1>15 DEF tabVars, TabInv, TabTypes, FeedHeld, PollHeld, AckHeld, ReloadHolds
<1> QED
  BY <1>1, <1>2, <1>3, <1>4, <1>5, <1>6, <1>7, <1>8, <1>9, <1>10, <1>11, <1>12, <1>13, <1>14, <1>15 DEF TabNext

(* The connections are those of the current controller. *)
LEMMA StreamIsOne ==
  ASSUME TabInv
  PROVE  OneStream
<1> DEFINE held == {l \in Links : feed.links[l].st # "off"}
<1>1. held \subseteq {feed.ctl} /\ (held # {} => feed.on /\ ~tab.hidden)
  BY FeedIs DEF FeedSound
<1>2. IsFiniteSet({feed.ctl}) /\ Cardinality({feed.ctl}) = 1
  BY FS_Singleton
<1>3. Cardinality(held) <= 1
  BY <1>1, <1>2, FS_Subset
<1>4. tab.screen # "signed-in" \/ tab.hidden => held = {}
  BY <1>1 DEF TabInv, FeedHeld
<1> QED
  BY <1>3, <1>4 DEF OneStream

(***************************************************************************)
(* Whatever the order of hides, drops, refusals, restarts of the console,  *)
(* sign-outs and sign-ins, a tab holds at most one stream, and none when   *)
(* it is hidden or not signed in; and a reloaded panel never goes back to  *)
(* an answer older than a command the tab was told of.                     *)
(***************************************************************************)
THEOREM TabSafeHolds == TabSpec => []TabSafe
<1>1. TabInv => TabSafe
  BY StreamIsOne DEF TabSafe, TabInv
<1> QED
  BY <1>1, TabInvInit, TabInvNext, PTL DEF TabSpec

-----------------------------------------------------------------------------
(***************************************************************************)
(* The append path of the Google Cloud Storage store.                      *)
(***************************************************************************)
AppendPlaces == {"head", "write", "answer", "meta", "snap", "compact", "landed", "accepted", "failed"}
Chains == Seq(Appends)

BucketOf == [size : {Ones, Powers}, replaces : SUBSET Appends, staged : SUBSET Appends,
             erased : SUBSET Appends, gens : Nat, lost : Nat]
CanonOf  == [gen : Nat, chunks : Chains, parts : Nat]
HeadsOf(size)   == [gen : Nat, bytes : {0} \cup {SumOf(size, h) : h \in Chains}]
AppendOf(size)  == [pc : AppendPlaces, try : Nat, head : HeadsOf(size), got : {"", "ok", "412"}, snap : Chains]

AppendTypes == /\ canon \in CanonOf /\ bucket \in BucketOf
               /\ appends \in [Appends -> AppendOf(bucket.size)]

(* A chain of chunks that were written, each at most once. *)
Wrote(a) == appends[a].got = "ok"
Sound(chunks) == Once(chunks) /\ \A i \in 1..Len(chunks) : Wrote(chunks[i])

(* Where a write can still come from, and what it carries. *)
WriteHeld ==
  /\ Sound(canon.chunks) /\ \A a \in Appends : Sound(appends[a].snap)
  /\ \A a \in Appends : Wrote(a) => appends[a].pc \notin {"head", "write"}
  /\ \A a \in Appends : appends[a].pc \in {"meta", "snap", "compact", "landed"} => Wrote(a)

(* What was written stays, or an erasure took it. *)
PlaceHeld ==
  /\ canon.gen = 0 => canon.chunks = <<>>
  /\ canon.gen # 0 => \E b \in Appends : Wrote(b)
  /\ canon.gen <= bucket.gens
  /\ \A a \in Appends : Wrote(a) => a \in Range(canon.chunks) \cup bucket.erased
  /\ \A a \in Appends : appends[a].pc \in {"snap", "compact"} => appends[a].head.gen # 0 /\ appends[a].head.gen <= bucket.gens
  /\ \A a \in Appends : appends[a].pc = "compact" /\ canon.gen = appends[a].head.gen => appends[a].snap = canon.chunks

(***************************************************************************)
(* Arithmetic: sums of different powers of two are different, for chains   *)
(* of any length (Records has TLC compute it for short ones).              *)
(***************************************************************************)
BinarySums == SumsDiffer(Chains)

(* The length a write's head was read at is that of a chain without its chunk; *)
(* so what an append takes for its own write was another of the same size.     *)
HeadHeld ==
  /\ \A a \in Appends : appends[a].pc \in {"write", "answer"} /\ ~Wrote(a) =>
       \E h \in Chains : Once(h) /\ a \notin Range(h) /\ appends[a].head.bytes = SumOf(bucket.size, h)
  /\ \A a \in Appends : appends[a].pc = "accepted" /\ BinarySums => Coincides

AppendInv == AppendTypes /\ WriteHeld /\ PlaceHeld /\ HeadHeld

LEMMA CopyIs ==
  ASSUME AppendTypes, NEW a \in Appends, NEW rec \in AppendOf(bucket.size), appends' = [appends EXCEPT ![a] = rec],
         bucket' \in BucketOf, bucket'.size = bucket.size
  PROVE  /\ appends' \in [Appends -> AppendOf(bucket'.size)] /\ appends'[a] = rec
         /\ \A b \in Appends : b # a => appends'[b] = appends[b]
BY DEF AppendTypes

LEMMA FieldsOf ==
  ASSUME AppendTypes, NEW a \in Appends
  PROVE  /\ appends[a] \in AppendOf(bucket.size) /\ appends[a].pc \in AppendPlaces /\ appends[a].try \in Nat
         /\ appends[a].head \in HeadsOf(bucket.size) /\ appends[a].got \in {"", "ok", "412"} /\ appends[a].snap \in Chains
         /\ appends[a].head.gen \in Nat /\ canon.gen \in Nat /\ canon.chunks \in Chains /\ bucket.gens \in Nat
<1>1. appends[a] \in AppendOf(bucket.size)
  BY DEF AppendTypes
<1>2. appends[a].head \in HeadsOf(bucket.size)
  BY <1>1 DEF AppendOf
<1> QED
  BY <1>1, <1>2 DEF AppendTypes, AppendOf, HeadsOf, CanonOf, BucketOf

LEMMA HeadIs ==
  ASSUME AppendTypes
  PROVE  HeadOf \in HeadsOf(bucket.size) /\ HeadOf.gen = canon.gen /\ HeadOf.bytes = SumOf(bucket.size, canon.chunks)
<1>1. canon.chunks \in Chains /\ canon.gen \in Nat
  BY DEF AppendTypes, CanonOf
<1> DEFINE bytes == SumOf(bucket.size, canon.chunks)
<1>2. bytes \in {SumOf(bucket.size, h) : h \in Chains}
  BY <1>1
<1>3. HeadOf = [gen |-> canon.gen, bytes |-> bytes]
  BY DEF HeadOf, BytesOf
<1> HIDE DEF bytes
<1>4. HeadOf \in HeadsOf(bucket.size) /\ HeadOf.gen = canon.gen /\ HeadOf.bytes = bytes
  BY <1>1, <1>2, <1>3 DEF HeadsOf
<1> QED
  BY <1>4 DEF bytes

(* What a step changes of one append that writes nothing. *)
LEMMA NoWriteKeeps ==
  ASSUME AppendInv, NEW a \in Appends, canon' = canon,
         bucket' \in BucketOf, bucket'.size = bucket.size, bucket'.gens = bucket.gens, bucket'.erased = bucket.erased,
         NEW rec \in AppendOf(bucket.size), appends' = [appends EXCEPT ![a] = rec],
         rec.got = "ok" <=> Wrote(a), rec.snap \in {appends[a].snap, canon.chunks},
         Wrote(a) => rec.pc \notin {"head", "write"}, rec.pc \in {"meta", "snap", "compact", "landed"} => Wrote(a),
         rec.pc \in {"snap", "compact"} => rec.head.gen # 0 /\ rec.head.gen <= bucket.gens,
         rec.pc = "compact" /\ canon.gen = rec.head.gen => rec.snap = canon.chunks,
         rec.pc \in {"write", "answer"} /\ ~Wrote(a) =>
           \E h \in Chains : Once(h) /\ a \notin Range(h) /\ rec.head.bytes = SumOf(bucket.size, h),
         rec.pc = "accepted" /\ BinarySums => Coincides
  PROVE  AppendInv'
<1>1. AppendTypes
  BY DEF AppendInv
<1>2. /\ appends' \in [Appends -> AppendOf(bucket'.size)] /\ appends'[a] = rec
      /\ \A b \in Appends : b # a => appends'[b] = appends[b]
  BY <1>1, CopyIs
<1>3. AppendTypes'
  BY <1>1, <1>2 DEF AppendTypes
<1>4. \A b \in Appends : appends'[b].got = "ok" <=> Wrote(b)
  BY <1>2 DEF Wrote
<1>5. ASSUME NEW chunks \in Chains, Sound(chunks) PROVE Once(chunks) /\ \A i \in 1..Len(chunks) : appends'[chunks[i]].got = "ok"
  <2>1. \A i \in 1..Len(chunks) : chunks[i] \in Appends
    BY DEF Chains
  <2> QED
    BY <1>4, <1>5, <2>1 DEF Sound
<1>6. WriteHeld'
  <2>1. WriteHeld
    BY DEF AppendInv
  <2>2. canon.chunks \in Chains /\ \A b \in Appends : appends[b].snap \in Chains
    BY <1>1, FieldsOf
  <2>3. Once(canon.chunks) /\ \A i \in 1..Len(canon.chunks) : appends'[canon.chunks[i]].got = "ok"
    BY <1>5, <2>1, <2>2 DEF WriteHeld
  <2>4. ASSUME NEW b \in Appends
        PROVE  Once(appends'[b].snap) /\ \A i \in 1..Len(appends'[b].snap) : appends'[appends'[b].snap[i]].got = "ok"
    <3>1. appends'[b].snap \in {appends[b].snap, canon.chunks}
      BY <1>2
    <3> QED
      BY <1>5, <2>1, <2>2, <3>1 DEF WriteHeld
  <2>5. \A b \in Appends : /\ appends'[b].got = "ok" => appends'[b].pc \notin {"head", "write"}
                           /\ appends'[b].pc \in {"meta", "snap", "compact", "landed"} => appends'[b].got = "ok"
    BY <1>2, <1>4, <2>1 DEF WriteHeld
  <2> QED
    BY <2>3, <2>4, <2>5 DEF WriteHeld, Sound, Wrote, Once
<1>7. PlaceHeld'
  <2>1. PlaceHeld
    BY DEF AppendInv
  <2> QED
    BY <1>2, <1>4, <2>1 DEF PlaceHeld, Wrote
<1>8. HeadHeld'
  <2>1. HeadHeld
    BY DEF AppendInv
  <2>2. Coincides => Coincides'
    BY DEF Coincides
  <2>3. ASSUME NEW b \in Appends, appends'[b].pc \in {"write", "answer"}, appends'[b].got # "ok"
        PROVE  \E h \in Chains : Once(h) /\ b \notin Range(h) /\ appends'[b].head.bytes = SumOf(bucket.size, h)
    BY <1>2, <1>4, <2>1, <2>3 DEF HeadHeld
  <2>4. ASSUME NEW b \in Appends, appends'[b].pc = "accepted", BinarySums PROVE Coincides'
    BY <1>2, <2>1, <2>2, <2>4 DEF HeadHeld
  <2> QED
    BY <2>3, <2>4 DEF HeadHeld, Wrote
<1> QED
  BY <1>3, <1>6, <1>7, <1>8 DEF AppendInv

(* The bucket after a call that lost its answer, and after a staged chunk is dropped. *)
SameBucket(new) == /\ new \in BucketOf /\ new.size = bucket.size /\ new.gens = bucket.gens /\ new.erased = bucket.erased

LEMMA BucketKept ==
  ASSUME AppendTypes, NEW a
  PROVE  /\ SameBucket(bucket) /\ SameBucket([bucket EXCEPT !.lost = @ + 1])
         /\ SameBucket([bucket EXCEPT !.staged = @ \ {a}])
<1>1. bucket \in BucketOf /\ bucket.lost \in Nat
  BY DEF AppendTypes, BucketOf
<1>2. SameBucket([bucket EXCEPT !.lost = bucket.lost + 1])
  <2> DEFINE n == bucket.lost + 1
  <2>1. n \in Nat
    BY <1>1
  <2> HIDE DEF n
  <2>2. SameBucket([bucket EXCEPT !.lost = n])
    BY <1>1, <2>1 DEF SameBucket, BucketOf
  <2> QED
    BY <2>2 DEF n
<1>3. SameBucket([bucket EXCEPT !.staged = bucket.staged \ {a}])
  <2> DEFINE n == bucket.staged \ {a}
  <2>1. n \in SUBSET Appends
    BY <1>1 DEF BucketOf
  <2> HIDE DEF n
  <2>2. SameBucket([bucket EXCEPT !.staged = n])
    BY <1>1, <2>1 DEF SameBucket, BucketOf
  <2> QED
    BY <2>2 DEF n
<1> QED
  BY <1>1, <1>2, <1>3 DEF SameBucket

(* A step to another place that writes nothing and reads nothing. *)
LEMMA GotoKeeps ==
  ASSUME AppendInv, NEW a \in Appends, NEW pc \in AppendPlaces, Goto(a, pc), canon' = canon, SameBucket(bucket'),
         pc \in {"meta", "landed"} => Wrote(a), pc = "accepted" /\ BinarySums => Coincides,
         pc \notin {"head", "write", "answer", "snap", "compact"}
  PROVE  AppendInv'
<1> DEFINE rec == [appends[a] EXCEPT !.pc = pc]
<1>1. AppendTypes /\ WriteHeld
  BY DEF AppendInv
<1>2. appends' = [appends EXCEPT ![a] = rec]
  BY DEF Goto
<1>3. /\ rec \in AppendOf(bucket.size) /\ rec.pc = pc /\ rec.got = appends[a].got /\ rec.snap = appends[a].snap
      /\ rec.head = appends[a].head
  BY <1>1, FieldsOf DEF AppendOf
<1> HIDE DEF rec
<1> QED
  BY <1>2, <1>3, NoWriteKeeps DEF SameBucket, Wrote

LEMMA ReadHeadKeeps ==
  ASSUME AppendInv, NEW a \in Appends, ReadHead(a)
  PROVE  AppendInv'
<1> DEFINE rec == [appends[a] EXCEPT !.pc = "write", !.head = HeadOf]
<1>1. AppendTypes /\ WriteHeld /\ appends[a].pc = "head" /\ canon' = canon /\ bucket' = bucket
  BY DEF AppendInv, ReadHead
<1>2. appends' = [appends EXCEPT ![a] = rec]
  BY <1>1 DEF ReadHead, AppendTypes
<1>3. /\ rec \in AppendOf(bucket.size) /\ rec.pc = "write" /\ rec.got = appends[a].got /\ rec.snap = appends[a].snap
      /\ rec.head = HeadOf
  <2>1. HeadOf \in HeadsOf(bucket.size) /\ appends[a] \in AppendOf(bucket.size)
    BY <1>1, HeadIs, FieldsOf
  <2> DEFINE head == HeadOf
  <2> HIDE DEF head
  <2>2. [appends[a] EXCEPT !.pc = "write", !.head = head] \in AppendOf(bucket.size)
    BY <2>1 DEF AppendOf, AppendPlaces, head
  <2> QED
    BY <2>1, <2>2 DEF AppendOf, head
<1>4. ~Wrote(a) /\ Sound(canon.chunks) /\ canon.chunks \in Chains
  BY <1>1, FieldsOf DEF WriteHeld
<1>5. Once(canon.chunks) /\ a \notin Range(canon.chunks)
  <2>1. DOMAIN canon.chunks = 1..Len(canon.chunks)
    BY <1>4 DEF Chains
  <2> QED
    BY <1>4, <2>1 DEF Sound, Range
<1>6. SameBucket(bucket)
  BY <1>1, BucketKept
<1>7. rec.head.bytes = SumOf(bucket.size, canon.chunks)
  BY <1>1, <1>3, HeadIs
<1> HIDE DEF rec
<1> QED
  BY <1>1, <1>2, <1>3, <1>4, <1>5, <1>6, <1>7, NoWriteKeeps DEF SameBucket, Wrote

LEMMA FailsKeep ==
  ASSUME AppendInv, NEW a \in Appends, WriteGone(a) \/ AnswerLost(a) \/ ReadFails(a)
  PROVE  AppendInv'
<1>1. AppendTypes
  BY DEF AppendInv
<1>2. canon' = canon /\ Goto(a, "failed") /\ (bucket' = bucket \/ bucket' = [bucket EXCEPT !.lost = @ + 1])
  BY DEF WriteGone, AnswerLost, ReadFails, Resends
<1>3. SameBucket(bucket')
  BY <1>1, <1>2, BucketKept
<1> QED
  BY <1>2, <1>3, GotoKeeps DEF AppendPlaces

LEMMA AppendLandedKeeps ==
  ASSUME AppendInv, NEW a \in Appends, AppendLanded(a)
  PROVE  AppendInv'
<1>1. AppendTypes /\ Wrote(a) /\ canon' = canon /\ SameBucket(bucket')
  BY BucketKept DEF AppendInv, AppendLanded, Wrote
<1>2. Goto(a, "landed") \/ Goto(a, "meta")
  BY DEF AppendLanded
<1> QED
  BY <1>1, <1>2, GotoKeeps DEF AppendPlaces

LEMMA InterrogatedKeeps ==
  ASSUME AppendInv, NEW a \in Appends, Interrogated(a)
  PROVE  AppendInv'
<1>1. AppendTypes /\ WriteHeld /\ PlaceHeld /\ HeadHeld /\ canon' = canon /\ appends[a].pc = "answer" /\ ~Wrote(a)
  BY DEF AppendInv, Interrogated, Wrote
<1>2. CASE LandedAlready(a)
  <2>1. Goto(a, "accepted") /\ SameBucket(bucket')
    BY <1>1, <1>2, BucketKept DEF Interrogated
  <2>2. PICK b \in Appends : Wrote(b)
    BY <1>1, <1>2 DEF LandedAlready, PlaceHeld
  <2>3. PICK h \in Chains : Once(h) /\ a \notin Range(h) /\ appends[a].head.bytes = SumOf(bucket.size, h)
    BY <1>1 DEF HeadHeld
  <2>4. canon.chunks \in Chains /\ Once(canon.chunks) /\ a \notin Range(canon.chunks)
    <3>1. Sound(canon.chunks) /\ canon.chunks \in Chains
      BY <1>1, FieldsOf DEF WriteHeld
    <3>2. DOMAIN canon.chunks = 1..Len(canon.chunks)
      BY <3>1 DEF Chains
    <3> QED
      BY <1>1, <3>1, <3>2 DEF Sound, Range
  <2>5. SumOf(bucket.size, canon.chunks) = SumOf(bucket.size, h) + bucket.size[a]
    BY <1>2, <2>3 DEF LandedAlready, BytesOf
  <2>6. BinarySums => bucket.size # Powers
    BY <2>3, <2>4, <2>5 DEF BinarySums, SumsDiffer
  <2>7. BinarySums => bucket.size = Ones
    BY <1>1, <2>6 DEF AppendTypes, BucketOf
  <2>8. BinarySums => Coincides
    <3>1. a # b /\ (BinarySums => bucket.size[a] = 1 /\ bucket.size[b] = 1)
      BY <1>1, <2>2, <2>7 DEF Ones
    <3> QED
      BY <3>1 DEF Coincides
  <2> QED
    BY <1>1, <2>1, <2>8, GotoKeeps DEF AppendPlaces
<1>3. CASE ~LandedAlready(a) /\ appends[a].try < Attempts
  <2> DEFINE try == appends[a].try + 1
             rec == [appends[a] EXCEPT !.pc = "head", !.try = try]
  <2>1. try \in Nat
    <3>1. appends[a].try \in Nat
      BY <1>1, FieldsOf
    <3> HIDE <1>1, <1>3
    <3> QED
      BY <3>1
  <2>2. appends' = [appends EXCEPT ![a] = rec] /\ bucket' = bucket
    BY <1>1, <1>3 DEF Interrogated, AppendTypes
  <2> HIDE DEF try
  <2>3. /\ rec \in AppendOf(bucket.size) /\ rec.pc = "head" /\ rec.got = appends[a].got /\ rec.snap = appends[a].snap
    BY <1>1, <2>1, FieldsOf DEF AppendOf, AppendPlaces
  <2>4. SameBucket(bucket)
    BY <1>1, BucketKept
  <2> HIDE DEF rec
  <2> QED
    BY <1>1, <2>2, <2>3, <2>4, NoWriteKeeps DEF SameBucket, Wrote
<1>4. CASE ~LandedAlready(a) /\ ~(appends[a].try < Attempts)
  BY <1>1, <1>4, GotoKeeps, BucketKept DEF Interrogated, AppendPlaces
<1> QED
  BY <1>2, <1>3, <1>4

LEMMA ReadMetaKeeps ==
  ASSUME AppendInv, NEW a \in Appends, ReadMeta(a)
  PROVE  AppendInv'
<1>1. AppendTypes /\ WriteHeld /\ PlaceHeld /\ appends[a].pc = "meta" /\ canon' = canon /\ bucket' = bucket
  BY DEF AppendInv, ReadMeta
<1>2. PICK pc \in {"failed", "snap", "landed"} :
        /\ pc = IF canon.gen = 0 THEN "failed" ELSE IF canon.parts >= CompactAt THEN "snap" ELSE "landed"
        /\ pc = "snap" => canon.gen # 0
  OBVIOUS
<1> DEFINE head == HeadOf
           rec == [appends[a] EXCEPT !.pc = pc, !.head = head]
<1>3. appends' = [appends EXCEPT ![a].head = head, ![a].pc = pc]
  BY <1>2 DEF ReadMeta
<1>4. head \in HeadsOf(bucket.size) /\ head.gen = canon.gen
  BY <1>1, HeadIs
<1> HIDE DEF head
<1>5. appends' = [appends EXCEPT ![a] = rec]
  <2>1. appends[a] \in AppendOf(bucket.size) /\ appends \in [Appends -> AppendOf(bucket.size)]
    BY <1>1, FieldsOf DEF AppendTypes
  <2>2. [[appends[a] EXCEPT !.head = head] EXCEPT !.pc = pc] = rec
    BY <2>1 DEF AppendOf
  <2> QED
    BY <1>3, <2>1, <2>2
<1>6. /\ rec \in AppendOf(bucket.size) /\ rec.pc = pc /\ rec.got = appends[a].got /\ rec.snap = appends[a].snap
      /\ rec.head = head
  <2>1. appends[a] \in AppendOf(bucket.size) /\ pc \in AppendPlaces
    BY <1>1, <1>2, FieldsOf DEF AppendPlaces
  <2> QED
    BY <1>4, <2>1 DEF AppendOf
<1>7. Wrote(a) /\ canon.gen <= bucket.gens
  BY <1>1 DEF WriteHeld, PlaceHeld
<1>8. SameBucket(bucket)
  BY <1>1, BucketKept
<1> HIDE DEF rec
<1> QED
  BY <1>1, <1>2, <1>4, <1>5, <1>6, <1>7, <1>8, NoWriteKeeps DEF SameBucket, Wrote

LEMMA CopyAsideKeeps ==
  ASSUME AppendInv, NEW a \in Appends, CopyAside(a)
  PROVE  AppendInv'
<1>1. /\ AppendTypes /\ WriteHeld /\ PlaceHeld /\ appends[a].pc = "snap" /\ canon' = canon /\ bucket' = bucket
      /\ canon.chunks \in Chains
  BY FieldsOf DEF AppendInv, CopyAside
<1>2. PICK pc \in {"landed", "compact"} : pc = IF canon.gen = 0 THEN "landed" ELSE "compact"
  OBVIOUS
<1> DEFINE chunks == canon.chunks
           rec == [appends[a] EXCEPT !.pc = pc, !.snap = chunks]
<1>3. appends' = [appends EXCEPT ![a].snap = chunks, ![a].pc = pc]
  BY <1>2 DEF CopyAside
<1>4. chunks \in Chains /\ chunks = canon.chunks
  BY <1>1
<1> HIDE DEF chunks
<1>5. appends' = [appends EXCEPT ![a] = rec]
  <2>1. appends[a] \in AppendOf(bucket.size) /\ appends \in [Appends -> AppendOf(bucket.size)]
    BY <1>1, FieldsOf DEF AppendTypes
  <2>2. [[appends[a] EXCEPT !.snap = chunks] EXCEPT !.pc = pc] = rec
    BY <2>1 DEF AppendOf
  <2> QED
    BY <1>3, <2>1, <2>2
<1>6. /\ rec \in AppendOf(bucket.size) /\ rec.pc = pc /\ rec.got = appends[a].got /\ rec.snap = chunks
      /\ rec.head = appends[a].head
  <2>1. appends[a] \in AppendOf(bucket.size) /\ pc \in AppendPlaces
    BY <1>1, <1>2, FieldsOf DEF AppendPlaces
  <2> QED
    BY <1>4, <2>1 DEF AppendOf
<1>7. Wrote(a) /\ appends[a].head.gen # 0 /\ appends[a].head.gen <= bucket.gens
  BY <1>1 DEF WriteHeld, PlaceHeld
<1>8. SameBucket(bucket)
  BY <1>1, BucketKept
<1> HIDE DEF rec
<1> QED
  BY <1>1, <1>2, <1>4, <1>5, <1>6, <1>7, <1>8, NoWriteKeeps DEF SameBucket, Wrote

LEMMA ChainIs ==
  ASSUME NEW s \in Chains, NEW a \in Appends, NEW c \in {<<a>>, Append(s, a)}, Once(s), a \notin Range(s)
  PROVE  /\ c \in Chains /\ Once(c) /\ a \in Range(c) /\ (c # <<a>> => Range(s) \subseteq Range(c))
         /\ \A i \in 1..Len(c) : c[i] = a \/ \E j \in 1..Len(s) : c[i] = s[j]
<1>1. s \in Seq(Appends) /\ DOMAIN s = 1..Len(s) /\ Len(s) \in Nat /\ \A j \in 1..Len(s) : s[j] # a
  BY DEF Chains, Range
<1>2. CASE c = <<a>>
  BY <1>2 DEF Chains, Once, Range
<1>3. CASE c = Append(s, a) /\ c # <<a>>
  <2>1. /\ c \in Seq(Appends) /\ Len(c) = Len(s) + 1 /\ DOMAIN c = 1..Len(c) /\ c[Len(c)] = a
        /\ \A i \in 1..Len(s) : c[i] = s[i]
    BY <1>1, <1>3
  <2>2. \A i \in 1..Len(c) : i = Len(c) \/ i \in 1..Len(s)
    BY <1>1, <2>1
  <2>3. Once(c)
    BY <1>1, <2>1, <2>2 DEF Once
  <2>4. Range(s) \subseteq Range(c) /\ a \in Range(c)
    <3>1. \A i \in 1..Len(s) : i \in DOMAIN c
      BY <1>1, <2>1
    <3>2. Len(c) \in DOMAIN c
      BY <1>1, <2>1
    <3> QED
      BY <1>1, <2>1, <3>1, <3>2 DEF Range
  <2> QED
    BY <2>1, <2>2, <2>3, <2>4 DEF Chains
<1> QED
  BY <1>2, <1>3

LEMMA WrittenIs ==
  ASSUME AppendTypes, NEW chunks \in Chains, NEW parts \in Nat, Written(chunks, parts)
  PROVE  /\ canon' \in CanonOf /\ canon'.chunks = chunks /\ canon'.gen = bucket.gens + 1
         /\ canon'.gen \in Nat /\ canon'.gen # 0
<1> DEFINE n == bucket.gens + 1
<1>1. n \in Nat /\ n # 0
  <2>1. bucket.gens \in Nat
    BY DEF AppendTypes, BucketOf
  <2> QED
    BY <2>1
<1> HIDE DEF n
<1>2. canon' = [gen |-> n, chunks |-> chunks, parts |-> parts]
  BY DEF Written, n
<1>3. canon' \in CanonOf /\ canon'.chunks = chunks /\ canon'.gen = n
  BY <1>1, <1>2 DEF CanonOf
<1> QED
  BY <1>1, <1>3 DEF n

(* A write of the canonical by a's call: what each conjunct needs. *)
LEMMA WriteKeeps ==
  ASSUME AppendInv, NEW a \in Appends, NEW rec \in AppendOf(bucket.size), appends' = [appends EXCEPT ![a] = rec],
         rec.got = "ok", rec.pc \in {"answer", "landed"}, rec.snap = appends[a].snap,
         NEW chunks \in Chains, NEW parts \in Nat, Written(chunks, parts),
         bucket' \in BucketOf, bucket'.size = bucket.size, bucket'.gens = bucket.gens + 1, bucket.erased \subseteq bucket'.erased,
         Once(chunks), \A i \in 1..Len(chunks) : chunks[i] = a \/ Wrote(chunks[i]),
         Range(canon.chunks) \cup {a} \subseteq Range(chunks) \cup bucket'.erased
  PROVE  AppendInv'
<1>1. AppendTypes /\ WriteHeld /\ PlaceHeld /\ HeadHeld
  BY DEF AppendInv
<1>2. /\ appends' \in [Appends -> AppendOf(bucket'.size)] /\ appends'[a] = rec
      /\ \A b \in Appends : b # a => appends'[b] = appends[b]
  BY <1>1, CopyIs
<1>3. /\ canon' \in CanonOf /\ canon'.chunks = chunks /\ canon'.gen = bucket.gens + 1 /\ canon'.gen # 0
      /\ bucket.gens \in Nat
  BY <1>1, WrittenIs DEF AppendTypes, BucketOf
<1>4. AppendTypes'
  BY <1>2, <1>3 DEF AppendTypes
<1>5. \A b \in Appends : appends'[b].got = "ok" <=> (b = a \/ Wrote(b))
  BY <1>2 DEF Wrote
<1>6. WriteHeld'
  <2>1. \A b \in Appends : appends'[b].snap = appends[b].snap
    BY <1>2
  <2>2. ASSUME NEW c \in Chains, NEW i \in 1..Len(c) PROVE c[i] \in Appends
    BY DEF Chains
  <2>3. \A i \in 1..Len(chunks) : appends'[chunks[i]].got = "ok"
    BY <1>5, <2>2
  <2>4. ASSUME NEW b \in Appends
        PROVE  Once(appends'[b].snap) /\ \A i \in 1..Len(appends'[b].snap) : appends'[appends'[b].snap[i]].got = "ok"
    <3>1. appends[b].snap \in Chains /\ Sound(appends[b].snap)
      BY <1>1, FieldsOf DEF WriteHeld
    <3> QED
      BY <1>5, <2>1, <2>2, <3>1 DEF Sound
  <2>5. \A b \in Appends : /\ appends'[b].got = "ok" => appends'[b].pc \notin {"head", "write"}
                           /\ appends'[b].pc \in {"meta", "snap", "compact", "landed"} => appends'[b].got = "ok"
    BY <1>1, <1>2, <1>5 DEF WriteHeld
  <2> QED
    BY <1>3, <2>3, <2>4, <2>5 DEF WriteHeld, Sound, Wrote, Once
<1>7. PlaceHeld'
  <2>1. \A b \in Appends : appends'[b].got = "ok" => b \in Range(chunks) \cup bucket'.erased
    BY <1>1, <1>5 DEF PlaceHeld
  <2>2. \A b \in Appends : appends'[b].pc \in {"snap", "compact"} =>
          appends'[b].head.gen # 0 /\ appends'[b].head.gen <= bucket.gens /\ appends'[b].head.gen \in Nat
    BY <1>1, <1>2, FieldsOf DEF PlaceHeld
  <2>3. \A b \in Appends : appends'[b].pc \in {"snap", "compact"} =>
          appends'[b].head.gen # 0 /\ appends'[b].head.gen <= bucket.gens + 1 /\ appends'[b].head.gen # bucket.gens + 1
    BY <1>3, <2>2
  <2>4. bucket.gens + 1 <= bucket.gens + 1
    BY <1>3
  <2>5. \E b \in Appends : appends'[b].got = "ok"
    BY <1>5
  <2> QED
    BY <1>3, <2>1, <2>3, <2>4, <2>5 DEF PlaceHeld, Wrote
<1>8. HeadHeld'
  <2>1. Coincides => Coincides'
    BY DEF Coincides
  <2>2. ASSUME NEW b \in Appends, appends'[b].pc \in {"write", "answer"}, appends'[b].got # "ok"
        PROVE  \E h \in Chains : Once(h) /\ b \notin Range(h) /\ appends'[b].head.bytes = SumOf(bucket.size, h)
    BY <1>1, <1>2, <1>5, <2>2 DEF HeadHeld
  <2>3. ASSUME NEW b \in Appends, appends'[b].pc = "accepted", BinarySums PROVE Coincides'
    BY <1>1, <1>2, <2>1, <2>3 DEF HeadHeld
  <2> QED
    BY <2>2, <2>3 DEF HeadHeld, Wrote
<1> QED
  BY <1>4, <1>6, <1>7, <1>8 DEF AppendInv

LEMMA GensAre ==
  ASSUME AppendTypes, NEW erased \in SUBSET Appends
  PROVE  LET new == [bucket EXCEPT !.gens = @ + 1, !.erased = erased]
         IN  new \in BucketOf /\ new.size = bucket.size /\ new.gens = bucket.gens + 1 /\ new.erased = erased
<1> DEFINE n == bucket.gens + 1
           new == [bucket EXCEPT !.gens = n, !.erased = erased]
<1>1. bucket \in BucketOf
  BY DEF AppendTypes
<1>2. n \in Nat
  <2>1. bucket.gens \in Nat
    BY <1>1 DEF BucketOf
  <2> QED
    BY <2>1
<1> HIDE DEF n
<1>3. new \in BucketOf /\ new.size = bucket.size /\ new.gens = n /\ new.erased = erased
  BY <1>1, <1>2 DEF BucketOf
<1> QED
  BY <1>3 DEF n

LEMMA ServeWriteKeeps ==
  ASSUME AppendInv, NEW a \in Appends, ServeWrite(a)
  PROVE  AppendInv'
<1>1. /\ AppendTypes /\ WriteHeld /\ PlaceHeld /\ HeadHeld /\ appends[a].pc = "write" /\ ~Wrote(a)
      /\ appends[a] \in AppendOf(bucket.size) /\ appends \in [Appends -> AppendOf(bucket.size)]
      /\ canon.chunks \in Chains /\ Sound(canon.chunks)
  BY FieldsOf DEF AppendInv, ServeWrite, WriteHeld, AppendTypes
<1>2. Once(canon.chunks) /\ a \notin Range(canon.chunks) /\ \A j \in 1..Len(canon.chunks) : Wrote(canon.chunks[j])
  <2>1. DOMAIN canon.chunks = 1..Len(canon.chunks)
    BY <1>1 DEF Chains
  <2> QED
    BY <1>1, <2>1 DEF Sound, Range
<1>3. CASE Match(a)
  <2> DEFINE rec == [appends[a] EXCEPT !.pc = "answer", !.got = "ok"]
             chunks == IF Promotes(a) THEN <<a>> ELSE Append(canon.chunks, a)
             parts == IF Promotes(a) THEN 1 ELSE canon.parts + 1
             erased == IF a \in bucket.replaces THEN bucket.erased \cup Range(canon.chunks) ELSE bucket.erased
  <2>1. Written(chunks, parts) /\ bucket' = [bucket EXCEPT !.gens = @ + 1, !.erased = erased]
    BY <1>3 DEF ServeWrite
  <2>2. appends' = [appends EXCEPT ![a] = rec]
    <3>1. appends' = [appends EXCEPT ![a].pc = "answer", ![a].got = "ok"]
      BY <1>3 DEF ServeWrite
    <3>2. [[appends[a] EXCEPT !.pc = "answer"] EXCEPT !.got = "ok"] = rec
      BY <1>1 DEF AppendOf
    <3> QED
      BY <1>1, <3>1, <3>2
  <2>3. rec \in AppendOf(bucket.size) /\ rec.got = "ok" /\ rec.pc = "answer" /\ rec.snap = appends[a].snap
    BY <1>1 DEF AppendOf, AppendPlaces
  <2> HIDE DEF rec
  <2>4. parts \in Nat
    BY <1>1 DEF AppendTypes, CanonOf
  <2>5. chunks \in {<<a>>, Append(canon.chunks, a)}
    OBVIOUS
  <2>6. Promotes(a) => canon.chunks = <<>> \/ a \in bucket.replaces
    BY <1>1, <1>3 DEF Promotes, Match, PlaceHeld
  <2>7. ~Promotes(a) => chunks = Append(canon.chunks, a)
    OBVIOUS
  <2>8. Range(canon.chunks) \subseteq Appends /\ erased \in SUBSET Appends /\ bucket.erased \subseteq erased
    <3>1. \A j \in DOMAIN canon.chunks : canon.chunks[j] \in Appends
      BY <1>1 DEF Chains
    <3>2. bucket.erased \in SUBSET Appends
      BY <1>1 DEF AppendTypes, BucketOf
    <3> QED
      BY <3>1, <3>2 DEF Range
  <2>9. Range(canon.chunks) \subseteq Range(Append(canon.chunks, a))
    <3> DEFINE s == canon.chunks
               c == Append(s, a)
    <3>1. \A j \in DOMAIN s : j \in DOMAIN c /\ c[j] = s[j]
      BY <1>1 DEF Chains
    <3> HIDE DEF s, c
    <3>2. Range(s) \subseteq Range(c)
      BY <3>1 DEF Range
    <3> QED
      BY <3>2 DEF s, c
  <2>10. Range(canon.chunks) \subseteq Range(chunks) \cup erased
    <3>1. CASE a \in bucket.replaces
      BY <3>1
    <3>2. CASE a \notin bucket.replaces /\ Promotes(a)
      <4>1. Range(canon.chunks) = {}
        BY <2>6, <3>2 DEF Range
      <4> QED
        BY <4>1
    <3>3. CASE ~Promotes(a)
      BY <2>7, <2>9, <3>3
    <3> QED
      BY <3>1, <3>2, <3>3
  <2> HIDE DEF chunks, parts, erased
  <2>11. /\ chunks \in Chains /\ Once(chunks) /\ a \in Range(chunks)
         /\ \A i \in 1..Len(chunks) : chunks[i] = a \/ \E j \in 1..Len(canon.chunks) : chunks[i] = canon.chunks[j]
    BY <1>1, <1>2, <2>5, ChainIs
  <2>12. \A i \in 1..Len(chunks) : chunks[i] = a \/ Wrote(chunks[i])
    BY <1>2, <2>11
  <2>13. /\ bucket' \in BucketOf /\ bucket'.size = bucket.size /\ bucket'.gens = bucket.gens + 1 /\ bucket'.erased = erased
    BY <1>1, <2>1, <2>8, GensAre
  <2>14. Range(canon.chunks) \cup {a} \subseteq Range(chunks) \cup bucket'.erased /\ bucket.erased \subseteq bucket'.erased
    BY <2>8, <2>10, <2>11, <2>13
  <2>15. Written(chunks, parts)
    BY <2>1
  <2> QED
    BY <2>2, <2>3, <2>4, <2>11, <2>12, <2>13, <2>14, <2>15, WriteKeeps
<1>4. CASE ~Match(a)
  <2> DEFINE rec == [appends[a] EXCEPT !.pc = "answer", !.got = "412"]
  <2>1. canon' = canon /\ bucket' = bucket
    BY <1>4 DEF ServeWrite
  <2>2. appends' = [appends EXCEPT ![a] = rec]
    <3>1. appends' = [appends EXCEPT ![a].pc = "answer", ![a].got = "412"]
      BY <1>4 DEF ServeWrite
    <3>2. [[appends[a] EXCEPT !.pc = "answer"] EXCEPT !.got = "412"] = rec
      BY <1>1 DEF AppendOf
    <3> QED
      BY <1>1, <3>1, <3>2
  <2>3. /\ rec \in AppendOf(bucket.size) /\ rec.got = "412" /\ rec.pc = "answer" /\ rec.snap = appends[a].snap
        /\ rec.head = appends[a].head
    BY <1>1 DEF AppendOf, AppendPlaces
  <2> HIDE DEF rec
  <2>4. \E h \in Chains : Once(h) /\ a \notin Range(h) /\ rec.head.bytes = SumOf(bucket.size, h)
    BY <1>1, <2>3 DEF HeadHeld
  <2>5. SameBucket(bucket)
    BY <1>1, BucketKept
  <2> QED
    BY <1>1, <2>1, <2>2, <2>3, <2>4, <2>5, NoWriteKeeps DEF SameBucket
<1> QED
  BY <1>3, <1>4

LEMMA CompactKeeps ==
  ASSUME AppendInv, NEW a \in Appends, Compact(a)
  PROVE  AppendInv'
<1>1. /\ AppendTypes /\ WriteHeld /\ PlaceHeld /\ appends[a].pc = "compact" /\ Wrote(a)
      /\ appends[a] \in AppendOf(bucket.size) /\ canon.chunks \in Chains /\ Goto(a, "landed")
  BY FieldsOf DEF AppendInv, Compact, WriteHeld
<1>2. CASE CompactMatch(a)
  <2> DEFINE rec == [appends[a] EXCEPT !.pc = "landed"]
             chunks == canon.chunks
  <2>1. appends' = [appends EXCEPT ![a] = rec]
    BY <1>1 DEF Goto
  <2>2. rec \in AppendOf(bucket.size) /\ rec.got = "ok" /\ rec.pc = "landed" /\ rec.snap = appends[a].snap
    BY <1>1 DEF AppendOf, AppendPlaces, Wrote
  <2>3. appends[a].snap = chunks
    BY <1>1, <1>2 DEF CompactMatch, PlaceHeld
  <2>4. Written(chunks, 1) /\ bucket' = [bucket EXCEPT !.gens = @ + 1]
    BY <1>2, <2>3 DEF Compact
  <2>5. bucket' \in BucketOf /\ bucket'.size = bucket.size /\ bucket'.gens = bucket.gens + 1 /\ bucket'.erased = bucket.erased
    <3>1. bucket \in BucketOf /\ bucket.erased \in SUBSET Appends
      BY <1>1 DEF AppendTypes, BucketOf
    <3>2. bucket' = [bucket EXCEPT !.gens = @ + 1, !.erased = bucket.erased]
      BY <2>4, <3>1 DEF BucketOf
    <3> QED
      BY <1>1, <3>1, <3>2, GensAre
  <2>6. Once(chunks) /\ \A i \in 1..Len(chunks) : Wrote(chunks[i])
    BY <1>1 DEF WriteHeld, Sound
  <2>7. Range(canon.chunks) \cup {a} \subseteq Range(chunks) \cup bucket'.erased
    BY <1>1, <2>5 DEF PlaceHeld
  <2>8. chunks \in Chains /\ 1 \in Nat
    BY <1>1
  <2> HIDE DEF rec, chunks
  <2> QED
    BY <2>1, <2>2, <2>4, <2>5, <2>6, <2>7, <2>8, WriteKeeps
<1>3. CASE ~CompactMatch(a)
  <2>1. canon' = canon /\ bucket' = bucket
    BY <1>3 DEF Compact
  <2>2. SameBucket(bucket')
    BY <1>1, <2>1, BucketKept
  <2> QED
    BY <1>1, <2>1, <2>2, GotoKeeps DEF AppendPlaces
<1> QED
  BY <1>2, <1>3

LEMMA PurgeKeeps ==
  ASSUME AppendInv, Purge
  PROVE  AppendInv'
<1>1. AppendTypes /\ WriteHeld /\ PlaceHeld /\ HeadHeld /\ appends' = appends /\ canon' = [gen |-> 0, chunks |-> <<>>, parts |-> 0]
  BY DEF AppendInv, Purge, Absent
<1> DEFINE answers == bucket.lost + 1
           erased == bucket.erased \cup Range(canon.chunks) \cup bucket.staged
<1>2. bucket' = [bucket EXCEPT !.staged = {}, !.lost = answers, !.erased = erased]
  BY DEF Purge
<1>3. bucket \in BucketOf /\ bucket.staged \in SUBSET Appends /\ bucket.erased \in SUBSET Appends /\ bucket.gens \in Nat
  BY <1>1 DEF AppendTypes, BucketOf
<1>4. answers \in Nat
  <2>1. bucket.lost \in Nat
    BY <1>3 DEF BucketOf
  <2> QED
    BY <2>1
<1>5. erased \in SUBSET Appends
  <2>1. canon.chunks \in Chains
    BY <1>1 DEF AppendTypes, CanonOf
  <2>2. \A j \in DOMAIN canon.chunks : canon.chunks[j] \in Appends
    BY <2>1 DEF Chains
  <2> QED
    BY <1>3, <2>2 DEF Range
<1>6. \A a \in Appends : Wrote(a) => a \in erased
  BY <1>1 DEF PlaceHeld
<1> HIDE DEF answers, erased
<1>7. bucket' \in BucketOf /\ bucket'.size = bucket.size /\ bucket'.gens = bucket.gens /\ bucket'.erased = erased
  BY <1>2, <1>3, <1>4, <1>5 DEF BucketOf
<1>8. canon' \in CanonOf /\ canon'.gen = 0 /\ canon'.chunks = <<>>
  BY <1>1 DEF CanonOf, Chains
<1>9. AppendTypes'
  BY <1>1, <1>7, <1>8 DEF AppendTypes
<1>10. WriteHeld'
  BY <1>1, <1>8 DEF WriteHeld, Sound, Once, Wrote
<1>11. PlaceHeld'
  BY <1>1, <1>3, <1>6, <1>7, <1>8 DEF PlaceHeld, Wrote
<1>12. HeadHeld'
  BY <1>1, <1>7 DEF HeadHeld, Wrote, Coincides
<1> QED
  BY <1>9, <1>10, <1>11, <1>12 DEF AppendInv

LEMMA AppendsBegin == AppendInit(TRUE) => AppendInv
<1> SUFFICES ASSUME AppendInit(TRUE) PROVE AppendInv
  OBVIOUS
<1> DEFINE head == [gen |-> 0, bytes |-> 0]
           rec == [pc |-> "head", try |-> 1, head |-> head, got |-> "", snap |-> <<>>]
<1>1. canon = [gen |-> 0, chunks |-> <<>>, parts |-> 0] /\ appends = [a \in Appends |-> rec]
  BY DEF AppendInit, Absent
<1>2. PICK size \in {Ones, Powers}, replaces \in SUBSET Appends :
        bucket = [size |-> size, replaces |-> replaces, staged |-> Appends, erased |-> {}, gens |-> 0, lost |-> 0]
  BY DEF AppendInit
<1>3. bucket \in BucketOf /\ bucket.gens = 0 /\ bucket.size = size
  BY <1>2 DEF BucketOf
<1>4. head \in HeadsOf(size)
  BY DEF HeadsOf
<1> HIDE DEF head
<1>5. rec \in AppendOf(size) /\ rec.pc = "head" /\ rec.got = "" /\ rec.snap = <<>>
  BY <1>4 DEF AppendOf, AppendPlaces, Chains
<1> HIDE DEF rec
<1>6. canon \in CanonOf /\ canon.gen = 0 /\ canon.chunks = <<>>
  BY <1>1 DEF CanonOf, Chains
<1>7. AppendTypes
  BY <1>1, <1>3, <1>5, <1>6 DEF AppendTypes
<1>8. \A a \in Appends : appends[a].pc = "head" /\ ~Wrote(a) /\ appends[a].snap = <<>>
  BY <1>1, <1>5 DEF Wrote
<1>9. Sound(<<>>)
  BY DEF Sound, Once
<1>10. WriteHeld
  BY <1>6, <1>8, <1>9 DEF WriteHeld
<1>11. PlaceHeld /\ HeadHeld
  BY <1>3, <1>6, <1>8 DEF PlaceHeld, HeadHeld
<1> QED
  BY <1>7, <1>10, <1>11 DEF AppendInv

LEMMA AppendsGoOn == AppendInv /\ [AppendNext]_appendVars => AppendInv'
<1> SUFFICES ASSUME AppendInv, [AppendNext]_appendVars PROVE AppendInv'
  OBVIOUS
<1>1. CASE Purge
  BY <1>1, PurgeKeeps
<1>2. ASSUME NEW a \in Appends,
             \/ ReadHead(a) \/ ServeWrite(a) \/ WriteGone(a) \/ AnswerLost(a) \/ AppendLanded(a)
             \/ Interrogated(a) \/ ReadMeta(a) \/ CopyAside(a) \/ Compact(a) \/ ReadFails(a)
      PROVE  AppendInv'
  BY <1>2, ReadHeadKeeps, ServeWriteKeeps, FailsKeep, AppendLandedKeeps, InterrogatedKeeps, ReadMetaKeeps, CopyAsideKeeps,
     CompactKeeps
<1>3. CASE UNCHANGED appendVars
  <2>1. UNCHANGED <<canon, appends, bucket>>
    BY <1>3 DEF appendVars
  <2> QED
    BY <2>1 DEF AppendInv, AppendTypes, WriteHeld, PlaceHeld, HeadHeld, Sound, Wrote, Coincides
<1> QED
  BY <1>1, <1>2, <1>3 DEF AppendNext

(* An append that told its caller it landed is in the canonical, or an     *)
(* erasure took it.                                                        *)
LandedStays == \A a \in Appends : appends[a].pc = "landed" => a \in Range(canon.chunks) \cup bucket.erased

(***************************************************************************)
(* Whatever answers are lost, and whatever other commits, a replacing      *)
(* commit, a rewrite in place and the hard delete do between an append's   *)
(* read and its write, its chunk is folded in at most once, and once it    *)
(* was answered for it stays (appendChunkToCanonical, RetryNever).         *)
(***************************************************************************)
THEOREM AppendsLandOnce == AppendSpec => [](LandsOnce /\ LandedStays)
<1>1. AppendInv => LandsOnce /\ LandedStays
  BY DEF AppendInv, WriteHeld, PlaceHeld, Sound, Once, LandsOnce, LandedStays
<1> QED
  BY <1>1, AppendsBegin, AppendsGoOn, PTL DEF AppendSpec

(***************************************************************************)
(* And an append that takes a moved canonical for its own lost answer      *)
(* (landedAlready) errs only when two chunks have one size, provided that  *)
(* sums of different powers of two differ.                                 *)
(***************************************************************************)
THEOREM AppendSafeHolds == ASSUME BinarySums PROVE AppendSpec => []AppendSafe
<1>1. AppendInv => AppendSafe
  <2> SUFFICES ASSUME AppendInv PROVE LandsOnce /\ NoSilentLoss
    BY DEF AppendSafe
  <2>1. LandsOnce
    BY DEF AppendInv, WriteHeld, Sound, Once, LandsOnce
  <2>2. NoSilentLoss
    BY BinarySums DEF AppendInv, WriteHeld, PlaceHeld, HeadHeld, NoSilentLoss, Acked
  <2> QED
    BY <2>1, <2>2
<1> QED
  BY <1>1, AppendsBegin, AppendsGoOn, PTL DEF AppendSpec

-----------------------------------------------------------------------------
(***************************************************************************)
(* WindowsSound for every number of keys, attempts, flushes and refusals.  *)
(* WindowsInv says, of the windows of a key no two walks had in hand at    *)
(* once (WalkHeld): what a walk still has to take is open, only one walk   *)
(* has it, and a window that is open or being written has no record yet.   *)
(* For every key, the open window is its latest, and those to come have    *)
(* left no trace (GenHeld).  That the numbers add up needs what the fold   *)
(* over the windows' counts is, and it is defined by recursion on a set:   *)
(* the lemmas about it come first, by least counterexample.                *)
(***************************************************************************)

Counted(f) == FoldFunction(LAMBDA a, b : a + b, 0, f)

(* FoldFunction takes an element out of the set and adds what the rest     *)
(* sums to: the function it is the value of, on the subsets of the domain. *)
Pick(s) == CHOOSE x \in s : TRUE
FoldStep(F, f, s) == IF s = {} THEN 0 ELSE f[Pick(s)] + F[s \ {Pick(s)}]
FoldsOver(F, f, S) == F = [s \in SUBSET S |-> FoldStep(F, f, s)]

(* The element a fold takes next. *)
LEMMA PickIs == ASSUME NEW s, s # {} PROVE Pick(s) \in s
BY DEF Pick

(* The recursion the fold is defined by has a solution. *)
LEMMA SumsExist ==
  ASSUME NEW f, NEW S, IsFiniteSet(S)
  PROVE  \E F : FoldsOver(F, f, S)
<1> DEFINE Small(n) == {s \in SUBSET S : Cardinality(s) <= n}
           Part(G, n) == G = [s \in Small(n) |-> FoldStep(G, f, s)]
<1>1. \A s \in SUBSET S : IsFiniteSet(s) /\ Cardinality(s) \in Nat
  BY FS_Subset, FS_CardinalityType
<1>2. \A s \in SUBSET S : s # {} =>
        /\ s \ {Pick(s)} \in SUBSET S
        /\ Cardinality(s \ {Pick(s)}) = Cardinality(s) - 1
        /\ Cardinality(s) > 0
  <2> SUFFICES ASSUME NEW s \in SUBSET S, s # {}
               PROVE  /\ s \ {Pick(s)} \in SUBSET S
                      /\ Cardinality(s \ {Pick(s)}) = Cardinality(s) - 1
                      /\ Cardinality(s) > 0
    OBVIOUS
  <2>1. Pick(s) \in s /\ IsFiniteSet(s) /\ Cardinality(s) \in Nat
    BY <1>1, PickIs
  <2>2. Cardinality(s \ {Pick(s)}) = Cardinality(s) - 1
    BY <2>1, FS_RemoveElement
  <2>3. Cardinality(s) # 0
    BY <2>1, FS_EmptySet
  <2> QED
    BY <2>1, <2>2, <2>3
<1>3. \E G : Part(G, 0)
  <2> DEFINE G == [s \in Small(0) |-> 0]
  <2>1. \A s \in Small(0) : s = {}
    <3>1. ASSUME NEW s \in SUBSET S, Cardinality(s) <= 0 PROVE s = {}
      <4>1. IsFiniteSet(s) /\ Cardinality(s) = 0
        BY <3>1, <1>1
      <4> QED
        BY <4>1, FS_EmptySet
    <3> QED
      BY <3>1
  <2>2. \A s \in Small(0) : FoldStep(G, f, s) = 0
    BY <2>1 DEF FoldStep
  <2>3. Part(G, 0)
    BY <2>2
  <2> QED
    BY <2>3
<1>4. ASSUME NEW n \in Nat, NEW G, Part(G, n) PROVE \E H : Part(H, n + 1)
  <2> DEFINE H == [s \in Small(n + 1) |-> FoldStep(G, f, s)]
  <2>1. \A s \in Small(n) : s \in Small(n + 1)
    BY <1>1
  <2>2. \A s \in Small(n) : H[s] = G[s]
    BY <2>1, <1>4
  <2>3. \A s \in Small(n + 1) : s # {} => s \ {Pick(s)} \in Small(n)
    BY <1>1, <1>2
  <2> HIDE DEF H
  <2>4. \A s \in Small(n + 1) : FoldStep(H, f, s) = FoldStep(G, f, s)
    BY <2>2, <2>3 DEF FoldStep
  <2>5. Part(H, n + 1)
    BY <2>4 DEF H
  <2> QED
    BY <2>5
<1> DEFINE Counter == {n \in Nat : ~ \E G : Part(G, n)}
<1> HIDE DEF Part
<1>5. Counter = {}
  <2> SUFFICES ASSUME Counter # {} PROVE FALSE
    OBVIOUS
  <2>1. IsWellFoundedOn(OpToRel(<, Nat), Nat)
    BY NatLessThanWellFounded
  <2>2. PICK n \in Counter : \A m \in Counter : ~(<<m, n>> \in OpToRel(<, Nat))
    BY <2>1, WFMin
  <2>3. n \in Nat /\ n # 0
    BY <2>2, <1>3
  <2>7. \A m \in Counter : ~(m < n)
    BY <2>2, <2>3 DEF OpToRel
  <2>4. n - 1 \in Nat /\ n - 1 \notin Counter
    BY <2>7, <2>3
  <2>5. PICK G : Part(G, n - 1)
    BY <2>4
  <2>6. \E H : Part(H, (n - 1) + 1)
    BY <2>4, <2>5, <1>4
  <2>8. (n - 1) + 1 = n
    BY <2>3
  <2>9. \E H : Part(H, n)
    BY <2>6, <2>8, Zenon
  <2> QED
    BY <2>2, <2>9
<1>6. Cardinality(S) \in Nat /\ Small(Cardinality(S)) = SUBSET S
  <2>1. \A s \in SUBSET S : Cardinality(s) <= Cardinality(S)
    BY FS_Subset
  <2> QED
    BY <2>1, <1>1
<1>7. PICK G : Part(G, Cardinality(S))
  BY <1>5, <1>6
<1> QED
  BY <1>6, <1>7 DEF Part, FoldsOver

(* So the fold is one. *)
LEMMA CountedIsSum ==
  ASSUME NEW f, IsFiniteSet(DOMAIN f)
  PROVE  \E F : FoldsOver(F, f, DOMAIN f) /\ Counted(f) = F[DOMAIN f]
<1> DEFINE F == CHOOSE iter : iter = [s \in SUBSET DOMAIN f |->
                  IF s = {} THEN 0 ELSE f[CHOOSE x \in s : TRUE] + iter[s \ {CHOOSE x \in s : TRUE}]]
<1>1. Counted(f) = F[DOMAIN f]
  BY Zenon DEF Counted, FoldFunction, FoldFunctionOnSet, MapThenFoldSet
<1>2. \E G : G = [s \in SUBSET DOMAIN f |->
                  IF s = {} THEN 0 ELSE f[CHOOSE x \in s : TRUE] + G[s \ {CHOOSE x \in s : TRUE}]]
  <2>1. \E G : FoldsOver(G, f, DOMAIN f)
    BY SumsExist
  <2> QED
    BY <2>1, Zenon DEF FoldsOver, FoldStep, Pick
<1>3. FoldsOver(F, f, DOMAIN f)
  BY <1>2, Zenon DEF FoldsOver, FoldStep, Pick
<1> HIDE DEF F
<1> QED
  BY <1>1, <1>3

(* One term of the sum grows by one. *)
LEMMA SumGrows ==
  ASSUME NEW S, IsFiniteSet(S), NEW f \in [S -> Nat], NEW x \in S,
         NEW g \in [S -> Nat], \A y \in S : g[y] = f[y] + (IF y = x THEN 1 ELSE 0),
         NEW F, FoldsOver(F, f, S), NEW G, FoldsOver(G, g, S)
  PROVE  F[S] \in Nat /\ G[S] = F[S] + 1
<1> DEFINE Good(s) == F[s] \in Nat /\ G[s] = F[s] + (IF x \in s THEN 1 ELSE 0)
           Counter == {n \in Nat : \E s \in SUBSET S : Cardinality(s) = n /\ ~Good(s)}
<1>1. \A s \in SUBSET S : IsFiniteSet(s) /\ Cardinality(s) \in Nat
  BY FS_Subset, FS_CardinalityType
<1>2. \A s \in SUBSET S : F[s] = FoldStep(F, f, s) /\ G[s] = FoldStep(G, g, s)
  BY DEF FoldsOver
<1>4. ASSUME NEW s \in SUBSET S, s # {} => Good(s \ {Pick(s)}) PROVE Good(s)
  <2>1. CASE s = {}
    <3>1. F[s] = 0 /\ G[s] = 0
      BY <2>1, <1>2 DEF FoldStep
    <3>2. x \notin s
      BY <2>1
    <3> QED
      BY <3>1, <3>2
  <2>2. CASE s # {}
    <3> DEFINE p == Pick(s)
               r == s \ {p}
    <3>1. p \in s /\ p \in S
      BY <2>2, PickIs
    <3>2. F[s] = f[p] + F[r] /\ G[s] = g[p] + G[r]
      BY <2>2, <1>2 DEF FoldStep
    <3>3. F[r] \in Nat /\ G[r] = F[r] + (IF x \in r THEN 1 ELSE 0)
      BY <2>2, <1>4
    <3>4. f[p] \in Nat /\ g[p] = f[p] + (IF p = x THEN 1 ELSE 0)
      BY <3>1
    <3>5. x \in s <=> p = x \/ x \in r
      BY <3>1
    <3>6. ~(p = x /\ x \in r)
      OBVIOUS
    <3> HIDE DEF p, r
    <3> QED
      BY <3>2, <3>3, <3>4, <3>5, <3>6
  <2> QED
    BY <2>1, <2>2
<1> HIDE DEF Good
<1>5. Counter = {}
  <2> SUFFICES ASSUME Counter # {} PROVE FALSE
    OBVIOUS
  <2>1. IsWellFoundedOn(OpToRel(<, Nat), Nat)
    BY NatLessThanWellFounded
  <2>2. PICK n \in Counter : \A m \in Counter : ~(<<m, n>> \in OpToRel(<, Nat))
    BY <2>1, WFMin
  <2>3. \A m \in Counter : ~(m < n)
    BY <2>2 DEF OpToRel
  <2>4. PICK s \in SUBSET S : Cardinality(s) = n /\ ~Good(s)
    BY <2>2
  <2>5. s # {} /\ ~Good(s \ {Pick(s)})
    BY <2>4, <1>4
  <2>6. s \ {Pick(s)} \in SUBSET S /\ Pick(s) \in s /\ IsFiniteSet(s)
    BY <2>5, <1>1, PickIs
  <2>7. Cardinality(s \ {Pick(s)}) \in Nat /\ Cardinality(s \ {Pick(s)}) = n - 1
    BY <2>6, <2>4, <1>1, FS_RemoveElement
  <2>8. n - 1 \in Counter /\ n - 1 < n
    <3>1. n \in Nat /\ n - 1 \in Nat
      BY <2>2, <2>7
    <3> QED
      BY <3>1, <2>5, <2>6, <2>7
  <2> QED
    BY <2>3, <2>8
<1>6. Good(S)
  <2>1. S \in SUBSET S /\ Cardinality(S) \in Nat
    BY <1>1
  <2> QED
    BY <2>1, <1>5
<1> QED
  BY <1>6 DEF Good

(* The same of the fold. *)
LEMMA CountedGrows ==
  ASSUME NEW S, IsFiniteSet(S), NEW f \in [S -> Nat], NEW x \in S,
         NEW g \in [S -> Nat], \A y \in S : g[y] = f[y] + (IF y = x THEN 1 ELSE 0)
  PROVE  Counted(g) = Counted(f) + 1
<1>1. DOMAIN f = S /\ DOMAIN g = S
  OBVIOUS
<1>2. PICK F : FoldsOver(F, f, S) /\ Counted(f) = F[S]
  BY <1>1, CountedIsSum
<1>3. PICK G : FoldsOver(G, g, S) /\ Counted(g) = G[S]
  BY <1>1, CountedIsSum
<1>4. FoldsOver(F, f, S) /\ FoldsOver(G, g, S)
  BY <1>2, <1>3
<1>5. F[S] \in Nat /\ G[S] = F[S] + 1
  BY <1>4, SumGrows
<1> QED
  BY <1>2, <1>3, <1>5, Zenon

(* Nothing adds up to nothing. *)
LEMMA CountedOfZeros ==
  ASSUME NEW S, IsFiniteSet(S)
  PROVE  Counted([y \in S |-> 0]) = 0
<1> DEFINE f == [y \in S |-> 0]
<1>1. PICK F : FoldsOver(F, f, S) /\ Counted(f) = F[S]
  <2>1. DOMAIN f = S
    OBVIOUS
  <2> QED
    BY <2>1, CountedIsSum
<1>2. \A y \in S : f[y] = 0
  OBVIOUS
<1> HIDE DEF f
<1> DEFINE Counter == {n \in Nat : \E s \in SUBSET S : Cardinality(s) = n /\ F[s] # 0}
<1>3. \A s \in SUBSET S : F[s] = FoldStep(F, f, s) /\ IsFiniteSet(s) /\ Cardinality(s) \in Nat
  BY <1>1, FS_Subset, FS_CardinalityType DEF FoldsOver
<1>4. Counter = {}
  <2> SUFFICES ASSUME Counter # {} PROVE FALSE
    OBVIOUS
  <2>1. IsWellFoundedOn(OpToRel(<, Nat), Nat)
    BY NatLessThanWellFounded
  <2>2. PICK n \in Counter : \A m \in Counter : ~(<<m, n>> \in OpToRel(<, Nat))
    BY <2>1, WFMin
  <2>3. \A m \in Counter : ~(m < n)
    BY <2>2 DEF OpToRel
  <2>4. PICK s \in SUBSET S : Cardinality(s) = n /\ F[s] # 0
    BY <2>2
  <2>5. s # {} /\ F[s] = f[Pick(s)] + F[s \ {Pick(s)}]
    BY <2>4, <1>3 DEF FoldStep
  <2>6. s \ {Pick(s)} \in SUBSET S /\ Pick(s) \in s /\ IsFiniteSet(s)
    BY <2>5, <1>3, PickIs
  <2>7. F[s \ {Pick(s)}] # 0
    BY <2>4, <2>5, <2>6, <1>2
  <2>8. Cardinality(s \ {Pick(s)}) \in Nat /\ Cardinality(s \ {Pick(s)}) = n - 1
    BY <2>6, <2>4, <1>3, FS_RemoveElement
  <2>9. n - 1 \in Counter /\ n - 1 < n
    <3>1. n \in Nat /\ n - 1 \in Nat
      BY <2>2, <2>8
    <3> QED
      BY <3>1, <2>7, <2>6, <2>8
  <2> QED
    BY <2>3, <2>9
<1>5. F[S] = 0
  <2>1. S \in SUBSET S /\ Cardinality(S) \in Nat
    BY <1>3
  <2> QED
    BY <2>1, <1>4
<1> QED
  BY <1>1, <1>5, Zenon DEF f

-----------------------------------------------------------------------------
(* A flush: where it is, what is left of its snapshot, what it awaits. *)
Walk == [pc : {"idle", "raise"}, todo : SUBSET Windows, cur : {<< >>} \cup Windows, late : BOOLEAN]

WindowTypes ==
  /\ open \in SUBSET Windows /\ attempts \in [Windows -> Nat] /\ gen \in [Keys -> Nat]
  /\ over \in [n : Nat, due : BOOLEAN] /\ flush \in [Flushers -> Walk]
  /\ copies \in [Windows -> Nat] /\ overs \in Nat /\ noted \in Nat

(* A key's open window is its latest, and a later one has left no trace yet. *)
Untouched(w) ==
  attempts[w] = 0 /\ copies[w] = 0 /\ w \notin open /\ ~Pending(w) /\ \A f \in Flushers : w \notin flush[f].todo

GenHeld ==
  /\ \A k \in Keys : gen[k] <= noted
  /\ \A w \in open : w[2] = gen[w[1]]
  /\ \A w \in Windows : w[2] > gen[w[1]] => Untouched(w)

(* What a walk still has to take is open and nobody else has it, and what is  *)
(* open or being written was not written yet, unless two walks shared its key. *)
WalkHeld ==
  /\ \A f \in Flushers : flush[f].pc = "idle" => flush[f].cur = << >> /\ flush[f].todo = {}
  /\ \A f \in Flushers : flush[f].pc = "raise" => flush[f].cur \in Windows
  /\ \A w \in Windows : w[1] \notin shared =>
       /\ w \in open => copies[w] = 0 /\ ~Pending(w)
       /\ Pending(w) => copies[w] = 0
       /\ \A f \in Flushers : w \in flush[f].todo => w \in open
       /\ \A f, g \in Flushers : flush[f].cur = w /\ flush[g].cur = w => f = g
       /\ \A f, g \in Flushers : w \in flush[f].todo /\ w \in flush[g].todo => f = g

(* AttemptsCounted, with the sum a number. *)
AttemptsSum == Counted(attempts) \in Nat /\ noted = over.n + overs + Counted(attempts)
WindowsInv == WindowTypes /\ GenHeld /\ WalkHeld /\ RecordedOnce /\ NoAttemptLost /\ AttemptsSum

(* There are as many windows as keys and generations of them. *)
LEMMA WindowsAreFinite == IsFiniteSet(Windows)
<1>1. IsFiniteSet(1..MaxAttempts)
  BY WindowLimitsAssumption, FS_Interval
<1> QED
  BY <1>1, KeysAssumption, FS_Product DEF Windows, Gens

-----------------------------------------------------------------------------
(* What a flush does from one await to the next. *)
WalkStep(f, todo) ==
  /\ open' \in SUBSET Windows /\ over' \in [n : Nat, due : BOOLEAN]
  /\ flush' \in [Flushers -> Walk] /\ overs' \in Nat
  /\ over'.n + overs' = over.n + overs
  /\ \A g \in Flushers \ {f} :
       flush'[g].pc = flush[g].pc /\ flush'[g].cur = flush[g].cur /\ flush'[g].todo = flush[g].todo
  /\ \/ /\ flush'[f].pc = "idle" /\ flush'[f].cur = << >> /\ flush'[f].todo = {}
        /\ open' = open /\ todo = {}
     \/ \E w \in todo :
          /\ flush'[f].pc = "raise" /\ flush'[f].cur = w /\ flush'[f].todo = todo \ {w}
          /\ open' = {v \in open : v[1] # w[1]}

(* A walk takes its next window, or ends: the common part of a flush's     *)
(* beginning and of its every answer.                                      *)
LEMMA WalkGoesOn ==
  ASSUME WindowTypes, NEW f \in Flushers, NEW todo \in SUBSET Windows, NEW late \in BOOLEAN,
         Proceed(f, todo, late)
  PROVE  WalkStep(f, todo)
<1>1. CASE \E w \in todo : open' = Without(w[1])
         /\ flush' = [flush EXCEPT ![f] = [pc |-> "raise", cur |-> w, todo |-> todo \ {w}, late |-> late]]
         /\ UNCHANGED <<over, overs>>
  <2>1. PICK w \in todo : /\ open' = Without(w[1]) /\ UNCHANGED <<over, overs>>
                          /\ flush' = [flush EXCEPT ![f] = [pc |-> "raise", cur |-> w, todo |-> todo \ {w}, late |-> late]]
    BY <1>1
  <2>2. [pc |-> "raise", cur |-> w, todo |-> todo \ {w}, late |-> late] \in Walk
    BY DEF Walk
  <2>3. flush' \in [Flushers -> Walk]
    BY <2>1, <2>2 DEF WindowTypes
  <2>4. flush'[f] = [pc |-> "raise", cur |-> w, todo |-> todo \ {w}, late |-> late]
    BY <2>1 DEF WindowTypes
  <2>5. \A g \in Flushers \ {f} : flush'[g] = flush[g]
    BY <2>1 DEF WindowTypes
  <2>6. open' = {v \in open : v[1] # w[1]}
    BY <2>1 DEF Without
  <2>7. open' \in SUBSET Windows /\ over' \in [n : Nat, due : BOOLEAN] /\ overs' \in Nat
        /\ over'.n + overs' = over.n + overs
    BY <2>1, <2>6 DEF WindowTypes
  <2> QED
    BY <2>3, <2>4, <2>5, <2>6, <2>7 DEF WalkStep
<1>2. CASE /\ todo = {} /\ open' = open /\ over.n > 0 /\ late
           /\ over' = ClearedOverflow /\ overs' = overs + over.n
           /\ flush' = [g \in Flushers |-> IF g = f THEN NotFlushing ELSE [flush[g] EXCEPT !.late = @ /\ Forced(g)]]
  <2>1. NotFlushing \in Walk
    BY DEF Walk, NotFlushing
  <2>2. ASSUME NEW g \in Flushers
        PROVE  LET h == [flush[g] EXCEPT !.late = @ /\ Forced(g)]
               IN  /\ h \in Walk /\ h.pc = flush[g].pc /\ h.cur = flush[g].cur /\ h.todo = flush[g].todo
    <3>1. flush[g] \in Walk
      BY DEF WindowTypes
    <3>2. (flush[g].late /\ Forced(g)) \in BOOLEAN
      OBVIOUS
    <3> QED
      BY <3>1, <3>2 DEF Walk
  <2>3. flush' \in [Flushers -> Walk]
    BY <1>2, <2>1, <2>2
  <2>4. over' = [n |-> 0, due |-> FALSE]
    BY <1>2 DEF ClearedOverflow
  <2>5. over.n \in Nat /\ overs \in Nat /\ open \in SUBSET Windows
    BY DEF WindowTypes
  <2>6. over' \in [n : Nat, due : BOOLEAN] /\ overs' \in Nat /\ over'.n + overs' = over.n + overs
    BY <1>2, <2>4, <2>5
  <2>7. flush'[f] = NotFlushing
    BY <1>2
  <2>8. \A g \in Flushers \ {f} :
          flush'[g].pc = flush[g].pc /\ flush'[g].cur = flush[g].cur /\ flush'[g].todo = flush[g].todo
    BY <1>2, <2>2
  <2> QED
    BY <1>2, <2>3, <2>5, <2>6, <2>7, <2>8 DEF NotFlushing, WalkStep
<1>3. CASE todo = {} /\ open' = open /\ flush' = [flush EXCEPT ![f] = NotFlushing] /\ UNCHANGED <<over, overs>>
  <2>1. NotFlushing \in Walk
    BY DEF Walk, NotFlushing
  <2>2. flush' \in [Flushers -> Walk] /\ flush'[f] = NotFlushing /\ \A g \in Flushers \ {f} : flush'[g] = flush[g]
    BY <1>3, <2>1 DEF WindowTypes
  <2> QED
    BY <1>3, <2>2 DEF NotFlushing, WindowTypes, WalkStep
<1> QED
  BY <1>1, <1>2, <1>3 DEF Proceed

(* It keeps the invariant, whatever became of the record it awaited. *)
LEMMA WalkKeeps ==
  ASSUME WindowsInv, NEW f \in Flushers, NEW todo \in SUBSET Windows, NEW late \in BOOLEAN,
         Proceed(f, todo, late), UNCHANGED <<attempts, gen, noted>>,
         shared \subseteq shared', lost \subseteq lost',
         \A w \in todo : w[2] <= gen[w[1]] /\ (w \in open \/ w[1] \in shared),
         \A w \in todo : \A g \in Flushers \ {f} : w \notin flush[g].todo \/ w[1] \in shared',
         copies' \in [Windows -> Nat],
         \A w \in Windows : IF w = flush[f].cur THEN copies'[w] \in {copies[w], copies[w] + 1}
                                              ELSE copies'[w] = copies[w],
         flush[f].cur \in Windows => copies'[flush[f].cur] > 0 \/ flush[f].cur \in lost'
  PROVE  WindowsInv'
<1>0. WindowTypes
  BY DEF WindowsInv
<1>1. /\ open' \in SUBSET Windows /\ over' \in [n : Nat, due : BOOLEAN]
      /\ flush' \in [Flushers -> Walk] /\ overs' \in Nat
      /\ over'.n + overs' = over.n + overs
      /\ \A g \in Flushers \ {f} :
           flush'[g].pc = flush[g].pc /\ flush'[g].cur = flush[g].cur /\ flush'[g].todo = flush[g].todo
      /\ \/ /\ flush'[f].pc = "idle" /\ flush'[f].cur = << >> /\ flush'[f].todo = {}
            /\ open' = open /\ todo = {}
         \/ \E w \in todo :
              /\ flush'[f].pc = "raise" /\ flush'[f].cur = w /\ flush'[f].todo = todo \ {w}
              /\ open' = {v \in open : v[1] # w[1]}
  <2>1. WalkStep(f, todo)
    BY <1>0, WalkGoesOn
  <2> QED
    BY <2>1 DEF WalkStep
<1>2. WindowTypes'
  BY <1>1 DEF WindowsInv, WindowTypes
<1>3. /\ flush'[f].cur \in todo \/ flush'[f].cur = << >>
      /\ flush'[f].todo \subseteq todo /\ flush'[f].cur \notin flush'[f].todo
      /\ \A v \in open : v \in open' \/ (flush'[f].cur \in todo /\ v[1] = flush'[f].cur[1])
      /\ \A v \in open' : v \in open /\ (flush'[f].cur = << >> \/ v[1] # flush'[f].cur[1])
      /\ flush'[f].pc = "idle" => flush'[f].cur = << >> /\ flush'[f].todo = {}
      /\ flush'[f].pc = "raise" => flush'[f].cur \in Windows
  BY <1>1
<1>4. \A w \in Windows : w # << >> /\ w[1] \in Keys /\ w[2] \in Gens /\ w = <<w[1], w[2]>>
  BY DEF Windows
<1>5. \A v, w \in open : v[1] = w[1] => v = w
  <2>1. \A w \in open : w \in Windows /\ w[2] = gen[w[1]]
    BY <1>0 DEF WindowsInv, WindowTypes, GenHeld
  <2>2. \A w \in open : w = <<w[1], gen[w[1]]>>
    BY <2>1, <1>4
  <2> QED
    BY <2>2
<1>. DEFINE c == flush[f].cur
           d == flush'[f].cur
<1>6. \A w \in Windows : /\ Pending(w)' => d = w \/ \E g \in Flushers \ {f} : flush[g].cur = w
                         /\ Pending(w) => c = w \/ \E g \in Flushers \ {f} : flush[g].cur = w
                         /\ Pending(w)' => d = w \/ Pending(w)
                         /\ Pending(w) => c = w \/ Pending(w)'
                         /\ d = w => Pending(w)'
  BY <1>1 DEF Pending
<1>7. \A w \in Windows : /\ w # c => copies'[w] = copies[w]
                         /\ copies[w] \in Nat /\ copies'[w] \in Nat
                         /\ w = c => copies'[w] = copies[w] \/ copies'[w] = copies[w] + 1
  BY DEF WindowsInv, WindowTypes
<1>8. c = << >> \/ c \in Windows
  BY <1>0 DEF WindowTypes, Walk
<1> HIDE DEF c, d
<1>9. GenHeld'
  <2>1. \A k \in Keys : gen'[k] <= noted'
    BY DEF WindowsInv, GenHeld
  <2>2. \A w \in open' : w[2] = gen'[w[1]]
    BY <1>3 DEF WindowsInv, GenHeld
  <2>3. ASSUME NEW w \in Windows, w[2] > gen[w[1]] PROVE Untouched(w)'
    <3>1. Untouched(w)
      BY <2>3 DEF WindowsInv, GenHeld
    <3>2. gen[w[1]] \in Nat /\ w[2] \in Nat
      BY <1>0, <1>4 DEF WindowTypes, Gens
    <3>3. w \notin todo
      BY <2>3, <3>2
    <3>4. d # w /\ c # w
      BY <3>1, <3>3, <1>3, <1>4, <1>6 DEF d, c, Untouched, Pending
    <3>5. ~Pending(w)'
      BY <3>4, <3>1, <1>6 DEF Untouched
    <3>6. w \notin open' /\ copies'[w] = 0 /\ attempts'[w] = 0
      BY <3>1, <3>4, <1>3, <1>7 DEF Untouched
    <3>7. \A g \in Flushers : w \notin flush'[g].todo
      BY <3>1, <3>3, <1>1, <1>3 DEF Untouched
    <3> QED
      BY <3>5, <3>6, <3>7 DEF Untouched
  <2> QED
    BY <2>1, <2>2, <2>3 DEF GenHeld
<1>10. ASSUME NEW w \in Windows, w[1] \notin shared'
       PROVE  /\ w[1] \notin shared
              /\ w \in open => copies[w] = 0 /\ ~Pending(w)
              /\ Pending(w) => copies[w] = 0
              /\ \A g \in Flushers : w \in flush[g].todo => w \in open
              /\ \A g, h \in Flushers : flush[g].cur = w /\ flush[h].cur = w => g = h
              /\ \A g, h \in Flushers : w \in flush[g].todo /\ w \in flush[h].todo => g = h
              /\ w \in todo => w \in open /\ \A g \in Flushers \ {f} : w \notin flush[g].todo
  BY <1>10 DEF WindowsInv, WalkHeld
<1>11. WalkHeld'
  <2>1. \A g \in Flushers : flush'[g].pc = "idle" => flush'[g].cur = << >> /\ flush'[g].todo = {}
    BY <1>1, <1>3 DEF WindowsInv, WalkHeld
  <2>2. \A g \in Flushers : flush'[g].pc = "raise" => flush'[g].cur \in Windows
    BY <1>1, <1>3 DEF WindowsInv, WalkHeld
  <2>3. ASSUME NEW w \in Windows, w[1] \notin shared'
        PROVE  /\ w \in open' => copies'[w] = 0 /\ ~Pending(w)'
               /\ Pending(w)' => copies'[w] = 0
               /\ \A g \in Flushers : w \in flush'[g].todo => w \in open'
               /\ \A g, h \in Flushers : flush'[g].cur = w /\ flush'[h].cur = w => g = h
               /\ \A g, h \in Flushers : w \in flush'[g].todo /\ w \in flush'[h].todo => g = h
    <3>1. ASSUME w \in open PROVE c # w /\ copies'[w] = 0 /\ ~Pending(w)
      BY <3>1, <2>3, <1>10, <1>6, <1>7 DEF Pending, c
    <3>2. ASSUME w \in open' PROVE d # w /\ w \in open
      BY <3>2, <1>3, <1>4 DEF d
    <3>3. ASSUME d = w PROVE w \in todo /\ w \in open /\ \A g \in Flushers \ {f} : flush[g].cur # w
      <4>1. w \in todo /\ w \in open
        BY <3>3, <2>3, <1>3, <1>4, <1>10 DEF d
      <4> QED
        BY <4>1, <3>1 DEF Pending
    <3>4. w \in open' => copies'[w] = 0 /\ ~Pending(w)'
      BY <3>1, <3>2, <1>6
    <3>5. Pending(w)' => copies'[w] = 0
      <4>1. CASE d = w
        BY <4>1, <3>3, <3>1
      <4>2. ASSUME NEW g \in Flushers \ {f}, flush[g].cur = w PROVE copies'[w] = 0
        <5>1. copies[w] = 0
          BY <4>2, <2>3, <1>10 DEF Pending
        <5>2. c # w
          BY <4>2, <2>3, <1>10 DEF c
        <5> QED
          BY <5>1, <5>2, <1>7
      <4> QED
        BY <4>1, <4>2, <1>6
    <3>6. ASSUME NEW g \in Flushers, w \in flush'[g].todo PROVE w \in open'
      <4>1. w \in open
        BY <3>6, <2>3, <1>1, <1>3, <1>10
      <4>2. ASSUME w \notin open' PROVE FALSE
        <5>1. d \in todo /\ w[1] = d[1]
          BY <4>1, <4>2, <1>3 DEF d
        <5>2. d \in Windows /\ d[1] \notin shared'
          BY <5>1, <2>3
        <5>3. d \in open /\ \A h \in Flushers \ {f} : d \notin flush[h].todo
          BY <5>1, <5>2, <1>10
        <5>4. d = w
          BY <5>1, <5>3, <4>1, <1>5
        <5>5. g = f
          BY <5>3, <5>4, <3>6, <1>1
        <5> QED
          BY <5>4, <5>5, <3>6, <1>3 DEF d
      <4> QED
        BY <4>2
    <3>7. \A g, h \in Flushers : flush'[g].cur = w /\ flush'[h].cur = w => g = h
      <4>1. d = w => \A g \in Flushers \ {f} : flush'[g].cur # w
        BY <3>3, <1>1
      <4>2. \A g, h \in Flushers \ {f} : flush'[g].cur = w /\ flush'[h].cur = w => g = h
        BY <2>3, <1>1, <1>10
      <4> QED
        BY <4>1, <4>2 DEF d
    <3>8. \A g, h \in Flushers : w \in flush'[g].todo /\ w \in flush'[h].todo => g = h
      <4>1. w \in flush'[f].todo => \A g \in Flushers \ {f} : w \notin flush'[g].todo
        BY <2>3, <1>1, <1>3, <1>10
      <4>2. \A g, h \in Flushers \ {f} : w \in flush'[g].todo /\ w \in flush'[h].todo => g = h
        BY <2>3, <1>1, <1>10
      <4> QED
        BY <4>1, <4>2
    <3> QED
      BY <3>4, <3>5, <3>6, <3>7, <3>8
  <2> QED
    BY <2>1, <2>2, <2>3 DEF WalkHeld
<1>12. RecordedOnce'
  <2> SUFFICES ASSUME NEW w \in Windows, w[1] \notin shared' PROVE copies'[w] <= 1
    BY DEF RecordedOnce
  <2>1. copies[w] <= 1
    BY <1>10 DEF WindowsInv, RecordedOnce
  <2>2. c = w => copies[w] = 0
    BY <1>10 DEF c, Pending
  <2> QED
    BY <2>1, <2>2, <1>7
<1>13. NoAttemptLost'
  <2> SUFFICES ASSUME NEW w \in Windows, attempts[w] > 0, w[1] \notin shared'
               PROVE  w \in open' \/ Pending(w)' \/ copies'[w] > 0 \/ w \in lost'
    BY DEF NoAttemptLost
  <2>1. w \in open \/ Pending(w) \/ copies[w] > 0 \/ w \in lost
    BY <1>10 DEF WindowsInv, NoAttemptLost
  <2>2. ASSUME w \in open, w \notin open' PROVE Pending(w)'
    <3>1. d \in todo /\ w[1] = d[1]
      BY <2>2, <1>3 DEF d
    <3>2. d \in Windows /\ d[1] \notin shared'
      BY <3>1
    <3>3. d \in open
      BY <3>1, <3>2, <1>10
    <3>4. d = w
      BY <3>1, <3>3, <2>2, <1>5
    <3> QED
      BY <3>4, <1>6
  <2>3. ASSUME Pending(w) PROVE Pending(w)' \/ copies'[w] > 0 \/ w \in lost'
    <3>1. CASE c = w
      BY <3>1 DEF c
    <3> QED
      BY <3>1, <2>3, <1>6
  <2>4. copies[w] > 0 => copies'[w] > 0
    BY <1>7
  <2>5. w \in lost => w \in lost'
    OBVIOUS
  <2> QED
    BY <2>1, <2>2, <2>3, <2>4, <2>5
<1>14. AttemptsSum'
  BY <1>1 DEF WindowsInv, AttemptsSum, WindowTypes
<1> QED
  BY <1>2, <1>9, <1>11, <1>12, <1>13, <1>14 DEF WindowsInv

(* The record of what the walk holds was written, or the spool refused it. *)
LEMMA RaiseKeeps ==
  ASSUME WindowsInv, NEW f \in Flushers, RaiseWritten(f) \/ RaiseRefused(f)
  PROVE  WindowsInv'
<1> DEFINE c == flush[f].cur
<1>1. WindowTypes /\ flush[f].pc = "raise"
  BY DEF WindowsInv, RaiseWritten, RaiseRefused
<1>2. flush[f] \in Walk
  BY <1>1 DEF WindowTypes
<1>3. c \in Windows /\ flush[f].todo \in SUBSET Windows /\ flush[f].late \in BOOLEAN
  BY <1>1, <1>2 DEF WindowsInv, WalkHeld, Walk
<1>4. Proceed(f, flush[f].todo, flush[f].late) /\ UNCHANGED <<attempts, gen, noted, shared>> /\ lost \subseteq lost'
  BY DEF RaiseWritten, RaiseRefused
<1>5. ASSUME NEW w \in flush[f].todo
      PROVE  /\ w[2] <= gen[w[1]] /\ (w \in open \/ w[1] \in shared)
             /\ \A g \in Flushers \ {f} : w \notin flush[g].todo \/ w[1] \in shared'
  <2>1. w \in Windows
    BY <1>3
  <2>2. ~(w[2] > gen[w[1]])
    BY <2>1 DEF WindowsInv, GenHeld, Untouched
  <2>3. w[2] \in Nat /\ gen[w[1]] \in Nat
    BY <2>1, <1>1 DEF WindowTypes, Windows, Gens
  <2>4. w[1] \notin shared => w \in open /\ \A g \in Flushers \ {f} : w \notin flush[g].todo
    BY <2>1 DEF WindowsInv, WalkHeld
  <2> QED
    BY <2>2, <2>3, <2>4, <1>4
<1>6. /\ copies' \in [Windows -> Nat]
      /\ \A w \in Windows : IF w = c THEN copies'[w] \in {copies[w], copies[w] + 1} ELSE copies'[w] = copies[w]
      /\ copies'[c] > 0 \/ c \in lost'
  <2>1. CASE copies' = [copies EXCEPT ![c] = @ + 1]
    BY <2>1, <1>1, <1>3 DEF WindowTypes
  <2>2. CASE copies' = copies /\ lost' = lost \cup {c}
    BY <2>2, <1>1, <1>3 DEF WindowTypes
  <2> QED
    BY <2>1, <2>2 DEF RaiseWritten, RaiseRefused
<1> QED
  BY <1>3, <1>4, <1>5, <1>6, WalkKeeps

(* A flush begins over its snapshot of the map. *)
LEMMA BeginKeeps ==
  ASSUME WindowsInv, NEW f \in Flushers, BeginFlush(f)
  PROVE  WindowsInv'
<1> DEFINE todo == ToFlush(f)
           late == Forced(f) \/ over.due
<1>1. WindowTypes /\ flush[f].pc = "idle"
  BY DEF WindowsInv, BeginFlush, MayFlush
<1>2. flush[f].cur = << >> /\ todo \subseteq open /\ todo \in SUBSET Windows /\ late \in BOOLEAN
  BY <1>1 DEF WindowsInv, WalkHeld, ToFlush, Forced, WindowTypes
<1>3. Proceed(f, todo, late) /\ UNCHANGED <<attempts, gen, noted, copies, lost>> /\ shared \subseteq shared'
  BY DEF BeginFlush
<1>4. ASSUME NEW w \in todo
      PROVE  /\ w[2] <= gen[w[1]] /\ w \in open
             /\ \A g \in Flushers \ {f} : w \notin flush[g].todo \/ w[1] \in shared'
  <2>1. w \in open /\ w \in Windows
    BY <1>2
  <2>2. w[2] = gen[w[1]] /\ w[2] \in Nat
    BY <2>1 DEF WindowsInv, GenHeld, Windows, Gens
  <2>3. ASSUME NEW g \in Flushers, w \in flush[g].todo PROVE w[1] \in shared'
    BY <2>3 DEF BeginFlush, KeysOf
  <2> QED
    BY <2>1, <2>2, <2>3
<1>5. \A w \in Windows : w # << >>
  BY DEF Windows
<1>6. copies' \in [Windows -> Nat] /\ flush[f].cur \notin Windows
      /\ \A w \in Windows : IF w = flush[f].cur THEN copies'[w] \in {copies[w], copies[w] + 1}
                            ELSE copies'[w] = copies[w]
  BY <1>1, <1>2, <1>3, <1>5 DEF WindowTypes
<1> HIDE DEF todo, late
<1> QED
  BY <1>2, <1>3, <1>4, <1>6, WalkKeeps

(* A failed attempt is counted into its window, the overflow or a new window. *)
LEMMA NoteKeeps ==
  ASSUME WindowsInv, NEW k \in Keys, NoteFailure(k)
  PROVE  WindowsInv'
<1>1. WindowTypes /\ noted \in Nat /\ MaxAttempts \in Nat /\ noted < MaxAttempts /\ noted' = noted + 1
      /\ UNCHANGED <<flush, copies, overs, lost, shared>>
  BY WindowLimitsAssumption DEF WindowsInv, WindowTypes, NoteFailure
<1>2. IsFiniteSet(Windows) /\ attempts \in [Windows -> Nat]
  BY <1>1, WindowsAreFinite DEF WindowTypes
<1>3. \A w \in Windows : Pending(w)' <=> Pending(w)
  BY <1>1 DEF Pending
<1>4. CASE /\ IsOpen(k) /\ attempts' = [attempts EXCEPT ![WindowOf(k)] = @ + 1] /\ UNCHANGED <<open, gen, over>>
  <2> DEFINE v == WindowOf(k)
  <2>1. v \in open /\ v \in Windows
    BY <1>4, <1>1 DEF IsOpen, WindowOf, WindowTypes
  <2> HIDE DEF v
  <2>2. /\ attempts' \in [Windows -> Nat]
        /\ \A w \in Windows : attempts'[w] = attempts[w] + (IF w = v THEN 1 ELSE 0)
    BY <1>2, <1>4, <2>1 DEF v
  <2>3. Counted(attempts') = Counted(attempts) + 1
    BY <1>2, <2>1, <2>2, CountedGrows
  <2>4. AttemptsSum'
    BY <1>1, <1>4, <2>3 DEF WindowsInv, AttemptsSum, WindowTypes
  <2>5. GenHeld'
    <3>1. ASSUME NEW w \in Windows, w[2] > gen[w[1]] PROVE Untouched(w)'
      <4>1. Untouched(w) /\ w # v
        BY <2>1, <3>1 DEF WindowsInv, GenHeld, Untouched
      <4> QED
        BY <4>1, <2>2, <1>1, <1>3, <1>4 DEF Untouched, Pending
    <3>2. \A l \in Keys : gen'[l] <= noted'
      BY <1>1, <1>4 DEF WindowsInv, GenHeld, WindowTypes
    <3> QED
      BY <3>1, <3>2, <1>4 DEF WindowsInv, GenHeld
  <2>6. NoAttemptLost'
    <3> SUFFICES ASSUME NEW w \in Windows, attempts'[w] > 0, w[1] \notin shared'
                 PROVE  w \in open' \/ Pending(w)' \/ copies'[w] > 0 \/ w \in lost'
      BY DEF NoAttemptLost
    <3>1. CASE w = v
      BY <3>1, <2>1, <1>4
    <3>2. CASE w # v
      <4>1. attempts[w] > 0
        BY <3>2, <2>2, <1>2
      <4> QED
        BY <4>1, <1>1, <1>3, <1>4 DEF WindowsInv, NoAttemptLost
    <3> QED
      BY <3>1, <3>2
  <2>7. WalkHeld' /\ RecordedOnce' /\ WindowTypes'
    BY <1>1, <1>3, <1>4, <2>2 DEF WindowsInv, WalkHeld, RecordedOnce, WindowTypes
  <2> QED
    BY <2>4, <2>5, <2>6, <2>7 DEF WindowsInv
<1>5. CASE /\ ~IsOpen(k) /\ Full /\ over' = [over EXCEPT !.n = @ + 1] /\ UNCHANGED <<open, gen, attempts>>
  <2>1. over' \in [n : Nat, due : BOOLEAN] /\ over'.n = over.n + 1
    BY <1>1, <1>5 DEF WindowTypes
  <2>2. WindowTypes' /\ AttemptsSum'
    BY <1>1, <1>5, <2>1 DEF WindowsInv, WindowTypes, AttemptsSum
  <2>3. GenHeld' /\ WalkHeld' /\ RecordedOnce' /\ NoAttemptLost'
    BY <1>1, <1>5 DEF WindowsInv, WindowTypes, GenHeld, WalkHeld, RecordedOnce, NoAttemptLost, Pending, Untouched
  <2> QED
    BY <2>2, <2>3 DEF WindowsInv
<1>6. CASE /\ ~IsOpen(k) /\ ~Full /\ gen' = [gen EXCEPT ![k] = @ + 1] /\ open' = open \cup {<<k, gen[k] + 1>>}
           /\ attempts' = [attempts EXCEPT ![<<k, gen[k] + 1>>] = 1] /\ UNCHANGED over
  <2> DEFINE v == <<k, gen[k] + 1>>
  <2>1. v \in Windows /\ v[1] = k /\ v[2] = gen[k] + 1 /\ gen[k] \in Nat
    BY <1>1 DEF WindowsInv, WindowTypes, GenHeld, Windows, Gens
  <2> HIDE DEF v
  <2>2. Untouched(v)
    BY <2>1 DEF WindowsInv, GenHeld
  <2>3. gen' \in [Keys -> Nat] /\ gen'[k] = gen[k] + 1 /\ \A l \in Keys : l # k => gen'[l] = gen[l]
    BY <1>1, <1>6, <2>1 DEF WindowTypes
  <2>4. attempts' \in [Windows -> Nat] /\ \A w \in Windows : attempts'[w] = IF w = v THEN 1 ELSE attempts[w]
    BY <1>2, <1>6 DEF v
  <2>5. open' = open \cup {v} /\ over' = over
    BY <1>6 DEF v
  <2>6. \A w \in open : w[1] # k
    BY <1>6 DEF IsOpen
  <2>7. \A w \in Windows : w[1] \in Keys /\ w[2] \in Nat /\ w = <<w[1], w[2]>>
    BY DEF Windows, Gens
  <2>8. WindowTypes'
    BY <1>1, <2>1, <2>3, <2>4, <2>5 DEF WindowTypes
  <2>9. AttemptsSum'
    <3>1. \A w \in Windows : attempts'[w] = attempts[w] + (IF w = v THEN 1 ELSE 0)
      BY <2>2, <2>4, <1>2 DEF Untouched
    <3>2. Counted(attempts') = Counted(attempts) + 1
      BY <1>2, <2>1, <2>4, <3>1, CountedGrows
    <3> QED
      BY <1>1, <2>5, <3>2 DEF WindowsInv, AttemptsSum, WindowTypes
  <2>10. GenHeld'
    <3>1. \A l \in Keys : gen'[l] <= noted'
      BY <1>1, <2>1, <2>3 DEF WindowsInv, GenHeld, WindowTypes
    <3>2. \A w \in open' : w[2] = gen'[w[1]]
      BY <1>1, <2>1, <2>3, <2>5, <2>6, <2>7 DEF WindowsInv, GenHeld, WindowTypes
    <3>3. ASSUME NEW w \in Windows, w[2] > gen'[w[1]] PROVE Untouched(w)'
      <4>1. w[2] > gen[w[1]] /\ w # v
        BY <3>3, <1>1, <2>1, <2>3, <2>7 DEF WindowTypes
      <4>2. Untouched(w)
        BY <4>1 DEF WindowsInv, GenHeld
      <4> QED
        BY <4>1, <4>2, <1>1, <2>4, <2>5 DEF Untouched, Pending
    <3> QED
      BY <3>1, <3>2, <3>3 DEF GenHeld
  <2>11. WalkHeld'
    <3>1. ASSUME NEW w \in Windows, w \in open', w[1] \notin shared PROVE copies'[w] = 0 /\ ~Pending(w)'
      BY <3>1, <1>1, <1>3, <2>2, <2>5 DEF WindowsInv, WalkHeld, Untouched
    <3>2. open \subseteq open'
      BY <2>5
    <3> QED
      BY <3>1, <3>2, <1>1, <1>3 DEF WindowsInv, WalkHeld
  <2>12. RecordedOnce'
    BY <1>1 DEF WindowsInv, RecordedOnce
  <2>13. NoAttemptLost'
    <3> SUFFICES ASSUME NEW w \in Windows, attempts'[w] > 0, w[1] \notin shared'
                 PROVE  w \in open' \/ Pending(w)' \/ copies'[w] > 0 \/ w \in lost'
      BY DEF NoAttemptLost
    <3>1. CASE w = v
      BY <3>1, <2>5
    <3>2. CASE w # v
      <4>1. attempts[w] > 0
        BY <3>2, <2>4
      <4> QED
        BY <4>1, <1>1, <1>3, <2>5 DEF WindowsInv, NoAttemptLost
    <3> QED
      BY <3>1, <3>2
  <2> QED
    BY <2>8, <2>9, <2>10, <2>11, <2>12, <2>13 DEF WindowsInv
<1> QED
  BY <1>4, <1>5, <1>6 DEF NoteFailure

(* Nothing is noted, open or being written at first. *)
LEMMA WindowsStart == WindowsInit => WindowsInv
<1> SUFFICES ASSUME WindowsInit PROVE WindowsInv
  OBVIOUS
<1>1. WindowTypes
  BY DEF WindowsInit, WindowTypes, Walk, NotFlushing
<1>2. \A w \in Windows : w # << >> /\ ~Pending(w)
  BY DEF WindowsInit, NotFlushing, Pending, Windows
<1>3. GenHeld /\ WalkHeld /\ RecordedOnce /\ NoAttemptLost
  BY <1>2 DEF WindowsInit, NotFlushing, GenHeld, WalkHeld, RecordedOnce, NoAttemptLost, Untouched
<1>4. Counted([w \in Windows |-> 0]) = 0
  BY WindowsAreFinite, CountedOfZeros
<1>5. AttemptsSum
  BY <1>4 DEF WindowsInit, AttemptsSum
<1> QED
  BY <1>1, <1>3, <1>5 DEF WindowsInv

(* Every step of the windows keeps their invariant. *)
LEMMA WindowsGoOn == WindowsInv /\ [WindowsNext]_windowVars => WindowsInv'
<1> SUFFICES ASSUME WindowsInv, [WindowsNext]_windowVars PROVE WindowsInv'
  OBVIOUS
<1>1. CASE \E k \in Keys : NoteFailure(k)
  BY <1>1, NoteKeeps
<1>2. ASSUME UNCHANGED <<open, attempts, gen, flush, copies, overs, lost, shared, noted>>,
             over' \in [n : Nat, due : BOOLEAN], over'.n = over.n
      PROVE  WindowsInv'
  BY <1>2 DEF WindowsInv, WindowTypes, GenHeld, WalkHeld, RecordedOnce, NoAttemptLost, AttemptsSum, Pending, Untouched
<1>3. CASE WindowTimeUp
  <2>1. over' \in [n : Nat, due : BOOLEAN] /\ over'.n = over.n
    <3> DEFINE late == over.n > 0
    <3>1. over' = [over EXCEPT !.due = late]
      BY <1>3 DEF WindowTimeUp
    <3>2. over \in [n : Nat, due : BOOLEAN]
      BY DEF WindowsInv, WindowTypes
    <3>3. late = TRUE \/ late = FALSE
      BY <3>2
    <3> HIDE DEF late
    <3>4. over' = [over EXCEPT !.due = TRUE] \/ over' = [over EXCEPT !.due = FALSE]
      BY <3>1, <3>3
    <3> QED
      BY <3>2, <3>4
  <2> QED
    BY <2>1, <1>2, <1>3 DEF WindowTimeUp
<1>4. ASSUME NEW f \in Flushers, BeginFlush(f) \/ RaiseWritten(f) \/ RaiseRefused(f) PROVE WindowsInv'
  BY <1>4, BeginKeeps, RaiseKeeps
<1>5. CASE UNCHANGED windowVars
  BY <1>2, <1>5 DEF windowVars, WindowsInv, WindowTypes
<1> QED
  BY <1>1, <1>3, <1>4, <1>5 DEF WindowsNext

(***************************************************************************)
(* However the drain, the rotation and the shutdown overlap, no failure    *)
(* window is written twice and none is dropped unwritten, keys that two    *)
(* walks had in hand at once aside, and every attempt noted is in exactly  *)
(* one count (noteFailure, flushFailures).                                 *)
(***************************************************************************)
THEOREM WindowsSoundHolds == WindowsSpec => []WindowsSound
<1>1. WindowsInv => WindowsSound
  <2>1. AttemptsSum => AttemptsCounted
    BY Zenon DEF AttemptsSum, AttemptsCounted, Counted
  <2> QED
    BY <2>1 DEF WindowsInv, WindowsSound
<1> QED
  BY <1>1, WindowsStart, WindowsGoOn, PTL DEF WindowsSpec
=============================================================================
