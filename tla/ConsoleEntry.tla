---------------------------- MODULE ConsoleEntry ----------------------------
(***************************************************************************)
(* The workbench's one-click hand-off: the org signing key the hub pushes  *)
(* and this fortress pins (signing-key-store.ts), the grant the hub signs  *)
(* with it and the console verifies and consumes (ui/sso-grant.ts,         *)
(* runtime.ts exchangeGrant), and the entry record that stamps the         *)
(* workbench's identity on the sign-in that follows.                       *)
(*                                                                         *)
(* A key is the number of the hub's rotation it came with and stands for   *)
(* the notBefore of its root proof too.  Time is a count of intervals: a   *)
(* grant lives one, the skew allowance is one.  The daemon pins, the       *)
(* console process verifies: both interleave at their awaits.              *)
(***************************************************************************)
EXTENDS Naturals, FiniteSets

CONSTANTS Browsers, MaxGrants, MaxKeys, MaxClock, MaxPushes

ASSUME EntryLimitsAssumption ==
  IsFiniteSet(Browsers) /\ {MaxGrants, MaxKeys, MaxClock, MaxPushes} \subseteq Nat

Grants == 1..MaxGrants
Skew == 1          \* CONSOLE_GRANT_SKEW_SECONDS
EntryTtl == 2      \* ENTRY_TTL_MS

VARIABLES
  hub,     \* the clock, the hub's current key, the grants it minted; pushes and time left
  pin,     \* the pinned record: key (0: none) and floor; the highest floor ever pinned
  pushes,  \* the greetings being handled: what each read, and what it carries
  door,    \* the console: sso on, consumed grants, entries, the skew record; redeemed and opened are ghosts
  exch     \* each browser's exchange

entryVars == <<hub, pin, pushes, door, exch>>

Sockets == {"old", "new"}                 \* a reconnected host may still handle the old socket's greeting
NoPush == [pc |-> "idle", key |-> 0, proof |-> FALSE, read |-> [key |-> 0, floor |-> 0]]
NoExch == [pc |-> "idle", grant |-> 0, key |-> 0, at |-> 0, sso |-> FALSE]
Unminted == [minted |-> FALSE, exp |-> 0, key |-> 0]
ColdDoor == [sso |-> FALSE, skewed |-> FALSE, seen |-> {}, entries |-> {},
             redeemed |-> [g \in Grants |-> 0], opened |-> {}]

(* A behaviour spends its bounds on pushes or on time. *)
EntryInit(on) ==
  /\ \E left \in IF on THEN {<<1, MaxClock>>, <<MaxPushes, 0>>} ELSE {<<0, 0>>} : hub =
       [clock |-> 0, key |-> IF on THEN 1 ELSE 0, grants |-> [g \in Grants |-> Unminted],
        pushes |-> left[1], end |-> left[2]]
  /\ pin = [key |-> 0, floor |-> 0, best |-> 0, overlapped |-> FALSE]
  /\ pushes = [s \in Sockets |-> NoPush]
  /\ door = [ColdDoor EXCEPT !.sso = on]
  /\ exch = [b \in Browsers |-> NoExch]

-----------------------------------------------------------------------------
(* The world: time, the hub's rotations and its grants.                    *)
EntryTick ==
  /\ hub.key > 0 /\ hub.clock < hub.end
  /\ hub' = [hub EXCEPT !.clock = @ + 1]
  /\ UNCHANGED <<pin, pushes, door, exch>>

Rotate ==
  /\ hub.key \in 1..(MaxKeys - 1)
  /\ hub' = [hub EXCEPT !.key = @ + 1]
  /\ UNCHANGED <<pin, pushes, door, exch>>

Mint(g) ==
  /\ hub.key > 0 /\ ~hub.grants[g].minted
  /\ hub' = [hub EXCEPT !.grants[g] = [minted |-> TRUE, exp |-> hub.clock + 1, key |-> hub.key]]
  /\ UNCHANGED <<pin, pushes, door, exch>>

-----------------------------------------------------------------------------
(* A pushed key (persistSigningKeyPin): the current record is read, the    *)
(* proof is verified, and the decision is saved.  Any proof the root ever  *)
(* signed may be pushed, a replayed older one too, and a key without one.  *)
ReadPin(s) ==
  /\ pushes[s].pc = "idle" /\ hub.pushes > 0
  /\ \E key \in 1..hub.key, proof \in BOOLEAN :
       pushes' = [pushes EXCEPT ![s] = [pc |-> "deciding", key |-> key, proof |-> proof,
                                        read |-> [key |-> pin.key, floor |-> pin.floor]]]
  /\ hub' = [hub EXCEPT !.pushes = @ - 1]
  /\ pin' = [pin EXCEPT !.overlapped = @ \/ \E o \in Sockets : pushes[o].pc # "idle"]
  /\ UNCHANGED <<door, exch>>

(* isNewerNotBefore: strictly newer than the floor that was read.          *)
IsNewerAny(push) == push.proof
IsNewer(push) == push.proof /\ push.key > push.read.floor

(* resolveSigningKeyPin: first sight pins, the same key is a no-op, a      *)
(* change needs a valid proof and, to be no rollback, a newer one.         *)
Pins(push) ==
  \/ push.read.key = 0
  \/ push.key # push.read.key /\ IsNewer(push)

SavePin(s) ==
  LET push == pushes[s]
      floor == IF push.proof THEN push.key ELSE 0
  IN
  /\ push.pc = "deciding"
  /\ pin' = IF Pins(push)
            THEN [pin EXCEPT !.key = push.key, !.floor = floor,
                             !.best = IF floor > @ THEN floor ELSE @]
            ELSE pin
  /\ pushes' = [pushes EXCEPT ![s] = NoPush]
  /\ UNCHANGED <<hub, door, exch>>

-----------------------------------------------------------------------------
(* A hand-off.  exchangeGrant reads the config and the pinned key, and     *)
(* verifyConsoleGrant takes its `now`, before the signature is awaited.    *)
Present(b, g) ==
  /\ exch[b].pc = "idle" /\ hub.grants[g].minted
  /\ exch' = [exch EXCEPT ![b] = [pc |-> "verifying", grant |-> g, key |-> pin.key,
                                  at |-> hub.clock, sso |-> door.sso]]
  /\ UNCHANGED <<hub, pin, pushes, door>>

Expiry(g) == hub.grants[g].exp
Signed(e) == e.key # 0 /\ e.key = hub.grants[e.grant].key
InWindow(e) == e.at < Expiry(e.grant) + Skew

(* ConsumedGrants.sweep: a record is kept as long as its grant verifies.   *)
RememberedToExpiry(g) == Expiry(g) > hub.clock
Remembered(g) == Expiry(g) + Skew > hub.clock

(* consume: the sweep first, then the one use.                             *)
StillConsumed == {g \in door.seen : Remembered(g)}
Consumable(g) == g \notin StillConsumed

(* Refused before consumption: an unverifiable token says nothing; a late  *)
(* one is expired, or, far beyond any time to live, evidence of a wrong    *)
(* clock, which is recorded; the door may be off.                          *)
Judged(b) ==
  LET e == exch[b] IN
  /\ e.pc = "verifying"
  /\ ~Signed(e) \/ ~InWindow(e) \/ ~e.sso
  /\ door' = [door EXCEPT !.skewed = @ \/ (Signed(e) /\ e.at > Expiry(e.grant) + 1)]
  /\ exch' = [exch EXCEPT ![b] = NoExch]
  /\ UNCHANGED <<hub, pin, pushes>>

(* grant_used, or consumed; the redemptions of a grant still in its window *)
(* when it is consumed are counted.                                        *)
Consume(b) ==
  LET e == exch[b] IN
  /\ e.pc = "verifying" /\ Signed(e) /\ InWindow(e) /\ e.sso
  /\ IF Consumable(e.grant)
     THEN /\ door' = [door EXCEPT !.seen = StillConsumed \cup {e.grant}, !.opened = @ \cup {e.grant},
               !.redeemed[e.grant] = IF hub.clock < Expiry(e.grant) + Skew THEN @ + 1 ELSE @]
          /\ exch' = [exch EXCEPT ![b].pc = "clearing"]
     ELSE /\ door' = [door EXCEPT !.seen = StillConsumed]
          /\ exch' = [exch EXCEPT ![b] = NoExch]
  /\ UNCHANGED <<hub, pin, pushes>>

(* onClockOk: a hand-off that worked clears the skew record; then the      *)
(* entry record is created.                                                *)
LiveEntries == {entry \in door.entries : hub.clock - entry.at <= EntryTtl}
CreateEntry(b) ==
  /\ exch[b].pc = "clearing"
  /\ door' = [door EXCEPT !.skewed = FALSE,
       !.entries = LiveEntries \cup {[grant |-> exch[b].grant, at |-> hub.clock]}]
  /\ exch' = [exch EXCEPT ![b].pc = "signing", ![b].at = hub.clock]
  /\ UNCHANGED <<hub, pin, pushes>>

(* The sign-in that follows carries the entry's id: it is stamped from the *)
(* record while that lives, and is an unannotated sign-in afterwards.  The *)
(* record outlives the attempt.                                            *)
SignInStamped(b) ==
  /\ exch[b].pc = "signing"
  /\ door' = [door EXCEPT !.entries = LiveEntries]
  /\ exch' = [exch EXCEPT ![b].pc = IF \E entry \in LiveEntries :
                    entry.grant = exch[b].grant /\ entry.at = exch[b].at
                  THEN "stamped" ELSE "plain"]
  /\ UNCHANGED <<hub, pin, pushes>>

Leave(b) ==
  /\ exch[b].pc \in {"stamped", "plain"}
  /\ exch' = [exch EXCEPT ![b] = NoExch]
  /\ UNCHANGED <<hub, pin, pushes, door>>

SsoSwitched ==                                              \* `ui sso on`, `ui sso off`
  /\ hub.key > 0
  /\ door' = [door EXCEPT !.sso = ~@]
  /\ UNCHANGED <<hub, pin, pushes, exch>>

(* The console restarts: what it consumed and the entries were in memory,  *)
(* and so was every exchange.                                              *)
DoorRestarts ==
  /\ hub.key > 0 /\ door.seen # {}
  /\ door' = [ColdDoor EXCEPT !.sso = door.sso, !.skewed = door.skewed]
  /\ exch' = [b \in Browsers |-> NoExch]
  /\ UNCHANGED <<hub, pin, pushes>>

EntryNext ==
  \/ EntryTick \/ Rotate \/ SsoSwitched \/ DoorRestarts
  \/ \E g \in Grants : Mint(g)
  \/ \E s \in Sockets : ReadPin(s) \/ SavePin(s)
  \/ \E b \in Browsers :
       \/ \E g \in Grants : Present(b, g)
       \/ Judged(b) \/ Consume(b) \/ CreateEntry(b) \/ SignInStamped(b) \/ Leave(b)

EntrySpec == EntryInit(TRUE) /\ [][EntryNext]_entryVars

-----------------------------------------------------------------------------
(* A grant opens the door once in the life of a console process, however   *)
(* exchanges overlap and however the window, its skew allowance and the    *)
(* sweep of the consumed set fall; and no entry record or stamped sign-in  *)
(* exists whose grant this process did not spend, pruned as both may be.   *)
(* (One verification that straddles the very end of the window is counted  *)
(* apart: its `now` was taken before the record it meets is swept.)        *)
GrantSpentOnce ==
  /\ \A g \in Grants : door.redeemed[g] <= 1
  /\ \A entry \in door.entries : entry.grant \in door.opened
  /\ \A b \in Browsers : exch[b].pc = "stamped" => exch[b].grant \in door.opened

(* persistSigningKeyPin: no sequence of pushes, replayed older root proofs *)
(* among them, takes the pinned key back behind a key already pinned; the  *)
(* record is read before the proof is verified, so greetings handled one   *)
(* at a time.                                                              *)
PinForward == pin.overlapped \/ pin.floor >= pin.best

EntrySound == GrantSpentOnce /\ PinForward
=============================================================================
