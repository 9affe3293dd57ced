----------------------------- MODULE BrowserTab -----------------------------
(***************************************************************************)
(* One browser tab of the console (src/ui/src): the session it believes it *)
(* has (state.tsx), the requests it has out (api.ts), a polled panel whose *)
(* effect is torn down and begun again (hooks.ts, views/Ops.tsx), and the  *)
(* live event stream with its visibility, back-off and controller.         *)
(*                                                                         *)
(* Everything in a tab runs on one thread and interleaves at its awaits:   *)
(* a request is sent, the console answers it at some moment, and the       *)
(* answer is handled at another.  The console process (external here,      *)
(* ConsoleAccess models it) keeps its sessions in memory: a restart drops  *)
(* them all.                                                               *)
(***************************************************************************)
EXTENDS Naturals, FiniteSets

CONSTANTS MaxTokens, MaxAsks, MaxTroubles     \* bounds; a trouble is an outage, a lost answer, a cap or a hide

ASSUME TabLimitsAssumption == {MaxTokens, MaxAsks, MaxTroubles} \subseteq Nat

Polls  == {"poll1", "poll2"}                  \* bound: loads of the panel out at once, of one effect or of two
Slots  == Polls \cup {"auth", "leave", "submit"}
Tokens == 1..MaxTokens                        \* session tokens; 0 is "no token"
Links  == {1, 2}                              \* the stream's controllers: the current one, one left behind
None   == 0

VARIABLES
  web,     \* the console: up, the tokens it honours, tokens minted, command rows, troubles left
  tab,     \* the token in sessionStorage, the screen, hidden, a sign-in under way, controls left
  req,     \* each request: sent or answered, its token, the answer, the rows in it, not cancelled
  panel,   \* the Commands panel: mounted, rows shown, are they this effect's, stale, dialog, busy, acked
  feed     \* the stream's closure: running, controller, retry timer, what the banner says, the links

tabVars == <<web, tab, req, panel, feed>>

Quiet   == [pc |-> "none", token |-> None, answer |-> "", rows |-> 0, kept |-> TRUE]
Cold    == [on |-> FALSE, known |-> FALSE, rows |-> 0, fresh |-> FALSE, stale |-> FALSE, floor |-> 0,
            ask |-> FALSE, busy |-> FALSE, acked |-> 0]
Unfed   == [on |-> FALSE, ctl |-> None, timer |-> FALSE, says |-> "connecting",
            links |-> [l \in Links |-> [st |-> "off", token |-> None]]]
Sent(token) == [Quiet EXCEPT !.pc = "sent", !.token = token]

(* resume(): with no token the form is shown at once, otherwise who-am-I is asked first.  A behaviour
   spends its bound on commands or on troubles *)
TabInit(on) ==
  \E token \in IF on THEN {None, 1} ELSE {None},
     left \in IF on THEN {<<MaxAsks, 0>>, <<0, MaxTroubles>>} ELSE {<<0, 0>>} :
  \E live \in {{}, {token} \ {None}} :
    /\ web = [up |-> TRUE, live |-> live, minted |-> 1, rows |-> 0, troubles |-> left[2]]
    /\ tab = [token |-> token, hidden |-> FALSE, busy |-> FALSE, asks |-> left[1],
              screen |-> IF ~on THEN "closed" ELSE IF token = None THEN "anonymous" ELSE "unknown"]
    /\ req = [s \in Slots |-> IF on /\ s = "auth" /\ token # None THEN Sent(token) ELSE Quiet]
    /\ panel = Cold
    /\ feed = Unfed

\* ------------------------------------------------------------- the stream's closure
(* connect(): a fresh controller takes the place of the old one, and with no token nothing is asked *)
Connected(f, hidden, token) ==
  LET l == CHOOSE x \in Links : f.links[x].st = "off" IN
  IF ~f.on \/ hidden \/ \A x \in Links : f.links[x].st # "off" THEN f
  ELSE [f EXCEPT !.ctl = l,
                 !.links[l] = IF token = None THEN @ ELSE [st |-> "dialing", token |-> token]]

(* schedule(): not when stopped, not when hidden *)
ScheduledNever(f, hidden) == f                                             \* mutant: a refused stream is not retried
Scheduled(f, hidden) == [f EXCEPT !.timer = @ \/ (f.on /\ ~hidden)]

Cut(f, l) == [f EXCEPT !.links[l] = [st |-> "off", token |-> None]]
Abort(f)  == IF f.ctl = None THEN f ELSE Cut(f, f.ctl)

(* The cleanup of the effect: stopped, the timer cleared, the controller aborted *)
ClosedFeed(f) == [Abort(f) EXCEPT !.on = FALSE, !.ctl = None, !.timer = FALSE]
OpenedFeed(f, hidden, token) == Connected([f EXCEPT !.on = TRUE, !.says = "connecting"], hidden, token)

(* A connection ended or was refused: the banner says so and the next try is timed *)
Dropped(f, l, hidden) ==
  LET g == Cut(f, l) IN
  Scheduled(IF f.on THEN [g EXCEPT !.says = "reconnecting"] ELSE g, hidden)

\* ---------------------------------------------------------------- the session

(* Leaving the signed-in screen unmounts every panel and closes the stream *)
Cancelled(r) == [s \in Slots |-> IF s \in Polls THEN [r[s] EXCEPT !.kept = FALSE] ELSE r[s]]
Forget(r) ==
  /\ tab' = [tab EXCEPT !.token = None, !.screen = "anonymous"]
  /\ panel' = [Cold EXCEPT !.acked = panel.acked]
  /\ feed' = ClosedFeed(feed)
  /\ req' = Cancelled(r)

(* The effects of a signed-in render: the panel mounts (and loads), the stream opens *)
Admit(r) ==
  /\ tab' = [tab EXCEPT !.screen = "signed-in", !.busy = FALSE]
  /\ feed' = OpenedFeed(feed, tab.hidden, tab.token)
  /\ panel' = [Cold EXCEPT !.on = TRUE, !.acked = panel.acked, !.floor = panel.acked]
  /\ req' = Cancelled(r)

(* request(): a 401 forgets the tab's session, whichever token was refused.  onUnauthorized
   is forgetSession; refused by the poll's own code path as by every other *)
RefusedQuietly(s) ==                                            \* mutant: a refused poll does not tell the app
  /\ tab' = [tab EXCEPT !.token = None]
  /\ req' = [req EXCEPT ![s] = Quiet] /\ UNCHANGED <<panel, feed>>
Refused(s) == Forget([req EXCEPT ![s] = Quiet])

SignIn ==                                                       \* SignIn.tsx submit
  /\ tab.screen = "anonymous" /\ ~tab.busy /\ req["auth"].pc = "none"
  /\ web.minted < MaxTokens
  /\ tab' = [tab EXCEPT !.busy = TRUE]
  /\ req' = [req EXCEPT !["auth"] = Sent(None)]
  /\ UNCHANGED <<web, panel, feed>>

(* The answer to the sign-in is a token: it is stored, and who-am-I is asked with what storage holds *)
SignedIn ==
  LET r == req["auth"] IN
  /\ r.pc = "answered" /\ tab.busy /\ r.kept
  /\ IF r.answer = "ok"
     THEN LET token == r.rows IN
          /\ tab' = [tab EXCEPT !.token = token]
          /\ req' = [req EXCEPT !["auth"] = [Sent(token) EXCEPT !.kept = FALSE]]
     ELSE tab' = [tab EXCEPT !.busy = FALSE] /\ req' = [req EXCEPT !["auth"] = Quiet]
  /\ UNCHANGED <<web, panel, feed>>

(* The answer to who-am-I.  After a sign-in a call with no answer leaves the form up and the token
   stored; on a reload every failure forgets the session *)
WhoamiAnswered ==
  LET r == req["auth"] IN
  /\ r.pc = "answered" /\ ~(tab.busy /\ r.kept)
  /\ tab.busy \/ tab.screen = "unknown"
  /\ \/ r.answer = "ok" /\ Admit([req EXCEPT !["auth"] = Quiet])
     \/ /\ r.answer # "ok" /\ tab.busy /\ r.answer = "none"
        /\ tab' = [tab EXCEPT !.busy = FALSE] /\ req' = [req EXCEPT !["auth"] = Quiet]
        /\ UNCHANGED <<panel, feed>>
     \/ /\ r.answer # "ok" /\ ~(tab.busy /\ r.answer = "none")
        /\ tab' = [tab EXCEPT !.busy = FALSE, !.token = None, !.screen = "anonymous"]
        /\ panel' = [Cold EXCEPT !.acked = panel.acked] /\ feed' = ClosedFeed(feed)
        /\ req' = Cancelled([req EXCEPT !["auth"] = Quiet])
  /\ UNCHANGED web

(* signOut(): the tab's own copy ends with any answer, or none *)
SignOut ==
  /\ tab.screen = "signed-in" /\ req["leave"].pc = "none"
  /\ req' = [req EXCEPT !["leave"] = Sent(tab.token)]
  /\ UNCHANGED <<web, tab, panel, feed>>

SignedOut ==
  /\ req["leave"].pc = "answered"
  /\ Forget([req EXCEPT !["leave"] = Quiet])
  /\ UNCHANGED web

\* ------------------------------------------------------------- the panel (useResource)
(* The effect begins again: what is out is cancelled, and a load is sent at once *)
Begun(p) == [p EXCEPT !.fresh = FALSE, !.floor = p.acked]

(* run(): the effect's first load or its interval's, which asks whether or not the last was answered.
   With the view away only the frame's own status poll is sent (App.tsx): its answer shows no row.
   The slots bound the loads out at once; the second is used once the first is taken *)
Load(s) ==
  /\ tab.screen = "signed-in" /\ req[s].pc = "none"
  /\ s = "poll2" => panel.on /\ req["poll1"].pc # "none"
  /\ req' = [req EXCEPT ![s] = [Sent(tab.token) EXCEPT !.kept = panel.on]]
  /\ UNCHANGED <<web, tab, panel, feed>>

KeptAny(s) == TRUE                                              \* mutant: `cancelled` is not looked at
Kept(s)    == req[s].kept

(* An answer of a cancelled effect is dropped; a failed refresh keeps the rows and says so *)
Loaded(s) ==
  LET r == req[s] IN
  /\ r.pc = "answered"
  /\ \/ r.answer = "401" /\ Refused(s)
     \/ /\ r.answer # "401"
        /\ req' = [req EXCEPT ![s] = Quiet]
        /\ panel' = IF ~panel.on \/ ~Kept(s) THEN panel
                    ELSE IF r.answer = "ok"
                         THEN [panel EXCEPT !.known = TRUE, !.rows = r.rows, !.stale = FALSE,
                                            !.fresh = @ \/ r.kept]
                         ELSE [panel EXCEPT !.stale = panel.known]
        /\ UNCHANGED <<tab, feed>>
  /\ UNCHANGED web

Navigate ==                                                     \* `active` flips: the effect is torn down or begun
  /\ tab.screen = "signed-in" /\ ~panel.ask
  /\ panel' = [Begun(panel) EXCEPT !.on = ~@]
  /\ req' = Cancelled(req)
  /\ UNCHANGED <<web, tab, feed>>

\* -------------------------------------------------------- a control of the panel
Ask ==                                                          \* MutationControl, useConfirm's ask()
  /\ panel.on /\ panel.known /\ ~panel.busy /\ ~panel.ask /\ tab.asks > 0
  /\ panel' = [panel EXCEPT !.ask = TRUE]
  /\ tab' = [tab EXCEPT !.asks = @ - 1]
  /\ UNCHANGED <<web, req, feed>>

Cancel ==                                                       \* Escape, the backdrop, Cancel
  /\ panel.ask
  /\ panel' = [panel EXCEPT !.ask = FALSE]
  /\ UNCHANGED <<web, tab, req, feed>>

Confirm ==
  /\ panel.ask /\ req["submit"].pc = "none"
  /\ panel' = [panel EXCEPT !.ask = FALSE, !.busy = TRUE]
  /\ req' = [req EXCEPT !["submit"] = Sent(tab.token)]
  /\ UNCHANGED <<web, tab, feed>>

(* The finally: busy ends and the panel reloads, whatever was answered *)
Submitted ==
  LET r == req["submit"] IN
  /\ r.pc = "answered"
  /\ \/ r.answer = "401" /\ Refused("submit")
     \/ /\ r.answer # "401"
        /\ LET p == [panel EXCEPT !.acked = IF r.answer = "ok" THEN @ + 1 ELSE @, !.busy = FALSE]
           IN panel' = IF panel.on THEN Begun(p) ELSE p
        /\ req' = Cancelled([req EXCEPT !["submit"] = Quiet])
        /\ UNCHANGED <<tab, feed>>
  /\ UNCHANGED web

\* ---------------------------------------------------------------- the live stream
Retry ==                                                        \* the timer fires
  /\ feed.timer
  /\ feed' = Connected([feed EXCEPT !.timer = FALSE], tab.hidden, tab.token)
  /\ UNCHANGED <<web, tab, req, panel>>

LinkAnswered(l) ==
  /\ feed.links[l].st = "dialing" /\ UNCHANGED <<web, req, panel>>
  /\ \/ /\ web.up /\ feed.links[l].token \in web.live
        /\ feed' = [feed EXCEPT !.links[l].st = "open", !.says = "live"] /\ UNCHANGED tab
     \/ /\ ~web.up /\ feed' = Dropped(feed, l, tab.hidden) /\ UNCHANGED tab

LinkCapped(l) ==                                                \* 429: the user's or the console's stream cap
  /\ feed.links[l].st = "dialing" /\ web.up /\ feed.links[l].token \in web.live
  /\ web.troubles > 0
  /\ web' = [web EXCEPT !.troubles = @ - 1]
  /\ feed' = Dropped(feed, l, tab.hidden) /\ UNCHANGED <<tab, req, panel>>

LinkRefused(l) ==                                               \* 401
  /\ feed.links[l].st = "dialing" /\ web.up /\ feed.links[l].token \notin web.live
  /\ Forget(req) /\ UNCHANGED web

LinkEnds(l) ==                                                  \* the session ended, or the console went away
  /\ feed.links[l].st = "open" /\ (~web.up \/ feed.links[l].token \notin web.live)
  /\ feed' = Dropped(feed, l, tab.hidden)
  /\ UNCHANGED <<web, tab, req, panel>>

(* onVisibility *)
HiddenFeedKeepsTimer(f) == Abort(f)                             \* mutant: the retry timer outlives the hide
HiddenFeed(f) == [Abort(f) EXCEPT !.timer = FALSE]
Hide ==
  /\ ~tab.hidden /\ web.troubles > 0 /\ tab.screen # "closed"
  /\ tab' = [tab EXCEPT !.hidden = TRUE]
  /\ web' = [web EXCEPT !.troubles = @ - 1]
  /\ feed' = IF feed.on THEN HiddenFeed(feed) ELSE feed
  /\ UNCHANGED <<req, panel>>

Show ==
  /\ tab.hidden
  /\ tab' = [tab EXCEPT !.hidden = FALSE]
  /\ feed' = Connected(feed, FALSE, tab.token)
  /\ UNCHANGED <<web, req, panel>>

\* ------------------------------------------------------------ the console's side
(* One request reaches the console.  A sign-in mints a token, a sign-out and a command need a live one;
   no answer may still mean the work was done *)
Answer(s) ==
  LET r == req[s]
      known == r.token \in web.live
      signin == s = "auth" /\ r.kept /\ tab.busy
      reply(a, n) == req' = [req EXCEPT ![s].pc = "answered", ![s].answer = a, ![s].token = None,
                                        ![s].rows = IF s = "auth" /\ ~signin THEN @ ELSE n]
      work == IF signin THEN [web EXCEPT !.minted = @ + 1, !.live = @ \cup {web.minted + 1}]
              ELSE IF ~known THEN web
              ELSE IF s = "leave" THEN [web EXCEPT !.live = @ \ {r.token}]
              ELSE IF s = "submit" THEN [web EXCEPT !.rows = @ + 1]
              ELSE web
  IN
  /\ r.pc = "sent"
  /\ \/ /\ web.up /\ web' = work
        /\ reply(IF signin \/ known THEN "ok" ELSE "401",
                 IF signin THEN web.minted + 1 ELSE IF s \in Polls /\ r.kept THEN web.rows ELSE 0)
     \/ /\ web.up /\ web.troubles > 0               \* done, and the answer is lost
        /\ web' = [work EXCEPT !.troubles = @ - 1] /\ reply("none", 0)
     \/ /\ ~web.up /\ reply("none", 0) /\ UNCHANGED web
  /\ UNCHANGED <<tab, panel, feed>>

Outage ==                                                       \* the console restarts: its sessions are gone
  /\ web.up /\ web.troubles > 0 /\ tab.screen # "closed"
  /\ web' = [web EXCEPT !.up = FALSE, !.live = {}, !.troubles = @ - 1]
  /\ UNCHANGED <<tab, req, panel, feed>>

Return ==
  /\ ~web.up
  /\ web' = [web EXCEPT !.up = TRUE]
  /\ UNCHANGED <<tab, req, panel, feed>>

TabNext ==
  \/ SignIn \/ SignedIn \/ WhoamiAnswered \/ SignOut \/ SignedOut
  \/ Navigate \/ Ask \/ Cancel \/ Confirm \/ Submitted
  \/ Retry \/ Hide \/ Show \/ Outage \/ Return
  \/ \E s \in Polls : Load(s) \/ Loaded(s)
  \/ \E l \in Links : LinkAnswered(l) \/ LinkCapped(l) \/ LinkRefused(l) \/ LinkEnds(l)
  \/ \E s \in Slots : Answer(s)

(* What the tab and the network do by themselves; a person, and an outage, owe nothing *)
TabFairness ==
  /\ WF_tabVars(SignedIn) /\ WF_tabVars(WhoamiAnswered) /\ WF_tabVars(SignedOut) /\ WF_tabVars(Submitted)
  /\ WF_tabVars(Retry) /\ WF_tabVars(Return)
  /\ \A s \in Polls : WF_tabVars(Load(s)) /\ WF_tabVars(Loaded(s))
  /\ \A l \in Links : WF_tabVars(LinkAnswered(l) \/ LinkRefused(l)) /\ WF_tabVars(LinkEnds(l))
  /\ \A s \in Slots : WF_tabVars(Answer(s))

TabSpec == TabInit(TRUE) /\ [][TabNext]_tabVars /\ TabFairness

(* openEventStream: whatever the order of hides, drops, refusals, sign-outs and sign-ins, a tab
   holds at most one stream connection (each is a slot of the user's cap), and one that is not
   signed in or is hidden holds none. *)
OneStream ==
  LET held == {l \in Links : feed.links[l].st # "off"} IN
  /\ Cardinality(held) <= 1
  /\ tab.screen # "signed-in" \/ tab.hidden => held = {}

(* useResource's `cancelled`: once the panel shows an answer to a load begun after a reload, what
   it shows holds every command this tab had been told the daemon was asked for when the reload
   began - an answer to a load of before it never takes its place.  Loads of one effect are applied
   in the order they arrive: between two of them the panel may go back, never behind the reload. *)
ReloadHolds == panel.on /\ panel.fresh => panel.rows >= panel.floor

(* api.ts and state.tsx: a tab whose session the console no longer honours ends on the form, the
   blank first screen ends, and a visible signed-in tab of an answering console gets its live feed. *)
TabSettles ==
  /\ []<>(tab.screen = "signed-in" => tab.token \in web.live)
  /\ []<>(tab.screen # "unknown")
  /\ []<>(tab.screen = "signed-in" /\ ~tab.hidden /\ web.up /\ tab.token \in web.live
            => feed.says = "live" /\ \E l \in Links : feed.links[l].st = "open")

(* One stream per tab, and after a reload never an answer to a load of before it. *)
TabSafe == OneStream /\ ReloadHolds
=============================================================================
