-------------------------------- MODULE Auth --------------------------------
(***************************************************************************)
(* The signed-in session of apps/cli/src/auth: auth.json, the device-flow  *)
(* logins the terminal interface starts and dismisses, the requests that   *)
(* are answered 401 and the refresh they share, in several seri processes  *)
(* over one profile directory.  The identity provider is external: every   *)
(* refresh token may be exchanged once.                                    *)
(*                                                                         *)
(* A token is the login it descends from and the number of exchanges since.*)
(***************************************************************************)
EXTENDS Integers, FiniteSets, Sequences, SequencesExt

CONSTANTS
    Procs,          \* seri processes
    Tui,            \* the one that has the terminal interface
    Reqs,           \* requests to the gateway that may be answered 401
    MaxLogins,      \* bound: device-flow attempts
    MaxLogouts,     \* bound: logouts
    MaxKills        \* bound: processes killed

ASSUME AuthAssumption ==
    /\ Tui \in Procs
    /\ {MaxLogins, MaxLogouts, MaxKills} \subseteq Nat
    /\ "none" \notin Reqs

VARIABLES
    disk,       \* auth.json: a token, NoSession, or Torn while it is being written
    exchanges,  \* [login -> the processes that exchanged its refresh tokens, in order]
    request,    \* [Reqs -> what the request is doing, and the refresh it waits for]
    refresh,    \* [Reqs -> the refresh that the request started]
    inFlight,   \* inFlightRefreshes: [Procs -> the request whose refresh is shared]
    attempt,    \* the device-flow attempts of the terminal interface
    counter,    \* attemptCounter
    panel,      \* pendingAuth: the attempt and the step it shows
    lost,       \* ghost: the logins of which an exchanged token was never saved
    spent       \* the counters of the bounds

vars == <<disk, exchanges, request, refresh, inFlight, attempt, counter, panel,
          lost, spent>>

Attempts == 1..MaxLogins
Logins == 0..MaxLogins          \* 0: the session of an earlier run

NoSession == [login |-> -1, gen |-> 0]
Torn == [login |-> -2, gen |-> 0]
NoReq == "none"
NoPanel == [step |-> "none", of |-> 0]

\* loadAuthSession: what does not parse is no session.
Loaded == IF disk = Torn THEN NoSession ELSE disk

Current(token) == token.gen = Len(exchanges[token.login])

ProcOf(r) == request[r].proc

\* writeFileSync truncates and then writes; its process does nothing else meanwhile.
Saving == {"saving", "unlinked"}

Writing(p) ==
    \/ \E r \in Reqs : ProcOf(r) = p /\ refresh[r].pc \in Saving
    \/ p = Tui /\ \E a \in Attempts : attempt[a].pc \in Saving

Runs(p) == ~Writing(p)

-----------------------------------------------------------------------------
(* Requests: authedFetch, and refreshSession with its in-flight map.  One  *)
(* that is answered otherwise than by a 401 changes nothing and stays      *)
(* "sent".                                                                 *)

\* The refresh that a 401 joins.  A plausible bug: every caller starts its own.
Joined_None(p) == NoReq

Joined(p) == inFlight[p]

\* A first 401: wait for the refresh in flight, or start one from auth.json.
Unauthorized(r) ==
    LET p == ProcOf(r) IN
    /\ request[r].pc = "sent" /\ Runs(p)
    /\ \/ /\ Joined(p) # NoReq
          /\ request' = [request EXCEPT ![r] = [pc |-> "waiting", on |-> Joined(p), proc |-> p]]
          /\ UNCHANGED <<refresh, inFlight>>
       \/ /\ Joined(p) = NoReq /\ Loaded # NoSession
          /\ request' = [request EXCEPT ![r] = [pc |-> "waiting", on |-> r, proc |-> p]]
          /\ refresh' = [refresh EXCEPT ![r] = [pc |-> "posted", token |-> Loaded]]
          /\ inFlight' = [inFlight EXCEPT ![p] = r]
       \/ /\ Joined(p) = NoReq /\ Loaded = NoSession
          /\ request' = [request EXCEPT ![r].pc = "done"]
          /\ UNCHANGED <<refresh, inFlight>>
    /\ UNCHANGED <<disk, exchanges, attempt, counter, panel, lost, spent>>

\* The caller's own signal ends its wait, never the shared refresh.
CallerAborts(r) ==
    /\ request[r].pc = "waiting" /\ Runs(ProcOf(r))
    /\ request' = [request EXCEPT ![r].pc = "done"]
    /\ UNCHANGED <<disk, exchanges, refresh, inFlight, attempt, counter, panel,
                   lost, spent>>

\* The shared promise settles: its entry leaves the map, and every waiter sends its
\* request again or returns the 401; either way it waits no more.
Settle(r) ==
    /\ refresh' = [refresh EXCEPT ![r].pc = "over"]
    /\ inFlight' = [p \in Procs |-> IF inFlight[p] = r THEN NoReq ELSE inFlight[p]]
    /\ request' = [q \in Reqs |->
         IF request[q].pc = "waiting" /\ request[q].on = r
         THEN [request[q] EXCEPT !.pc = "done"]
         ELSE request[q]]

Exchanged(r) ==
    LET t == refresh[r].token IN
    /\ refresh[r].pc = "posted" /\ Current(t)
    /\ exchanges' = [exchanges EXCEPT ![t.login] = Append(@, ProcOf(r))]
    /\ refresh' = [refresh EXCEPT ![r].pc = "answering"]
    /\ UNCHANGED <<disk, request, inFlight, attempt, counter, panel, lost, spent>>

Refused(r) ==
    /\ refresh[r].pc = "posted" /\ ~Current(refresh[r].token) /\ Runs(ProcOf(r))
    /\ Settle(r)
    /\ UNCHANGED <<disk, exchanges, attempt, counter, panel, lost, spent>>

\* What fetchWithTimeout's timer covers.  A plausible bug: it is cleared once the
\* headers are there, and a body that stalls is waited for.
Deadline_Headers == {"posted"}

Deadline == {"posted", "answering"}

\* The ten seconds are over, or the connection fails before the body is read.
TimesOut(r) ==
    /\ refresh[r].pc \in Deadline /\ Runs(ProcOf(r))
    /\ lost' = IF refresh[r].pc = "answering" THEN lost \cup {refresh[r].token.login} ELSE lost
    /\ Settle(r)
    /\ UNCHANGED <<disk, exchanges, attempt, counter, panel, spent>>

BeginSave(r) ==
    /\ refresh[r].pc = "answering" /\ Runs(ProcOf(r))
    /\ refresh' = [refresh EXCEPT ![r].pc = "saving"]
    /\ disk' = Torn
    /\ UNCHANGED <<exchanges, request, inFlight, attempt, counter, panel, lost, spent>>

\* The tokens of the answer replace those of the session that was read.  A
\* plausible bug: the refresh token the call started with is kept.
Renewed_Kept(token) == token

Renewed(token) == [token EXCEPT !.gen = @ + 1]

EndSave(r) ==
    /\ refresh[r].pc \in Saving
    /\ disk' = IF refresh[r].pc = "saving" THEN Renewed(refresh[r].token) ELSE disk
    /\ Settle(r)
    /\ UNCHANGED <<exchanges, attempt, counter, panel, lost, spent>>

-----------------------------------------------------------------------------
(* Logins: createAuthHandlers, login and pollForToken.                     *)

\* /login is typed into the input box, which no panel may be hiding.
Login ==
    /\ panel = NoPanel /\ Runs(Tui) /\ spent.logins < MaxLogins
    /\ counter' = counter + 1
    /\ spent' = [spent EXCEPT !.logins = @ + 1]
    /\ attempt' = [attempt EXCEPT ![spent.logins + 1] =
                     [pc |-> "starting", number |-> counter + 1, aborted |-> FALSE]]
    /\ panel' = [step |-> "starting", of |-> spent.logins + 1]
    /\ UNCHANGED <<disk, exchanges, request, refresh, inFlight, lost>>

\* Whether what an attempt reports may still reach the screen.
Shows(a) == attempt[a].number = counter

CodeArrives(a) ==
    /\ attempt[a].pc = "starting" /\ Runs(Tui)
    /\ attempt' = [attempt EXCEPT ![a].pc = IF attempt[a].aborted THEN "ended" ELSE "polling"]
    /\ panel' = IF ~attempt[a].aborted /\ Shows(a) THEN [step |-> "device", of |-> a] ELSE panel
    /\ UNCHANGED <<disk, exchanges, request, refresh, inFlight, counter, lost, spent>>

\* Denied, expired, an unexpected answer, or a fetch that rejects; an abort that
\* the poll sees ends it silently, a rejection is caught whatever was aborted.
AttemptFails(a) ==
    /\ attempt[a].pc \in {"starting", "polling"} /\ Runs(Tui)
    /\ attempt' = [attempt EXCEPT ![a].pc = "ended"]
    /\ panel' = IF Shows(a) THEN [step |-> "result", of |-> a] ELSE panel
    /\ UNCHANGED <<disk, exchanges, request, refresh, inFlight, counter, lost, spent>>

\* The signal is looked at again once the answer of a poll is in.  A plausible
\* bug: it is looked at only before the wait.
Discards_Never(a) == FALSE

Discards(a) == attempt[a].aborted

PollSucceeds(a) ==
    /\ attempt[a].pc = "polling" /\ Runs(Tui)
    /\ IF Discards(a)
       THEN attempt' = [attempt EXCEPT ![a].pc = "ended"] /\ UNCHANGED disk
       ELSE attempt' = [attempt EXCEPT ![a].pc = "saving"] /\ disk' = Torn
    /\ UNCHANGED <<exchanges, request, refresh, inFlight, counter, panel, lost, spent>>

SaveLogin(a) ==
    /\ attempt[a].pc \in Saving
    /\ disk' = IF attempt[a].pc = "saving" THEN [login |-> a, gen |-> 0] ELSE disk
    /\ attempt' = [attempt EXCEPT ![a].pc = "ended"]
    /\ panel' = IF Shows(a) THEN NoPanel ELSE panel
    /\ UNCHANGED <<exchanges, request, refresh, inFlight, counter, lost, spent>>

\* Escape on the panel: onAuthResolved calls onAbandon, then closes it.
Dismiss ==
    /\ panel # NoPanel /\ Runs(Tui)
    /\ counter' = counter + 1
    /\ attempt' = [attempt EXCEPT ![spent.logins].aborted = TRUE]
    /\ panel' = NoPanel
    /\ UNCHANGED <<disk, exchanges, request, refresh, inFlight, lost, spent>>

\* /logout, or `seri logout` in another process: a write that the other process has
\* begun goes to a file without a name.
Logout(p) ==
    /\ Runs(p) /\ spent.logouts < MaxLogouts
    /\ p = Tui => panel = NoPanel
    /\ disk' = NoSession
    /\ refresh' = [r \in Reqs |-> IF refresh[r].pc = "saving"
                                  THEN [refresh[r] EXCEPT !.pc = "unlinked"] ELSE refresh[r]]
    /\ attempt' = [a \in Attempts |-> IF attempt[a].pc = "saving"
                                  THEN [attempt[a] EXCEPT !.pc = "unlinked"] ELSE attempt[a]]
    /\ spent' = [spent EXCEPT !.logouts = @ + 1]
    /\ UNCHANGED <<exchanges, request, inFlight, counter, panel, lost>>

\* A process dies wherever it is; what the provider exchanged for it is lost.
Kill(p) ==
    LET mine == {r \in Reqs : ProcOf(r) = p} IN
    /\ spent.kills < MaxKills
    /\ spent' = [spent EXCEPT !.kills = @ + 1]
    /\ lost' = lost \cup {refresh[r].token.login :
                            r \in {q \in mine : refresh[q].pc \in {"answering"} \cup Saving}}
    /\ request' = [r \in Reqs |-> IF r \in mine THEN [request[r] EXCEPT !.pc = "done"] ELSE request[r]]
    /\ refresh' = [r \in Reqs |-> IF r \in mine THEN [refresh[r] EXCEPT !.pc = "over"] ELSE refresh[r]]
    /\ inFlight' = [inFlight EXCEPT ![p] = NoReq]
    /\ IF p = Tui
       THEN /\ attempt' = [a \in Attempts |-> [attempt[a] EXCEPT !.pc = "ended"]]
            /\ panel' = NoPanel
       ELSE UNCHANGED <<attempt, panel>>
    /\ UNCHANGED <<disk, exchanges, counter>>

-----------------------------------------------------------------------------
Init ==
    /\ disk = [login |-> 0, gen |-> 0]     \* signed out is where a logout leads
    /\ exchanges = [l \in Logins |-> <<>>]
    /\ request \in [Reqs -> [pc : {"sent"}, on : {NoReq}, proc : Procs]]
    /\ refresh = [r \in Reqs |-> [pc |-> "over", token |-> NoSession]]
    /\ inFlight = [p \in Procs |-> NoReq]
    /\ attempt = [a \in Attempts |-> [pc |-> "ended", number |-> -1, aborted |-> FALSE]]
    /\ counter = 0 /\ panel = NoPanel
    /\ lost = {}
    /\ spent = [logins |-> 0, logouts |-> 0, kills |-> 0]

Tokens == [login : Logins, gen : Nat]
RequestStates == [pc : {"sent", "waiting", "done"}, on : Reqs \cup {NoReq}, proc : Procs]
RefreshStates == [pc : {"over", "posted", "answering"} \cup Saving,
                  token : Tokens \cup {NoSession}]
AttemptStates == [pc : {"ended", "starting", "polling"} \cup Saving,
                  number : Int, aborted : BOOLEAN]
PanelStates == [step : {"none", "starting", "device", "result"}, of : 0..MaxLogins]
Spending == [logins : 0..MaxLogins, logouts : 0..MaxLogouts, kills : 0..MaxKills]

TypeOK ==
    /\ disk \in Tokens \cup {NoSession, Torn}
    /\ exchanges \in [Logins -> Seq(Procs)]
    /\ request \in [Reqs -> RequestStates]
    /\ refresh \in [Reqs -> RefreshStates]
    /\ inFlight \in [Procs -> Reqs \cup {NoReq}]
    /\ attempt \in [Attempts -> AttemptStates]
    /\ counter \in Nat
    /\ panel \in PanelStates
    /\ lost \subseteq Logins
    /\ spent \in Spending

RefreshStep(r) == Exchanged(r) \/ Refused(r) \/ TimesOut(r) \/ BeginSave(r) \/ EndSave(r)

Next ==
    \/ \E r \in Reqs : Unauthorized(r) \/ CallerAborts(r) \/ RefreshStep(r)
    \/ \E a \in Attempts :
         CodeArrives(a) \/ AttemptFails(a) \/ PollSucceeds(a) \/ SaveLogin(a)
    \/ Login \/ Dismiss
    \/ \E p \in Procs : Logout(p) \/ Kill(p)

\* A timer that was armed fires, and a write that was begun ends; no answer of the
\* provider and no act of the user is owed.
Fairness ==
    /\ WF_vars(\E r \in Reqs : TimesOut(r) \/ EndSave(r))
    /\ WF_vars(\E a \in Attempts : SaveLogin(a))

Spec == Init /\ [][Next]_vars /\ Fairness

-----------------------------------------------------------------------------
\* No process offers the provider a refresh token it has itself exchanged already,
\* unless the answer was lost: concurrent 401s share one refresh (refresh.ts:87).
NoTokenUsedTwice ==
    \A r \in Reqs :
        LET t == refresh[r].token IN
        refresh[r].pc = "posted" /\ ~Current(t) /\ t.login \notin lost
        => exchanges[t.login][t.gen + 1] # ProcOf(r)

\* What auth.json holds can still be refreshed, or a refresh of it is under way:
\* only a lost answer or a killed process can make the user sign in again, however
\* the processes race (refresh.ts:113).
SessionStaysUsable ==
    Loaded # NoSession =>
        \/ Current(disk) \/ disk.login \in lost
        \/ \E r \in Reqs : refresh[r].pc = "answering" /\ refresh[r].token = disk

\* A login the user dismissed never becomes the saved session, even when the
\* provider had already said yes (deviceFlow.ts:112).
DismissedNeverSaved ==
    \A a \in Attempts : disk.login = a => ~attempt[a].aborted

\* A request that waits for a refresh is answered: the refresh has its own deadline,
\* which covers the body as well as the headers (fetchWithTimeout.ts:17).
WaitersGoOn ==
    \A r \in Reqs : request[r].pc = "waiting" ~> request[r].pc # "waiting"
=============================================================================
