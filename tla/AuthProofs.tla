----------------------------- MODULE AuthProofs -----------------------------
(***************************************************************************)
(* For any number of processes, requests, logins, logouts and kills:       *)
(*   - no process offers a refresh token it has itself exchanged already,  *)
(*     unless the answer was lost;                                         *)
(*   - what auth.json holds can still be refreshed, unless an answer was   *)
(*     lost or a process killed;                                           *)
(*   - a login that was dismissed is never what auth.json holds.           *)
(*                                                                         *)
(* The first two hold because of the newest exchange of a login: as long   *)
(* as its answer is under way, the file and every other request of it are  *)
(* older, so that only a refresh of another process can be refused, and    *)
(* nothing but the answer replaces the token.  The third holds because a   *)
(* login that may yet be dismissed has left no trace: nothing was          *)
(* exchanged for it, neither the file nor a refresh has its token, and the *)
(* panel shows the last attempt alone.                                     *)
(***************************************************************************)
EXTENDS Auth, SequenceTheorems, TLAPS

\* The states of a refresh whose token was exchanged and is not yet saved.
Answered == {"answering"} \cup Saving

Used(r) == refresh[r].pc # "over"

\* A refresh that is under way has a token, and is the one its process shares.
Shared ==
    \A r \in Reqs : Used(r) =>
        /\ refresh[r].token \in Tokens
        /\ inFlight[ProcOf(r)] = r

\* No token is of an exchange that has not happened.
Bounded ==
    /\ disk \in Tokens => disk.gen <= Len(exchanges[disk.login])
    /\ \A r \in Reqs : refresh[r].pc = "posted"
          => refresh[r].token.gen <= Len(exchanges[refresh[r].token.login])

\* An answer under way is that of the newest exchange, and nothing is newer.
IsNewest(r) ==
    LET t == refresh[r].token IN
    /\ Len(exchanges[t.login]) = t.gen + 1
    /\ exchanges[t.login][t.gen + 1] = ProcOf(r)
    /\ disk.login = t.login => disk.gen <= t.gen
    /\ \A q \in Reqs : Used(q) /\ refresh[q].token.login = t.login =>
          IF refresh[q].pc = "posted" THEN refresh[q].token.gen <= t.gen ELSE q = r

Newest == \A r \in Reqs : refresh[r].pc \in Answered => IsNewest(r)

\* A login that has left no trace.
Unsaved(a) ==
    /\ exchanges[a] = <<>>
    /\ disk.login # a
    /\ \A r \in Reqs : Used(r) => refresh[r].token.login # a

MayBeDismissed(a) ==
    \/ a > spent.logins
    \/ attempt[a].pc # "ended" \/ attempt[a].aborted
    \/ panel # NoPanel /\ a = spent.logins

Traceless == \A a \in Attempts : MayBeDismissed(a) => Unsaved(a)

\* Only the last attempt can carry the counter's number, and does until it is aborted.
Numbered ==
    \A a \in Attempts :
        /\ attempt[a].number <= counter
        /\ a # spent.logins => attempt[a].number < counter
        /\ a = spent.logins /\ ~attempt[a].aborted => attempt[a].number = counter
        /\ attempt[a].pc # "ended" => a <= spent.logins
        /\ attempt[a].pc \in Saving => ~attempt[a].aborted

Opened == panel # NoPanel => spent.logins \in Attempts

IInv ==
    /\ TypeOK /\ Shared /\ Bounded /\ Newest
    /\ Traceless /\ Numbered /\ Opened
    /\ SessionStaysUsable /\ NoTokenUsedTwice

-----------------------------------------------------------------------------
(* Types.                                                                  *)

USE DEF Saving

LEMMA LoadedToken ==
  ASSUME TypeOK
  PROVE  /\ Loaded # NoSession => disk \in Tokens /\ Loaded = disk
         /\ Loaded = NoSession => disk \notin Tokens
         /\ \A t \in Tokens : t # NoSession /\ t # Torn
  BY AuthAssumption DEF TypeOK, Loaded, NoSession, Torn, Tokens, Logins

LEMMA MovesRefresh ==
  ASSUME TypeOK, NEW r \in Reqs, NEW s \in {"over", "posted", "answering"} \cup Saving,
         refresh' = [refresh EXCEPT ![r].pc = s]
  PROVE  /\ refresh' \in [Reqs -> RefreshStates]
         /\ \A q \in Reqs : /\ refresh'[q].token = refresh[q].token
                            /\ refresh'[q].pc = IF q = r THEN s ELSE refresh[q].pc
  <1>1. \A q \in Reqs : refresh'[q].token = refresh[q].token
    BY DEF TypeOK, RefreshStates
  <1>2. \A q \in Reqs : refresh'[q].pc = IF q = r THEN s ELSE refresh[q].pc
    BY DEF TypeOK, RefreshStates
  <1>3. refresh' \in [Reqs -> RefreshStates]
    BY DEF TypeOK, RefreshStates
  <1> QED
    BY <1>1, <1>2, <1>3

LEMMA SettleEffect ==
  ASSUME TypeOK, NEW r \in Reqs, Settle(r)
  PROVE  /\ request' \in [Reqs -> RequestStates]
         /\ \A q \in Reqs : request'[q].proc = request[q].proc
         /\ refresh' \in [Reqs -> RefreshStates]
         /\ \A q \in Reqs : /\ refresh'[q].token = refresh[q].token
                            /\ refresh'[q].pc = IF q = r THEN "over" ELSE refresh[q].pc
         /\ inFlight' \in [Procs -> Reqs \cup {NoReq}]
  <1>1. /\ request' \in [Reqs -> RequestStates]
    BY DEF Settle, TypeOK, RequestStates
  <1>2. \A q \in Reqs : request'[q].proc = request[q].proc
    BY DEF Settle, TypeOK, RequestStates
  <1>3. inFlight' \in [Procs -> Reqs \cup {NoReq}]
    BY DEF Settle, TypeOK
  <1> QED
    BY <1>1, <1>2, <1>3, MovesRefresh DEF Settle

\* What a 401 can do: it posts what auth.json holds, or starts no refresh.
LEMMA UnauthorizedEffect ==
  ASSUME TypeOK, NEW r \in Reqs, Unauthorized(r)
  PROVE  /\ request' \in [Reqs -> RequestStates]
         /\ \A q \in Reqs : request'[q].proc = request[q].proc
         /\ refresh' \in [Reqs -> RefreshStates]
         /\ inFlight' \in [Procs -> Reqs \cup {NoReq}]
         /\ \/ UNCHANGED <<refresh, inFlight>>
            \/ /\ disk \in Tokens /\ Loaded = disk
               /\ inFlight[ProcOf(r)] = NoReq
               /\ inFlight' = [inFlight EXCEPT ![ProcOf(r)] = r]
               /\ \A q \in Reqs \ {r} : refresh'[q] = refresh[q]
               /\ refresh'[r].pc = "posted" /\ refresh'[r].token = disk
  <1>1. ProcOf(r) \in Procs
    BY DEF ProcOf, TypeOK, RequestStates
  <1>2. /\ request' \in [Reqs -> RequestStates]
        /\ \A q \in Reqs : request'[q].proc = request[q].proc
    <2>1. ASSUME NEW q \in Reqs \cup {NoReq},
                 request' = [request EXCEPT ![r] = [pc |-> "waiting", on |-> q,
                                                    proc |-> ProcOf(r)]]
          PROVE  <1>2!1 /\ <1>2!2
      BY <1>1, <2>1 DEF ProcOf, TypeOK, RequestStates
    <2>2. ASSUME request' = [request EXCEPT ![r].pc = "done"]
          PROVE  <1>2!1 /\ <1>2!2
      BY <2>2 DEF TypeOK, RequestStates
    <2>3. Joined(ProcOf(r)) \in Reqs \cup {NoReq}
      BY <1>1 DEF Joined, TypeOK
    <2> QED
      BY <2>1, <2>2, <2>3 DEF Unauthorized
  <1>4. CASE Joined(ProcOf(r)) = NoReq /\ Loaded # NoSession
    <2>1. disk \in Tokens /\ Loaded = disk
      BY <1>4, LoadedToken
    <2>2. /\ refresh' = [refresh EXCEPT ![r] = [pc |-> "posted", token |-> disk]]
          /\ inFlight' = [inFlight EXCEPT ![ProcOf(r)] = r]
      BY <1>4, <2>1 DEF Unauthorized
    <2>3. [pc |-> "posted", token |-> disk] \in RefreshStates
      BY <2>1 DEF RefreshStates
    <2> QED
      BY <1>1, <1>2, <1>4, <2>1, <2>2, <2>3 DEF Joined, TypeOK
  <1>5. CASE ~(Joined(ProcOf(r)) = NoReq /\ Loaded # NoSession)
    <2>1. UNCHANGED <<refresh, inFlight>>
      BY <1>5 DEF Unauthorized
    <2> QED
      BY <1>2, <2>1 DEF TypeOK
  <1> QED
    BY <1>4, <1>5

\* An attempt that moves on keeps its number and its signal.
Enters(a, s) == attempt' = [attempt EXCEPT ![a].pc = s]

LEMMA MovesAttempt ==
  ASSUME TypeOK, NEW a \in Attempts, NEW s \in {"ended", "starting", "polling"} \cup Saving,
         Enters(a, s)
  PROVE  /\ attempt' \in [Attempts -> AttemptStates]
         /\ \A b \in Attempts : /\ attempt'[b].number = attempt[b].number
                                /\ attempt'[b].aborted = attempt[b].aborted
                                /\ attempt'[b].pc = IF b = a THEN s ELSE attempt[b].pc
  <1>1. \A b \in Attempts : /\ attempt'[b].number = attempt[b].number
                            /\ attempt'[b].aborted = attempt[b].aborted
    BY DEF Enters, TypeOK, AttemptStates
  <1>2. \A b \in Attempts : attempt'[b].pc = IF b = a THEN s ELSE attempt[b].pc
    BY DEF Enters, TypeOK, AttemptStates
  <1>3. attempt' \in [Attempts -> AttemptStates]
    BY DEF Enters, TypeOK, AttemptStates
  <1> QED
    BY <1>1, <1>2, <1>3

\* A logout takes the name from the writes that have begun, and touches nothing else.
LEMMA LogoutEffect ==
  ASSUME TypeOK, NEW p \in Procs, Logout(p)
  PROVE  /\ refresh' \in [Reqs -> RefreshStates]
         /\ attempt' \in [Attempts -> AttemptStates]
         /\ \A r \in Reqs :
              /\ refresh'[r].token = refresh[r].token
              /\ refresh'[r].pc = IF refresh[r].pc = "saving" THEN "unlinked" ELSE refresh[r].pc
         /\ \A a \in Attempts :
              /\ attempt'[a].number = attempt[a].number
              /\ attempt'[a].aborted = attempt[a].aborted
              /\ attempt'[a].pc = IF attempt[a].pc = "saving" THEN "unlinked" ELSE attempt[a].pc
  <1>1. refresh' \in [Reqs -> RefreshStates]
    BY DEF Logout, TypeOK, RefreshStates
  <1>2. attempt' \in [Attempts -> AttemptStates]
    BY DEF Logout, TypeOK, AttemptStates
  <1>3. \A r \in Reqs :
          /\ refresh'[r].token = refresh[r].token
          /\ refresh'[r].pc = IF refresh[r].pc = "saving" THEN "unlinked" ELSE refresh[r].pc
    BY DEF Logout, TypeOK, RefreshStates
  <1>4. \A a \in Attempts :
          /\ attempt'[a].number = attempt[a].number
          /\ attempt'[a].aborted = attempt[a].aborted
          /\ attempt'[a].pc = IF attempt[a].pc = "saving" THEN "unlinked" ELSE attempt[a].pc
    BY DEF Logout, TypeOK, AttemptStates
  <1> QED
    BY <1>1, <1>2, <1>3, <1>4

\* A process that dies ends its requests, its refreshes and, when it is the one with
\* the terminal interface, its attempts.
LEMMA KillEffect ==
  ASSUME TypeOK, NEW p \in Procs, Kill(p)
  PROVE  /\ request' \in [Reqs -> RequestStates]
         /\ refresh' \in [Reqs -> RefreshStates]
         /\ attempt' \in [Attempts -> AttemptStates]
         /\ \A r \in Reqs :
              /\ request'[r].proc = request[r].proc
              /\ refresh'[r].token = refresh[r].token
              /\ refresh'[r].pc = IF ProcOf(r) = p THEN "over" ELSE refresh[r].pc
         /\ \A a \in Attempts :
              /\ attempt'[a].number = attempt[a].number
              /\ attempt'[a].aborted = attempt[a].aborted
              /\ attempt'[a].pc \in {attempt[a].pc, "ended"}
  <1>1. request' \in [Reqs -> RequestStates]
    BY DEF Kill, TypeOK, RequestStates
  <1>2. refresh' \in [Reqs -> RefreshStates]
    BY DEF Kill, TypeOK, RefreshStates
  <1>3. attempt' \in [Attempts -> AttemptStates]
    <2>1. CASE attempt' = attempt
      BY <2>1 DEF TypeOK
    <2>2. CASE attempt' = [a \in Attempts |-> [attempt[a] EXCEPT !.pc = "ended"]]
      BY <2>2 DEF TypeOK, AttemptStates
    <2> QED
      BY <2>1, <2>2 DEF Kill
  <1>4. \A r \in Reqs : request'[r].proc = request[r].proc
    BY DEF Kill, TypeOK, RequestStates
  <1>5. \A r \in Reqs :
          /\ refresh'[r].token = refresh[r].token
          /\ refresh'[r].pc = IF ProcOf(r) = p THEN "over" ELSE refresh[r].pc
    BY DEF Kill, TypeOK, RefreshStates
  <1>6. \A a \in Attempts :
          /\ attempt'[a].number = attempt[a].number
          /\ attempt'[a].aborted = attempt[a].aborted
          /\ attempt'[a].pc \in {attempt[a].pc, "ended"}
    <2>1. \/ attempt' = attempt
          \/ attempt' = [a \in Attempts |-> [attempt[a] EXCEPT !.pc = "ended"]]
      BY DEF Kill
    <2> QED
      BY <2>1 DEF TypeOK, AttemptStates
  <1> QED
    BY <1>1, <1>2, <1>3, <1>4, <1>5, <1>6

LEMMA LoginEffect ==
  ASSUME TypeOK, Login
  PROVE  /\ spent.logins + 1 \in Attempts
         /\ attempt' \in [Attempts -> AttemptStates]
         /\ \A b \in Attempts :
              IF b = spent.logins + 1
              THEN /\ attempt'[b].pc = "starting" /\ attempt'[b].number = counter + 1
                   /\ ~attempt'[b].aborted
              ELSE attempt'[b] = attempt[b]
         /\ spent' \in Spending
         /\ spent'.logins = spent.logins + 1
  <1>1. spent.logins + 1 \in Attempts
    BY AuthAssumption DEF Login, TypeOK, Attempts, Spending
  <1>2. [pc |-> "starting", number |-> counter + 1, aborted |-> FALSE] \in AttemptStates
    BY DEF TypeOK, AttemptStates
  <1>3. spent' \in Spending /\ spent'.logins = spent.logins + 1
    BY <1>1, SMTT(30) DEF Login, TypeOK, Attempts, Spending
  <1>4. attempt' = [attempt EXCEPT ![spent.logins + 1] =
                      [pc |-> "starting", number |-> counter + 1, aborted |-> FALSE]]
    BY DEF Login
  <1>5. attempt' \in [Attempts -> AttemptStates]
    BY <1>2, <1>4 DEF TypeOK
  <1> QED
    BY <1>1, <1>3, <1>4, <1>5 DEF TypeOK

LEMMA DismissEffect ==
  ASSUME TypeOK, Opened, Dismiss
  PROVE  /\ attempt' \in [Attempts -> AttemptStates]
         /\ \A b \in Attempts :
              /\ attempt'[b].number = attempt[b].number
              /\ attempt'[b].pc = attempt[b].pc
              /\ attempt'[b].aborted <=> (attempt[b].aborted \/ b = spent.logins)
  <1>1. /\ spent.logins \in Attempts
        /\ attempt' = [attempt EXCEPT ![spent.logins].aborted = TRUE]
    BY DEF Opened, Dismiss
  <1>2. attempt' \in [Attempts -> AttemptStates]
    BY <1>1 DEF TypeOK, AttemptStates
  <1>3. \A b \in Attempts :
          /\ attempt'[b].number = attempt[b].number
          /\ attempt'[b].pc = attempt[b].pc
          /\ attempt'[b].aborted <=> (attempt[b].aborted \/ b = spent.logins)
    BY <1>1 DEF TypeOK, AttemptStates
  <1> QED
    BY <1>2, <1>3

LEMMA ExchangedEffect ==
  ASSUME TypeOK, Shared, NEW r \in Reqs, Exchanged(r)
  PROVE  LET t == refresh[r].token IN
         /\ t \in Tokens
         /\ exchanges' \in [Logins -> Seq(Procs)]
         /\ \A l \in Logins \ {t.login} : exchanges'[l] = exchanges[l]
         /\ Len(exchanges[t.login]) = t.gen
         /\ Len(exchanges'[t.login]) = t.gen + 1
         /\ exchanges'[t.login][t.gen + 1] = ProcOf(r)
         /\ \A i \in 1..t.gen : exchanges'[t.login][i] = exchanges[t.login][i]
  <1> DEFINE t == refresh[r].token
             e == exchanges[t.login]
  <1>1. t \in Tokens /\ t.login \in Logins /\ t.gen \in Nat
    BY DEF Exchanged, Shared, Used, Tokens
  <1>2. ProcOf(r) \in Procs
    BY DEF ProcOf, TypeOK, RequestStates
  <1>3. e \in Seq(Procs) /\ Len(e) = t.gen
    BY <1>1 DEF Exchanged, Current, TypeOK
  <1>4. exchanges' = [exchanges EXCEPT ![t.login] = Append(e, ProcOf(r))]
    BY DEF Exchanged
  <1> HIDE DEF e, t
  <1>5. /\ Append(e, ProcOf(r)) \in Seq(Procs)
        /\ Len(Append(e, ProcOf(r))) = t.gen + 1
        /\ Append(e, ProcOf(r))[t.gen + 1] = ProcOf(r)
        /\ \A i \in 1..t.gen : Append(e, ProcOf(r))[i] = e[i]
    BY <1>2, <1>3, AppendProperties
  <1>6. exchanges \in [Logins -> Seq(Procs)]
    BY DEF TypeOK
  <1>7. /\ exchanges' \in [Logins -> Seq(Procs)]
        /\ \A l \in Logins \ {t.login} : exchanges'[l] = exchanges[l]
        /\ exchanges'[t.login] = Append(e, ProcOf(r))
    BY <1>1, <1>4, <1>5, <1>6
  <1> QED
    BY <1>1, <1>3, <1>5, <1>7 DEF e, t

LEMMA TypeInit == Init => TypeOK
  BY AuthAssumption DEF Init, TypeOK, Logins, Attempts, NoSession, NoPanel,
     Tokens, RequestStates, RefreshStates, AttemptStates, PanelStates, Spending

LEMMA PanelType ==
  /\ NoPanel \in PanelStates
  /\ \A a \in Attempts, s \in {"starting", "device", "result"} :
        [step |-> s, of |-> a] \in PanelStates
  BY AuthAssumption DEF PanelStates, NoPanel, Attempts

LEMMA TypeStep ==
  ASSUME IInv, [Next]_vars
  PROVE  TypeOK'
  <1> USE DEF IInv
  <1>1. ASSUME NEW r \in Reqs, Unauthorized(r)
        PROVE  TypeOK'
    BY <1>1, UnauthorizedEffect DEF Unauthorized, TypeOK
  <1>2. ASSUME NEW r \in Reqs, CallerAborts(r)
        PROVE  TypeOK'
    BY <1>2 DEF CallerAborts, TypeOK, RequestStates
  <1>3. ASSUME NEW r \in Reqs, Exchanged(r)
        PROVE  TypeOK'
    BY <1>3, ExchangedEffect, MovesRefresh DEF Exchanged, TypeOK
  <1>4. ASSUME NEW r \in Reqs, Refused(r)
        PROVE  TypeOK'
    BY <1>4, SettleEffect DEF Refused, TypeOK
  <1>5. ASSUME NEW r \in Reqs, TimesOut(r)
        PROVE  TypeOK'
    <2>1. lost' \subseteq Logins
      BY <1>5 DEF TimesOut, TypeOK, Shared, Used, Tokens
    <2> QED
      BY <1>5, <2>1, SettleEffect DEF TimesOut, TypeOK
  <1>6. ASSUME NEW r \in Reqs, BeginSave(r)
        PROVE  TypeOK'
    BY <1>6, MovesRefresh DEF BeginSave, TypeOK
  <1>7. ASSUME NEW r \in Reqs, EndSave(r)
        PROVE  TypeOK'
    <2>1. Renewed(refresh[r].token) \in Tokens
      BY <1>7 DEF EndSave, Shared, Used, Renewed, Tokens
    <2> QED
      BY <1>7, <2>1, SettleEffect DEF EndSave, TypeOK
  <1>8. CASE Login
    <2>1. counter' \in Nat
      BY <1>8 DEF Login, TypeOK
    <2>2. panel' \in PanelStates
      BY <1>8, LoginEffect, PanelType DEF Login
    <2> QED
      BY <1>8, <2>1, <2>2, LoginEffect DEF Login, TypeOK
  <1>9. ASSUME NEW a \in Attempts, CodeArrives(a)
        PROVE  TypeOK'
    <2>1. attempt' \in [Attempts -> AttemptStates]
      BY <1>9, MovesAttempt DEF Enters, CodeArrives
    <2> QED
      BY <1>9, <2>1, PanelType DEF CodeArrives, TypeOK
  <1>10. ASSUME NEW a \in Attempts, AttemptFails(a)
         PROVE  TypeOK'
    BY <1>10, MovesAttempt, PanelType DEF Enters, AttemptFails, TypeOK
  <1>11. ASSUME NEW a \in Attempts, PollSucceeds(a)
         PROVE  TypeOK'
    BY <1>11, MovesAttempt DEF Enters, PollSucceeds, TypeOK
  <1>12. ASSUME NEW a \in Attempts, SaveLogin(a)
         PROVE  TypeOK'
    <2>1. [login |-> a, gen |-> 0] \in Tokens
      BY AuthAssumption DEF Tokens, Logins, Attempts
    <2> QED
      BY <1>12, <2>1, MovesAttempt, PanelType DEF Enters, SaveLogin, TypeOK
  <1>13. CASE Dismiss
    <2>1. counter' \in Nat
      BY <1>13 DEF Dismiss, TypeOK
    <2>2. attempt' \in [Attempts -> AttemptStates]
      BY <1>13, DismissEffect
    <2> QED
      BY <1>13, <2>1, <2>2, PanelType DEF Dismiss, TypeOK
  <1>14. ASSUME NEW p \in Procs, Logout(p)
         PROVE  TypeOK'
    <2>1. spent' \in Spending
      <3>1. spent' = [spent EXCEPT !.logouts = @ + 1] /\ spent.logouts + 1 \in 0..MaxLogouts
        BY <1>14, AuthAssumption DEF Logout, TypeOK, Spending
      <3> QED
        BY <3>1 DEF TypeOK, Spending
    <2>2. refresh' \in [Reqs -> RefreshStates] /\ attempt' \in [Attempts -> AttemptStates]
      BY <1>14, LogoutEffect
    <2> QED
      BY <1>14, <2>1, <2>2 DEF Logout, TypeOK
  <1>15. ASSUME NEW p \in Procs, Kill(p)
         PROVE  TypeOK'
    <2>1. lost' \subseteq Logins
      BY <1>15 DEF Kill, TypeOK, Shared, Used, Tokens
    <2>2. spent' \in Spending
      BY <1>15, AuthAssumption DEF Kill, TypeOK, Spending
    <2> QED
      BY <1>15, <2>1, <2>2, KillEffect, PanelType DEF Kill, TypeOK
  <1>16. CASE UNCHANGED vars
    BY <1>16 DEF vars, TypeOK
  <1> QED
    BY <1>1, <1>2, <1>3, <1>4, <1>5, <1>6, <1>7, <1>8, <1>9, <1>10, <1>11, <1>12,
       <1>13, <1>14, <1>15, <1>16 DEF Next, RefreshStep

-----------------------------------------------------------------------------
(* Refreshes.                                                              *)

\* The steps that concern neither a refresh nor what a login has exchanged.
Elsewhere ==
    \/ \E r \in Reqs : CallerAborts(r)
    \/ \E a \in Attempts : CodeArrives(a) \/ AttemptFails(a)
    \/ Login \/ Dismiss \/ UNCHANGED vars

LEMMA ElsewhereEffect ==
  ASSUME TypeOK, Elsewhere
  PROVE  /\ UNCHANGED <<disk, exchanges, refresh, inFlight, lost>>
         /\ \A q \in Reqs : request'[q].proc = request[q].proc
  <1>1. ASSUME NEW r \in Reqs, CallerAborts(r)
        PROVE  \A q \in Reqs : request'[q].proc = request[q].proc
    BY <1>1 DEF CallerAborts, TypeOK, RequestStates
  <1> QED
    BY <1>1 DEF Elsewhere, CallerAborts, CodeArrives, AttemptFails, Login, Dismiss, vars

LEMMA Steps ==
  ASSUME [Next]_vars
  PROVE  \/ Elsewhere
         \/ \E r \in Reqs : \/ Unauthorized(r) \/ Exchanged(r) \/ Refused(r)
                            \/ TimesOut(r) \/ BeginSave(r) \/ EndSave(r)
         \/ \E a \in Attempts : PollSucceeds(a) \/ SaveLogin(a)
         \/ \E p \in Procs : Logout(p) \/ Kill(p)
  BY DEF Next, RefreshStep, Elsewhere

LEMMA SharedStep ==
  ASSUME IInv, [Next]_vars
  PROVE  Shared'
  <1> USE DEF IInv, Shared, Used, ProcOf
  <1>1. ASSUME NEW r \in Reqs, Unauthorized(r)
        PROVE  Shared'
    <2>1. \A q \in Reqs : request[q].proc \in Procs /\ q # NoReq
      BY AuthAssumption DEF TypeOK, RequestStates, NoReq
    <2>2. \A q \in Reqs : request'[q].proc = request[q].proc
      BY <1>1, UnauthorizedEffect
    <2>3. CASE UNCHANGED <<refresh, inFlight>>
      BY <2>2, <2>3
    <2>4. CASE ~UNCHANGED <<refresh, inFlight>>
      <3>1. \A q \in Reqs \ {r} : Used(q)' =>
               request[q].proc # request[r].proc
               /\ inFlight'[request[q].proc] = inFlight[request[q].proc]
        BY <1>1, <2>1, <2>4, UnauthorizedEffect DEF TypeOK
      <3>2. refresh'[r].token \in Tokens /\ inFlight'[request[r].proc] = r
        BY <1>1, <2>1, <2>4, UnauthorizedEffect DEF TypeOK
      <3> QED
        BY <1>1, <2>2, <2>4, <3>1, <3>2, UnauthorizedEffect
    <2> QED
      BY <2>3, <2>4
  <1>2. ASSUME NEW r \in Reqs, Exchanged(r)
        PROVE  Shared'
    BY <1>2, MovesRefresh DEF Exchanged
  <1>3. ASSUME NEW r \in Reqs, Refused(r) \/ TimesOut(r) \/ EndSave(r)
        PROVE  Shared'
    <2>1. Settle(r)
      BY <1>3 DEF Refused, TimesOut, EndSave
    <2>2. \A p \in Procs : inFlight[p] # r => inFlight'[p] = inFlight[p]
      BY <2>1 DEF Settle
    <2>3. \A q \in Reqs : request[q].proc \in Procs
      BY DEF TypeOK, RequestStates
    <2> QED
      BY <2>1, <2>2, <2>3, SettleEffect
  <1>4. ASSUME NEW r \in Reqs, BeginSave(r)
        PROVE  Shared'
    BY <1>4, MovesRefresh DEF BeginSave
  <1>5. ASSUME NEW a \in Attempts, PollSucceeds(a) \/ SaveLogin(a)
        PROVE  Shared'
    BY <1>5 DEF PollSucceeds, SaveLogin
  <1>6. ASSUME NEW p \in Procs, Logout(p)
        PROVE  Shared'
    BY <1>6, LogoutEffect DEF Logout
  <1>7. ASSUME NEW p \in Procs, Kill(p)
        PROVE  Shared'
    <2>1. inFlight' = [inFlight EXCEPT ![p] = NoReq]
      BY <1>7 DEF Kill
    <2>2. \A q \in Reqs : request[q].proc \in Procs
      BY DEF TypeOK, RequestStates
    <2> QED
      BY <1>7, <2>1, <2>2, KillEffect DEF TypeOK
  <1>8. CASE Elsewhere
    BY <1>8, ElsewhereEffect
  <1> QED
    BY <1>1, <1>2, <1>3, <1>4, <1>5, <1>6, <1>7, <1>8, Steps

LEMMA BoundedStep ==
  ASSUME IInv, [Next]_vars
  PROVE  Bounded'
  <1> USE DEF IInv, Bounded
  <1>1. ASSUME NEW r \in Reqs, Unauthorized(r)
        PROVE  Bounded'
    BY <1>1, UnauthorizedEffect DEF Unauthorized
  <1>2. ASSUME NEW r \in Reqs, Exchanged(r)
        PROVE  Bounded'
    <2>1. \A u \in Tokens : u.gen <= Len(exchanges[u.login])
                            => u.gen <= Len(exchanges'[u.login])
      <3> DEFINE t == refresh[r].token
      <3>1. /\ t \in Tokens /\ Len(exchanges[t.login]) = t.gen
            /\ Len(exchanges'[t.login]) = t.gen + 1
            /\ \A l \in Logins \ {t.login} : exchanges'[l] = exchanges[l]
        BY <1>2, ExchangedEffect
      <3> HIDE DEF t
      <3> QED
        BY <3>1 DEF Tokens
    <2>2. disk' = disk
      BY <1>2 DEF Exchanged
    <2>3. \A q \in Reqs : refresh'[q].pc = "posted" =>
            /\ refresh[q].pc = "posted" /\ refresh'[q].token = refresh[q].token
            /\ refresh[q].token \in Tokens
      BY <1>2, MovesRefresh DEF Exchanged, Shared, Used
    <2> QED
      BY <2>1, <2>2, <2>3
  <1>3. ASSUME NEW r \in Reqs, Refused(r) \/ TimesOut(r)
        PROVE  Bounded'
    BY <1>3, SettleEffect DEF Refused, TimesOut
  <1>4. ASSUME NEW r \in Reqs, BeginSave(r)
        PROVE  Bounded'
    BY <1>4, MovesRefresh, LoadedToken DEF BeginSave
  <1>5. ASSUME NEW r \in Reqs, EndSave(r)
        PROVE  Bounded'
    <2> DEFINE t == refresh[r].token
    <2>1. t \in Tokens /\ Len(exchanges[t.login]) = t.gen + 1
      BY <1>5 DEF EndSave, Newest, IsNewest, Answered, Shared, Used
    <2>2. Renewed(t).login = t.login /\ Renewed(t).gen = t.gen + 1
      BY <2>1 DEF Renewed, Tokens
    <2>3. exchanges' = exchanges /\ (disk' = disk \/ disk' = Renewed(t))
      BY <1>5 DEF EndSave
    <2>4. t.gen \in Nat
      BY <2>1 DEF Tokens
    <2> HIDE DEF t
    <2>5. disk' \in Tokens => disk'.gen <= Len(exchanges'[disk'.login])
      BY <2>1, <2>2, <2>3, <2>4
    <2> QED
      BY <1>5, <2>3, <2>5, SettleEffect DEF EndSave
  <1>6. ASSUME NEW a \in Attempts, PollSucceeds(a)
        PROVE  Bounded'
    BY <1>6, LoadedToken DEF PollSucceeds
  <1>7. ASSUME NEW a \in Attempts, SaveLogin(a)
        PROVE  Bounded'
    <2>1. exchanges[a] = <<>>
      BY <1>7 DEF SaveLogin, Traceless, MayBeDismissed, Unsaved
    <2> QED
      BY <1>7, <2>1 DEF SaveLogin
  <1>8. ASSUME NEW p \in Procs, Logout(p)
        PROVE  Bounded'
    BY <1>8, LogoutEffect, LoadedToken DEF Logout
  <1>9. ASSUME NEW p \in Procs, Kill(p)
        PROVE  Bounded'
    BY <1>9, KillEffect DEF Kill
  <1>10. CASE Elsewhere
    BY <1>10, ElsewhereEffect
  <1> QED
    BY <1>1, <1>2, <1>3, <1>4, <1>5, <1>6, <1>7, <1>8, <1>9, <1>10, Steps

LEMMA NewestStep ==
  ASSUME IInv, [Next]_vars
  PROVE  Newest'
  <1> USE DEF IInv
  <1>0. \A q \in Reqs : Used(q) => refresh[q].token.gen \in Nat /\ refresh[q].token.login \in Logins
    BY DEF Shared, Tokens
  <1>1. ASSUME NEW r \in Reqs, Unauthorized(r)
        PROVE  Newest'
    <2>1. disk' = disk /\ exchanges' = exchanges
      BY <1>1 DEF Unauthorized
    <2> QED
      BY <1>1, <2>1, UnauthorizedEffect DEF Newest, IsNewest, Answered, Used, ProcOf
  <1>2. ASSUME NEW r \in Reqs, Exchanged(r)
        PROVE  Newest'
    <2>1. UNCHANGED <<disk, request>>
      BY <1>2 DEF Exchanged
    <2> DEFINE t == refresh[r].token
    <2>2. /\ refresh[r].pc = "posted" /\ t.gen \in Nat /\ t.login \in Logins
          /\ Len(exchanges[t.login]) = t.gen
          /\ Len(exchanges'[t.login]) = t.gen + 1
          /\ exchanges'[t.login][t.gen + 1] = ProcOf(r)
          /\ \A l \in Logins \ {t.login} : exchanges'[l] = exchanges[l]
      BY <1>2, ExchangedEffect DEF Exchanged, Tokens
    <2>3. \A q \in Reqs : refresh[q].pc \in Answered => refresh[q].token.login # t.login
      <3> SUFFICES ASSUME NEW q \in Reqs, refresh[q].pc \in Answered,
                          refresh[q].token.login = t.login
                   PROVE  FALSE
        OBVIOUS
      <3>1. /\ Len(exchanges[t.login]) = refresh[q].token.gen + 1
            /\ refresh[r].token.gen <= refresh[q].token.gen
        BY <2>2 DEF Newest, IsNewest, Used
      <3>2. refresh[q].token.gen \in Nat
        BY <1>0 DEF Used, Answered
      <3> QED
        BY <2>2, <3>1, <3>2
    <2>4. \A q \in Reqs : refresh[q].pc = "posted" /\ refresh[q].token.login = t.login
            => refresh[q].token.gen <= t.gen
      BY <2>2 DEF Bounded
    <2>5. disk.login = t.login => disk.gen <= t.gen
      <3>1. \A l \in Logins : l # NoSession.login /\ l # Torn.login
        BY AuthAssumption DEF NoSession, Torn, Logins
      <3> QED
        BY <2>2, <3>1 DEF Bounded, TypeOK
    <2>6. \A q \in Reqs : /\ refresh'[q].token = refresh[q].token
                          /\ refresh'[q].pc = IF q = r THEN "answering" ELSE refresh[q].pc
      BY <1>2, MovesRefresh DEF Exchanged
    <2> HIDE DEF t
    <2>7. \A q \in Reqs : Used(q) /\ refresh[q].pc \notin Answered => refresh[q].pc = "posted"
      BY DEF TypeOK, RefreshStates, Used, Answered
    <2>8. ASSUME NEW q \in Reqs, q # r, refresh[q].pc \in Answered
          PROVE  IsNewest(q)'
      <3>1. /\ refresh[q].token.login # t.login
            /\ exchanges'[refresh[q].token.login] = exchanges[refresh[q].token.login]
        BY <1>0, <2>2, <2>3, <2>8 DEF Used, Answered
      <3>2. refresh[r].token = t
        BY DEF t
      <3> QED
        BY <2>1, <2>6, <2>8, <3>1, <3>2 DEF Newest, IsNewest, Used, ProcOf
    <2>9. IsNewest(r)'
      <3>1. refresh'[r].token = t
        BY <2>6 DEF t
      <3>2. \A q \in Reqs \ {r} : Used(q)' /\ refresh'[q].token.login = t.login =>
               refresh'[q].pc = "posted" /\ refresh'[q].token.gen <= t.gen
        BY <2>3, <2>4, <2>6, <2>7 DEF Used
      <3> QED
        BY <2>1, <2>2, <2>5, <2>6, <3>1, <3>2 DEF IsNewest, ProcOf
    <2> QED
      BY <2>6, <2>8, <2>9 DEF Newest
  <1>3. ASSUME NEW r \in Reqs, Refused(r) \/ TimesOut(r)
        PROVE  Newest'
    <2>1. disk' = disk /\ exchanges' = exchanges
      BY <1>3 DEF Refused, TimesOut
    <2> QED
      BY <1>3, <2>1, SettleEffect DEF Refused, TimesOut, Newest, IsNewest, Answered, Used, ProcOf
  <1>4. ASSUME NEW r \in Reqs, BeginSave(r)
        PROVE  Newest'
    <2>1. disk' = Torn /\ UNCHANGED <<exchanges, request>>
      BY <1>4 DEF BeginSave
    <2>2. \A q \in Reqs : /\ refresh'[q].pc = "posted" <=> refresh[q].pc = "posted"
                          /\ refresh'[q].pc \in Answered <=> refresh[q].pc \in Answered
                          /\ Used(q)' <=> Used(q)
                          /\ refresh'[q].token = refresh[q].token
      BY <1>4, MovesRefresh DEF BeginSave, Answered, Used
    <2>3. \A l \in Logins : l # Torn.login
      BY AuthAssumption DEF Torn, Logins
    <2> QED
      BY <1>0, <2>1, <2>2, <2>3 DEF Newest, IsNewest, ProcOf, Used, Answered
  <1>5. ASSUME NEW r \in Reqs, EndSave(r)
        PROVE  Newest'
    <2> DEFINE t == refresh[r].token
    <2>1. IsNewest(r) /\ Renewed(t).login = t.login
      BY <1>5 DEF EndSave, Newest, Answered, Shared, Used, Renewed, Tokens
    <2>2. exchanges' = exchanges /\ (disk' = disk \/ disk' = Renewed(t))
      BY <1>5 DEF EndSave
    <2>3. /\ \A q \in Reqs : refresh'[q].token = refresh[q].token
          /\ \A q \in Reqs : refresh'[q].pc = IF q = r THEN "over" ELSE refresh[q].pc
          /\ \A q \in Reqs : request'[q].proc = request[q].proc
      BY <1>5, SettleEffect DEF EndSave
    <2>4. \A q \in Reqs \ {r} : refresh[q].pc \in Answered => refresh[q].token.login # t.login
      BY <2>1 DEF IsNewest, Used, Answered
    <2> HIDE DEF t
    <2> QED
      BY <2>1, <2>2, <2>3, <2>4 DEF Newest, IsNewest, Answered, Used, ProcOf
  <1>6. ASSUME NEW a \in Attempts, PollSucceeds(a)
        PROVE  Newest'
    <2>1. \A l \in Logins : l # Torn.login
      BY AuthAssumption DEF Torn, Logins
    <2> QED
      BY <1>0, <1>6, <2>1 DEF PollSucceeds, Newest, IsNewest, ProcOf, Used, Answered
  <1>7. ASSUME NEW a \in Attempts, SaveLogin(a)
        PROVE  Newest'
    <2>1. \A q \in Reqs : Used(q) => refresh[q].token.login # a
      BY <1>7 DEF SaveLogin, Traceless, MayBeDismissed, Unsaved
    <2> QED
      BY <1>7, <2>1 DEF SaveLogin, Newest, IsNewest, ProcOf, Used, Answered
  <1>8. ASSUME NEW p \in Procs, Logout(p)
        PROVE  Newest'
    <2>1. disk' = NoSession /\ UNCHANGED <<exchanges, request>>
      BY <1>8 DEF Logout
    <2>2. \A q \in Reqs : /\ refresh'[q].pc = "posted" <=> refresh[q].pc = "posted"
                          /\ refresh'[q].pc \in Answered <=> refresh[q].pc \in Answered
                          /\ Used(q)' <=> Used(q)
                          /\ refresh'[q].token = refresh[q].token
      BY <1>8, LogoutEffect DEF Answered, Used
    <2>3. \A l \in Logins : l # NoSession.login
      BY AuthAssumption DEF NoSession, Logins
    <2> QED
      BY <1>0, <2>1, <2>2, <2>3, SMTT(30) DEF Newest, IsNewest, ProcOf, Used, Answered
  <1>9. ASSUME NEW p \in Procs, Kill(p)
        PROVE  Newest'
    <2>1. disk' = disk /\ exchanges' = exchanges
      BY <1>9 DEF Kill
    <2>2. \A q \in Reqs : Used(q)' => refresh'[q].pc = refresh[q].pc /\ Used(q)
      BY <1>9, KillEffect DEF Used
    <2> QED
      BY <1>9, <2>1, <2>2, KillEffect DEF Newest, IsNewest, Answered, Used, ProcOf
  <1>10. CASE Elsewhere
    BY <1>10, ElsewhereEffect DEF Newest, IsNewest, Answered, Used, ProcOf
  <1> QED
    BY <1>1, <1>2, <1>3, <1>4, <1>5, <1>6, <1>7, <1>8, <1>9, <1>10, Steps

\* Whoever may still bring the token that succeeds the file's.
Awaited(r) == refresh[r].pc = "answering" /\ refresh[r].token = disk

LEMMA UsableStep ==
  ASSUME IInv, [Next]_vars
  PROVE  SessionStaysUsable'
  <1> USE DEF IInv
  <1>0. /\ Loaded # NoSession /\ disk.login \notin lost
              => Current(disk) \/ \E r \in Reqs : Awaited(r)
        /\ disk' = disk /\ Loaded' # NoSession => Loaded # NoSession /\ disk \in Tokens
    BY LoadedToken DEF SessionStaysUsable, Awaited, Loaded
  <1>1. ASSUME NEW r \in Reqs, Unauthorized(r)
        PROVE  SessionStaysUsable'
    <2>1. UNCHANGED <<disk, exchanges, lost>>
      BY <1>1 DEF Unauthorized
    <2>2. \A q \in Reqs : Awaited(q) => Awaited(q)'
      <3>1. CASE refresh' = refresh
        BY <2>1, <3>1 DEF Awaited
      <3>2. CASE refresh' # refresh
        <4>1. \A q \in Reqs : refresh[q].pc = "answering" => q # r /\ refresh'[q] = refresh[q]
          BY <1>1, <3>2, UnauthorizedEffect, AuthAssumption DEF Shared, Used, NoReq
        <4> QED
          BY <2>1, <4>1 DEF Awaited
      <3> QED
        BY <3>1, <3>2
    <2> QED
      BY <1>0, <2>1, <2>2 DEF SessionStaysUsable, Awaited, Current
  <1>2. ASSUME NEW r \in Reqs, Exchanged(r)
        PROVE  SessionStaysUsable'
    <2> DEFINE t == refresh[r].token
    <2>1. /\ disk' = disk /\ lost' = lost /\ refresh[r].pc = "posted"
          /\ t \in Tokens /\ Len(exchanges[t.login]) = t.gen
          /\ \A l \in Logins \ {t.login} : exchanges'[l] = exchanges[l]
      BY <1>2, ExchangedEffect DEF Exchanged
    <2>2. \A q \in Reqs : /\ refresh'[q].token = refresh[q].token
                          /\ refresh'[q].pc = IF q = r THEN "answering" ELSE refresh[q].pc
      BY <1>2, MovesRefresh DEF Exchanged
    <2>3. \A q \in Reqs : Awaited(q) => Awaited(q)'
      BY <2>1, <2>2 DEF Awaited
    <2>4. disk = t => Awaited(r)'
      BY <2>1, <2>2 DEF Awaited
    <2> HIDE DEF t
    <2>5. disk \in Tokens /\ Current(disk) => Current(disk)' \/ disk = t
      BY <2>1 DEF Current, Tokens
    <2> QED
      BY <1>0, <2>1, <2>3, <2>4, <2>5 DEF SessionStaysUsable, Awaited
  <1>3. ASSUME NEW r \in Reqs, Refused(r) \/ TimesOut(r)
        PROVE  SessionStaysUsable'
    <2>1. disk' = disk /\ exchanges' = exchanges /\ lost \subseteq lost'
      BY <1>3 DEF Refused, TimesOut
    <2>2. Awaited(r) => disk.login \in lost'
      BY <1>3 DEF Refused, TimesOut, Awaited
    <2>3. \A q \in Reqs \ {r} : Awaited(q) => Awaited(q)'
      BY <1>3, <2>1, SettleEffect DEF Refused, TimesOut, Awaited
    <2> QED
      BY <1>0, <2>1, <2>2, <2>3 DEF SessionStaysUsable, Awaited, Current
  <1>4. ASSUME NEW r \in Reqs, EndSave(r)
        PROVE  SessionStaysUsable'
    <2>1. exchanges' = exchanges /\ lost' = lost
      BY <1>4 DEF EndSave
    <2>2. CASE refresh[r].pc = "saving"
      <3> DEFINE t == refresh[r].token
      <3>1. t \in Tokens /\ Len(exchanges[t.login]) = t.gen + 1
        BY <2>2 DEF Newest, IsNewest, Answered, Shared, Used
      <3>2. disk' = Renewed(t)
        BY <1>4, <2>2 DEF EndSave
      <3> HIDE DEF t
      <3>3. Current(disk)'
        BY <2>1, <3>1, <3>2 DEF Current, Renewed, Tokens
      <3> QED
        BY <3>3 DEF SessionStaysUsable
    <2>3. CASE refresh[r].pc # "saving"
      <3>1. disk' = disk
        BY <1>4, <2>3 DEF EndSave
      <3>2. \A q \in Reqs : Awaited(q) => Awaited(q)'
        BY <1>4, <3>1, SettleEffect DEF EndSave, Awaited
      <3> QED
        BY <1>0, <2>1, <3>1, <3>2 DEF SessionStaysUsable, Awaited, Current
    <2> QED
      BY <2>2, <2>3
  <1>5. ASSUME NEW a \in Attempts, SaveLogin(a)
        PROVE  SessionStaysUsable'
    <2>1. UNCHANGED <<exchanges, lost, refresh>>
      BY <1>5 DEF SaveLogin
    <2>2. CASE attempt[a].pc = "saving"
      <3>1. exchanges[a] = <<>>
        BY <2>2 DEF Traceless, MayBeDismissed, Unsaved
      <3>2. Current(disk)'
        BY <1>5, <2>1, <2>2, <3>1 DEF SaveLogin, Current
      <3> QED
        BY <3>2 DEF SessionStaysUsable
    <2>3. CASE attempt[a].pc # "saving"
      <3>1. disk' = disk
        BY <1>5, <2>3 DEF SaveLogin
      <3> QED
        BY <1>0, <2>1, <3>1 DEF SessionStaysUsable, Awaited, Current
    <2> QED
      BY <2>2, <2>3
  <1>6. CASE disk' = NoSession \/ disk' = Torn
    BY <1>6 DEF SessionStaysUsable, Loaded
  <1>7. ASSUME NEW a \in Attempts, PollSucceeds(a), disk' # Torn
        PROVE  SessionStaysUsable'
    <2>1. UNCHANGED <<disk, exchanges, lost, refresh>>
      BY <1>7 DEF PollSucceeds
    <2> QED
      BY <1>0, <2>1 DEF SessionStaysUsable, Awaited, Current
  <1>8. ASSUME NEW p \in Procs, Kill(p)
        PROVE  SessionStaysUsable'
    <2>1. disk' = disk /\ exchanges' = exchanges /\ lost \subseteq lost'
      BY <1>8 DEF Kill
    <2>2. \A q \in Reqs : Awaited(q) /\ ProcOf(q) = p => disk.login \in lost'
      BY <1>8 DEF Kill, Awaited
    <2>3. \A q \in Reqs : Awaited(q) /\ ProcOf(q) # p => Awaited(q)'
      BY <1>8, <2>1, KillEffect DEF Awaited
    <2> QED
      BY <1>0, <2>1, <2>2, <2>3 DEF SessionStaysUsable, Awaited, Current
  <1>9. CASE Elsewhere
    BY <1>0, <1>9, ElsewhereEffect DEF SessionStaysUsable, Awaited, Current
  <1> QED
    BY <1>1, <1>2, <1>3, <1>4, <1>5, <1>6, <1>7, <1>8, <1>9, Steps DEF BeginSave, Logout

\* An offer that is refused is of a token that another process exchanged.
LEMMA OnceStep ==
  ASSUME IInv, [Next]_vars
  PROVE  NoTokenUsedTwice'
  <1> USE DEF IInv
  <1>1. ASSUME NEW r \in Reqs, Unauthorized(r)
        PROVE  NoTokenUsedTwice'
    <2>1. UNCHANGED <<disk, exchanges, lost>>
      BY <1>1 DEF Unauthorized
    <2>2. \A q \in Reqs : request'[q].proc = request[q].proc
      BY <1>1, UnauthorizedEffect
    <2>3. CASE refresh' = refresh
      BY <2>1, <2>2, <2>3 DEF NoTokenUsedTwice, Current, ProcOf
    <2>4. CASE refresh' # refresh
      <3>1. /\ Loaded # NoSession /\ inFlight[ProcOf(r)] = NoReq
            /\ \A q \in Reqs \ {r} : refresh'[q] = refresh[q]
            /\ refresh'[r].token = disk
        BY <1>1, <2>4, UnauthorizedEffect, LoadedToken
      <3>2. ASSUME NEW q \in Reqs, refresh[q].pc = "answering", refresh[q].token = disk
            PROVE  exchanges[disk.login][disk.gen + 1] # ProcOf(r)
        <4>1. inFlight[ProcOf(q)] = q /\ q # NoReq
          BY <3>2, AuthAssumption DEF Shared, Used, NoReq
        <4>2. exchanges[disk.login][disk.gen + 1] = ProcOf(q)
          BY <3>2 DEF Newest, IsNewest, Answered
        <4> QED
          BY <3>1, <4>1, <4>2
      <3>3. ~Current(disk) /\ disk.login \notin lost
              => exchanges[disk.login][disk.gen + 1] # ProcOf(r)
        BY <3>1, <3>2 DEF SessionStaysUsable
      <3> QED
        BY <2>1, <2>2, <3>1, <3>3 DEF NoTokenUsedTwice, Current, ProcOf
    <2> QED
      BY <2>3, <2>4
  <1>2. ASSUME NEW r \in Reqs, Exchanged(r)
        PROVE  NoTokenUsedTwice'
    <2> DEFINE t == refresh[r].token
    <2>1. /\ UNCHANGED <<request, lost>> /\ refresh[r].pc = "posted"
          /\ t \in Tokens /\ Len(exchanges[t.login]) = t.gen
          /\ exchanges'[t.login][t.gen + 1] = ProcOf(r)
          /\ \A l \in Logins \ {t.login} : exchanges'[l] = exchanges[l]
          /\ \A i \in 1..t.gen : exchanges'[t.login][i] = exchanges[t.login][i]
      BY <1>2, ExchangedEffect DEF Exchanged
    <2>2. \A q \in Reqs : /\ refresh'[q].token = refresh[q].token
                          /\ refresh'[q].pc = IF q = r THEN "answering" ELSE refresh[q].pc
      BY <1>2, MovesRefresh DEF Exchanged
    <2> SUFFICES ASSUME NEW q \in Reqs, refresh'[q].pc = "posted",
                        ~(LET u == refresh[q].token IN Current(u) \/ u.login \in lost)'
                 PROVE  (LET u == refresh[q].token
                         IN  exchanges[u.login][u.gen + 1] # ProcOf(q))'
      BY DEF NoTokenUsedTwice
    <2> DEFINE u == refresh[q].token
    <2>3. /\ q # r /\ refresh'[q].token = u /\ refresh[q].pc = "posted"
          /\ u \in Tokens /\ u.login \notin lost /\ ProcOf(q)' = ProcOf(q)
      BY <2>1, <2>2 DEF Shared, Used, ProcOf
    <2>4. u.gen <= Len(exchanges[u.login])
      BY <2>3 DEF Bounded
    <2>5. ~Current(u) => exchanges[u.login][u.gen + 1] # ProcOf(q)
      BY <2>3 DEF NoTokenUsedTwice
    <2>6. ProcOf(q) # ProcOf(r)
      BY <2>1, <2>3 DEF Shared, Used
    <2> HIDE DEF t, u
    <2>7. CASE u.login # t.login
      BY <2>1, <2>3, <2>5, <2>7 DEF Current, Tokens
    <2>8. CASE u.login = t.login /\ u.gen = t.gen
      BY <2>1, <2>3, <2>6, <2>8
    <2>9. CASE u.login = t.login /\ u.gen # t.gen
      <3>1. u.gen + 1 \in 1..t.gen /\ ~Current(u)
        BY <2>1, <2>3, <2>4, <2>9 DEF Tokens, Current
      <3> QED
        BY <2>1, <2>3, <2>5, <2>9, <3>1
    <2> QED
      BY <2>7, <2>8, <2>9
  <1>3. CASE UNCHANGED exchanges /\ lost \subseteq lost'
             /\ \A q \in Reqs : /\ refresh'[q].pc = "posted" => refresh[q].pc = "posted"
                                /\ refresh'[q].token = refresh[q].token
                                /\ request'[q].proc = request[q].proc
    BY <1>3 DEF NoTokenUsedTwice, Current, ProcOf
  <1>4. ASSUME NEW r \in Reqs, Refused(r) \/ TimesOut(r) \/ EndSave(r)
        PROVE  <1>3!1
    BY <1>4, SettleEffect DEF Refused, TimesOut, EndSave
  <1>5. ASSUME NEW r \in Reqs, BeginSave(r)
        PROVE  <1>3!1
    BY <1>5, MovesRefresh DEF BeginSave
  <1>6. ASSUME NEW a \in Attempts, PollSucceeds(a) \/ SaveLogin(a)
        PROVE  <1>3!1
    BY <1>6 DEF PollSucceeds, SaveLogin
  <1>7. ASSUME NEW p \in Procs, Logout(p) \/ Kill(p)
        PROVE  <1>3!1
    <2>1. CASE Logout(p)
      BY <2>1, LogoutEffect DEF Logout
    <2>2. CASE Kill(p)
      BY <2>2, KillEffect DEF Kill
    <2> QED
      BY <1>7, <2>1, <2>2
  <1>8. CASE Elsewhere
    BY <1>8, ElsewhereEffect DEF NoTokenUsedTwice, Current, ProcOf
  <1> QED
    BY <1>1, <1>2, <1>3, <1>4, <1>5, <1>6, <1>7, <1>8, Steps

-----------------------------------------------------------------------------
(* Logins.                                                                 *)

LEMMA NumberedStep ==
  ASSUME IInv, [Next]_vars
  PROVE  Numbered' /\ Opened'
  <1> USE DEF IInv, Numbered, Opened
  <1>0. /\ counter \in Nat /\ spent.logins \in 0..MaxLogins
        /\ \A a \in Attempts : attempt[a].number \in Int /\ attempt[a].aborted \in BOOLEAN
    BY DEF TypeOK, AttemptStates, Spending
  <1>1. CASE Login
    <2>1. counter' = counter + 1 /\ panel' = [step |-> "starting", of |-> spent.logins + 1]
      BY <1>1 DEF Login
    <2>2. \A a \in Attempts : a \in Nat
      BY DEF Attempts
    <2> QED
      BY <1>0, <1>1, <2>1, <2>2, LoginEffect
  <1>2. ASSUME NEW a \in Attempts, CodeArrives(a)
        PROVE  Numbered' /\ Opened'
    <2>1. counter' = counter /\ spent' = spent /\ attempt[a].pc = "starting"
          /\ (panel' = panel \/ Shows(a))
      BY <1>2 DEF CodeArrives
    <2>2. PICK s \in {"ended", "polling"} : Enters(a, s)
      BY <1>2 DEF CodeArrives, Enters
    <2>3. \A b \in Attempts : /\ attempt'[b].number = attempt[b].number
                              /\ attempt'[b].aborted = attempt[b].aborted
                              /\ attempt'[b].pc = IF b = a THEN s ELSE attempt[b].pc
      BY <2>2, MovesAttempt
    <2> QED
      BY <1>0, <2>1, <2>3 DEF Shows
  <1>3. ASSUME NEW a \in Attempts, AttemptFails(a)
        PROVE  Numbered' /\ Opened'
    <2>1. counter' = counter /\ spent' = spent
          /\ (panel' = panel \/ (Shows(a)))
      BY <1>3 DEF AttemptFails
    <2>2. \A b \in Attempts : /\ attempt'[b].number = attempt[b].number
                              /\ attempt'[b].aborted = attempt[b].aborted
                              /\ attempt'[b].pc = attempt[b].pc \/ attempt'[b].pc = "ended"
      BY <1>3, MovesAttempt DEF Enters, AttemptFails
    <2> QED
      BY <1>0, <2>1, <2>2 DEF Shows
  <1>4. ASSUME NEW a \in Attempts, PollSucceeds(a)
        PROVE  Numbered' /\ Opened'
    <2>1. UNCHANGED <<counter, spent, panel>> /\ attempt[a].pc = "polling"
      BY <1>4 DEF PollSucceeds
    <2>2. \A b \in Attempts :
            /\ attempt'[b].number = attempt[b].number
            /\ attempt'[b].aborted = attempt[b].aborted
            /\ \/ attempt'[b].pc = attempt[b].pc \/ attempt'[b].pc = "ended"
               \/ b = a /\ ~attempt[b].aborted
      BY <1>4, MovesAttempt DEF Enters, PollSucceeds, Discards
    <2> QED
      BY <1>0, <2>1, <2>2
  <1>5. ASSUME NEW a \in Attempts, SaveLogin(a)
        PROVE  Numbered' /\ Opened'
    <2>1. UNCHANGED <<counter, spent>> /\ (panel' = panel \/ panel' = NoPanel)
      BY <1>5 DEF SaveLogin
    <2>2. \A b \in Attempts : /\ attempt'[b].number = attempt[b].number
                              /\ attempt'[b].aborted = attempt[b].aborted
                              /\ attempt'[b].pc = attempt[b].pc \/ attempt'[b].pc = "ended"
      BY <1>5, MovesAttempt DEF Enters, SaveLogin
    <2> QED
      BY <1>0, <2>1, <2>2
  <1>6. CASE Dismiss
    <2>1. counter' = counter + 1 /\ spent' = spent /\ panel' = NoPanel
          /\ (\A a \in Attempts : attempt[a].pc \notin Saving)
      BY <1>6 DEF Dismiss, Runs, Writing
    <2> QED
      BY <1>0, <1>6, <2>1, DismissEffect
  <1>7. ASSUME NEW p \in Procs, Logout(p)
        PROVE  Numbered' /\ Opened'
    <2>1. UNCHANGED <<counter, panel>> /\ spent'.logins = spent.logins
      BY <1>7 DEF Logout, TypeOK, Spending
    <2> QED
      BY <1>0, <1>7, <2>1, LogoutEffect
  <1>8. ASSUME NEW p \in Procs, Kill(p)
        PROVE  Numbered' /\ Opened'
    <2>1. counter' = counter /\ spent'.logins = spent.logins
          /\ (panel' = panel \/ panel' = NoPanel)
      BY <1>8 DEF Kill, TypeOK, Spending
    <2> QED
      BY <1>0, <1>8, <2>1, KillEffect
  <1>9. CASE UNCHANGED <<attempt, counter, panel, spent>>
    BY <1>9
  <1> QED
    BY <1>1, <1>2, <1>3, <1>4, <1>5, <1>6, <1>7, <1>8, <1>9
       DEF Next, RefreshStep, Unauthorized, CallerAborts, Exchanged, Refused, TimesOut,
           BeginSave, EndSave, vars

\* An attempt that could no longer be dismissed never can be again.
LEMMA DismissalsExpire ==
  ASSUME IInv, [Next]_vars, NEW a \in Attempts, MayBeDismissed(a)'
  PROVE  MayBeDismissed(a)
  <1> USE DEF IInv, MayBeDismissed
  <1>0. spent.logins \in Nat /\ a \in Nat
    BY DEF TypeOK, Spending, Attempts
  <1>1. CASE Login
    <2>1. panel = NoPanel /\ spent'.logins = spent.logins + 1
      BY <1>1, LoginEffect DEF Login
    <2> QED
      BY <1>0, <1>1, <2>1, LoginEffect
  <1>2. ASSUME NEW b \in Attempts, CodeArrives(b) \/ AttemptFails(b)
        PROVE  MayBeDismissed(a)
    <2>1. /\ spent' = spent /\ attempt[b].pc # "ended"
          /\ panel' = panel \/ Shows(b)
      BY <1>2 DEF CodeArrives, AttemptFails
    <2>2. PICK s \in {"ended", "polling"} : Enters(b, s)
      BY <1>2 DEF CodeArrives, AttemptFails, Enters
    <2>3. /\ attempt'[a].aborted = attempt[a].aborted
          /\ attempt'[a].pc = IF a = b THEN s ELSE attempt[a].pc
      BY <2>2, MovesAttempt
    <2>4. Shows(b) => b = spent.logins
      BY DEF Shows, Numbered, TypeOK
    <2> QED
      BY <2>1, <2>3, <2>4
  <1>3. ASSUME NEW b \in Attempts, PollSucceeds(b) \/ SaveLogin(b)
        PROVE  MayBeDismissed(a)
    <2>1. /\ spent' = spent /\ attempt[b].pc # "ended"
          /\ panel' = panel \/ panel' = NoPanel
      BY <1>3 DEF PollSucceeds, SaveLogin
    <2>2. PICK s \in {"ended", "saving"} : Enters(b, s)
      BY <1>3 DEF PollSucceeds, SaveLogin, Enters
    <2>3. /\ attempt'[a].aborted = attempt[a].aborted
          /\ attempt'[a].pc = IF a = b THEN s ELSE attempt[a].pc
      BY <2>2, MovesAttempt
    <2> QED
      BY <2>1, <2>3
  <1>4. CASE Dismiss
    BY <1>4, DismissEffect DEF Dismiss
  <1>5. ASSUME NEW p \in Procs, Logout(p)
        PROVE  MayBeDismissed(a)
    <2>1. panel' = panel /\ spent'.logins = spent.logins
      BY <1>5 DEF Logout, TypeOK, Spending
    <2> QED
      BY <1>5, <2>1, LogoutEffect
  <1>6. ASSUME NEW p \in Procs, Kill(p)
        PROVE  MayBeDismissed(a)
    <2>1. (panel' = panel \/ panel' = NoPanel) /\ spent'.logins = spent.logins
      BY <1>6 DEF Kill, TypeOK, Spending
    <2> QED
      BY <1>6, <2>1, KillEffect
  <1>7. CASE UNCHANGED <<attempt, panel, spent>>
    BY <1>7
  <1> QED
    BY <1>1, <1>2, <1>3, <1>4, <1>5, <1>6, <1>7
       DEF Next, RefreshStep, Unauthorized, CallerAborts, Exchanged, Refused, TimesOut,
           BeginSave, EndSave, vars

LEMMA TracelessStep ==
  ASSUME IInv, [Next]_vars
  PROVE  Traceless'
  <1> USE DEF IInv
  <1> SUFFICES ASSUME NEW a \in Attempts, MayBeDismissed(a)'
               PROVE  Unsaved(a)'
    BY DEF Traceless, Attempts
  <1>0. MayBeDismissed(a) /\ Unsaved(a)
    BY DismissalsExpire DEF Traceless
  <1>a. /\ exchanges[a] = <<>> /\ disk.login # a
        /\ \A r \in Reqs : refresh[r].pc # "over" => refresh[r].token.login # a
    BY <1>0 DEF Unsaved, Used
  <1>b. a \in Logins /\ NoSession.login # a /\ Torn.login # a
    BY AuthAssumption DEF Attempts, Logins, NoSession, Torn
  <1>1. ASSUME NEW r \in Reqs, Unauthorized(r)
        PROVE  Unsaved(a)'
    <2>1. disk' = disk /\ exchanges' = exchanges
      BY <1>1 DEF Unauthorized
    <2> QED
      BY <1>1, <1>a, <2>1, UnauthorizedEffect DEF Unsaved, Used
  <1>2. ASSUME NEW r \in Reqs, Exchanged(r)
        PROVE  Unsaved(a)'
    <2>1. disk' = disk /\ refresh[r].token.login # a
      BY <1>2, <1>a DEF Exchanged
    <2>2. exchanges'[a] = <<>>
      BY <1>2, <1>a, <1>b, <2>1, ExchangedEffect
    <2> QED
      BY <1>2, <1>a, <2>1, <2>2, MovesRefresh DEF Exchanged, Unsaved, Used
  <1>3. ASSUME NEW r \in Reqs, Refused(r) \/ TimesOut(r)
        PROVE  Unsaved(a)'
    BY <1>3, <1>a, SettleEffect DEF Refused, TimesOut, Unsaved, Used
  <1>4. ASSUME NEW r \in Reqs, BeginSave(r)
        PROVE  Unsaved(a)'
    BY <1>4, <1>a, <1>b, MovesRefresh DEF BeginSave, Unsaved, Used
  <1>5. ASSUME NEW r \in Reqs, EndSave(r)
        PROVE  Unsaved(a)'
    <2> DEFINE t == refresh[r].token
    <2>1. t.login # a /\ Renewed(t).login = t.login
      BY <1>5, <1>a DEF EndSave, Shared, Used, Renewed, Tokens
    <2>2. exchanges' = exchanges /\ (disk' = disk \/ disk' = Renewed(t))
      BY <1>5 DEF EndSave
    <2> HIDE DEF t
    <2> QED
      BY <1>5, <1>a, <2>1, <2>2, SettleEffect DEF EndSave, Unsaved, Used
  <1>6. ASSUME NEW b \in Attempts, PollSucceeds(b)
        PROVE  Unsaved(a)'
    BY <1>6, <1>a, <1>b DEF PollSucceeds, Unsaved, Used
  <1>7. ASSUME NEW b \in Attempts, SaveLogin(b)
        PROVE  Unsaved(a)'
    <2>1. UNCHANGED <<exchanges, refresh>>
      BY <1>7 DEF SaveLogin
    <2>2. CASE disk' = disk
      BY <1>a, <2>1, <2>2 DEF Unsaved, Used
    <2>3. CASE disk' # disk
      <3>1. attempt[b].pc = "saving" /\ disk' = [login |-> b, gen |-> 0]
        BY <1>7, <2>3 DEF SaveLogin
      <3>2. /\ spent' = spent /\ Enters(b, "ended")
            /\ panel' = IF attempt[b].number = counter THEN NoPanel ELSE panel
        BY <1>7 DEF SaveLogin, Shows, Enters
      <3>3. attempt'[b].pc = "ended" /\ attempt'[b].aborted = attempt[b].aborted
        BY <3>2, MovesAttempt
      <3>4. a # b
        <4> SUFFICES ASSUME a = b PROVE FALSE
          OBVIOUS
        <4>1. /\ a <= spent.logins /\ attempt[a].aborted = FALSE
              /\ a = spent.logins => attempt[a].number = counter
          BY <3>1 DEF Numbered, TypeOK, AttemptStates
        <4>2. /\ spent' = spent /\ attempt'[a].pc = "ended" /\ attempt'[a].aborted = FALSE
              /\ a = spent.logins => panel' = NoPanel
          BY <3>2, <3>3, <4>1
        <4>3. a \in Nat /\ spent.logins \in Nat
          BY DEF TypeOK, Spending, Attempts
        <4> QED
          BY <4>1, <4>2, <4>3 DEF MayBeDismissed
      <3> QED
        BY <1>a, <2>1, <3>1, <3>4 DEF Unsaved, Used
    <2> QED
      BY <2>2, <2>3
  <1>8. ASSUME NEW p \in Procs, Logout(p)
        PROVE  Unsaved(a)'
    BY <1>8, <1>a, <1>b, LogoutEffect DEF Logout, Unsaved, Used
  <1>9. ASSUME NEW p \in Procs, Kill(p)
        PROVE  Unsaved(a)'
    BY <1>9, <1>a, KillEffect DEF Kill, Unsaved, Used
  <1>10. CASE Elsewhere
    BY <1>10, <1>a, ElsewhereEffect DEF Unsaved, Used
  <1> QED
    BY <1>1, <1>2, <1>3, <1>4, <1>5, <1>6, <1>7, <1>8, <1>9, <1>10, Steps

-----------------------------------------------------------------------------
(* The theorems.                                                           *)

LEMMA InitInv == Init => IInv
  <1> SUFFICES ASSUME Init
               PROVE  IInv
    OBVIOUS
  <1>1. TypeOK
    BY TypeInit
  <1>2. Shared /\ Newest /\ NoTokenUsedTwice
    BY DEF Init, Shared, Newest, Used, Answered, NoTokenUsedTwice
  <1>3. Bounded
    BY AuthAssumption DEF Init, Bounded, Logins
  <1>4. Traceless
    BY AuthAssumption DEF Init, Traceless, Unsaved, Used, Attempts, Logins
  <1>5. Numbered /\ Opened
    BY DEF Init, Numbered, Opened, Attempts
  <1>6. SessionStaysUsable
    BY AuthAssumption DEF Init, SessionStaysUsable, Current, Logins
  <1> QED
    BY <1>1, <1>2, <1>3, <1>4, <1>5, <1>6 DEF IInv

LEMMA StepInv == IInv /\ [Next]_vars => IInv'
  BY TypeStep, SharedStep, BoundedStep, NewestStep, TracelessStep, NumberedStep,
     UsableStep, OnceStep DEF IInv

\* The inductive invariant holds of every behaviour.
THEOREM Invariance == Spec => []IInv
  BY InitInv, StepInv, PTL DEF Spec

\* Concurrent 401s of a process share one refresh (refresh.ts:87): none of its
\* requests offers a refresh token that the process has exchanged before, unless a
\* lost answer left the old token in auth.json.
THEOREM TokensOfferedOnce == Spec => []NoTokenUsedTwice
  <1>1. IInv => NoTokenUsedTwice
    BY DEF IInv
  <1> QED
    BY <1>1, Invariance, PTL

\* The session in auth.json can be refreshed, or its successor is being read
\* (refresh.ts:113), however many processes race for it.
THEOREM SessionUsable == Spec => []SessionStaysUsable
  <1>1. IInv => SessionStaysUsable
    BY DEF IInv
  <1> QED
    BY <1>1, Invariance, PTL

\* A login the user dismissed is never written (deviceFlow.ts:112), and no refresh
\* brings it back.
THEOREM DismissedStaysOut == Spec => []DismissedNeverSaved
  <1>1. IInv => DismissedNeverSaved
    BY DEF IInv, Traceless, MayBeDismissed, Unsaved, DismissedNeverSaved
  <1> QED
    BY <1>1, Invariance, PTL
=============================================================================
