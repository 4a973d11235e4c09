------------------------------- MODULE WebClient -------------------------------
(***************************************************************************)
(* The demo's browser client: its session, its three screens, and its calls  *)
(* through the gateway, which are answered in any order, late or not at all. *)
(* A screen's state lives from a login to the logout; what a call of an      *)
(* earlier session brings is set on components that are no longer mounted.   *)
(* The services behind the gateway are an approval list and one grant.      *)
(***************************************************************************)
EXTENDS Naturals, FiniteSets

CONSTANTS
  DemoUser,
  Admin,       \* the users with the administrator's screen
  Manager,     \* the user whose grant the administrator takes and gives
  DemoExpense,
  NoOne,
  None,
  MaxCalls,    \* bound on the calls made
  MaxUnderway, \* bound on the calls underway at once
  MaxSession   \* bound on the logins

ASSUME WebClientAssumption ==
  /\ Admin \subseteq DemoUser /\ Manager \in DemoUser /\ NoOne \notin DemoUser
  /\ None \notin DemoExpense
  /\ MaxCalls \in Nat /\ MaxUnderway \in Nat /\ MaxSession \in Nat

VARIABLES
  approvedBy,  \* the services: who approved each expense,
  granted,     \* the number of the manager's active grant, 0 if none,
  version,     \* history: and how often any of this has changed
  token,       \* accessToken, the user it was issued to
  session,     \* [user, number, start]; start: history, the version when it began
  screens,     \* what the mounted components hold
  calls,       \* calls underway: [number, kind, of, as, on, answer]
  made         \* how many calls and sessions there have been

service == <<approvedBy, granted, version>>
client == <<token, session, screens>>
webVars == <<service, client, calls, made>>

NoSession == [user |-> NoOne, number |-> 0, start |-> 0]
LoggedIn == session.user # NoOne

\* What a fetch brought: whose it was and the version it shows.
Nothing == [as |-> NoOne, at |-> 0]
Unread == [rows |-> Nothing, events |-> Nothing, assignments |-> Nothing, grant |-> 0,
           listed |-> FALSE, pending |-> None, busy |-> FALSE,
           outcomes |-> [e \in DemoExpense |-> "none"]]

InitWeb ==
  /\ approvedBy = [e \in DemoExpense |-> NoOne]
  /\ granted \in {0, 1}
  /\ version = 1
  /\ token = NoOne
  /\ session = NoSession
  /\ screens = Unread
  /\ calls = {}
  /\ made = [calls |-> 0, sessions |-> 0]

-----------------------------------------------------------------------------
(* api.ts *)

Unanswered == [status |-> "none"]
NetworkError == [status |-> "error"]
Ok(data) == [status |-> "ok", data |-> data]

\* Calls underway that ask the same are told apart by a number.
IsUsed(n, kind, of, as, on) ==
  \E c \in calls : c.number = n /\ c.kind = kind /\ c.of = of /\ c.as = as /\ c.on = on

\* request: of a component of a session, with the token there is.
NewCall(kind, of, as, on) ==
  [number |-> CHOOSE n \in 1 .. MaxCalls : ~ IsUsed(n, kind, of, as, on),
   kind |-> kind, of |-> of, as |-> as, on |-> on, answer |-> Unanswered]

Calls(rest, new) ==
  /\ made.calls + new.count <= MaxCalls
  /\ calls' = rest \cup new.requests
  /\ Cardinality(calls') <= MaxUnderway
  /\ made' = [made EXCEPT !.calls = @ + new.count]

NoNew == [count |-> 0, requests |-> {}]
One(kind, of, as, on) == [count |-> 1, requests |-> {NewCall(kind, of, as, on)}]

\* The effects of the screens of a session, at their mount and when refreshKey changes.
Reloads(s) ==
  IF s = NoSession THEN NoNew
  ELSE [count |-> 2, requests |-> {NewCall("list", s.number, s.user, None),
                                   NewCall("events", s.number, s.user, None)}]
Mounts(s) ==
  IF s.user \notin Admin THEN Reloads(s)
  ELSE [count |-> 3,
        requests |-> Reloads(s).requests \cup {NewCall("assignments", s.number, s.user, None)}]

-----------------------------------------------------------------------------
(* What the user does *)

\* pick: the buttons are disabled while a login is underway.
Pick(u) ==
  /\ ~ LoggedIn /\ made.sessions < MaxSession
  /\ \A c \in calls : c.kind # "login"
  /\ Calls(calls, One("login", 0, u, None))
  /\ UNCHANGED <<service, client>>

\* The rows, of the known expenses at least, are there once a list was answered.
OnApprove(e) ==
  /\ LoggedIn /\ screens.listed /\ screens.pending = None
  /\ screens' = [screens EXCEPT !.pending = e]
  /\ Calls(calls, One("approve", session.number, token, e))
  /\ UNCHANGED <<service, token, session>>

\* The buttons of the manager's grant are those of the assignments last loaded.
OnRevoke ==
  /\ LoggedIn /\ session.user \in Admin /\ ~ screens.busy /\ screens.grant # 0
  /\ screens' = [screens EXCEPT !.busy = TRUE]
  /\ Calls(calls, One("revoke", session.number, token, screens.grant))
  /\ UNCHANGED <<service, token, session>>

OnGrant ==
  /\ LoggedIn /\ session.user \in Admin /\ ~ screens.busy /\ screens.grant = 0
  /\ screens' = [screens EXCEPT !.busy = TRUE]
  /\ Calls(calls, One("grant", session.number, token, None))
  /\ UNCHANGED <<service, token, session>>

RefreshLog ==
  /\ LoggedIn
  /\ Calls(calls, One("events", session.number, token, None))
  /\ UNCHANGED <<service, client>>

Logout ==
  /\ LoggedIn
  /\ token' = NoOne
  /\ session' = NoSession
  /\ screens' = Unread
  /\ UNCHANGED <<service, calls, made>>

-----------------------------------------------------------------------------
(* What the gateway and the services do with a call *)

Becomes(c, answer) == calls' = (calls \ {c}) \cup {[c EXCEPT !.answer = answer]}
Shows(c) == Ok([as |-> c.as, at |-> version])

MayApprove(c) == c.as # NoOne /\ approvedBy[c.on] = NoOne /\ (c.as = Manager => granted # 0)

Serve(c) ==
  /\ c.answer = Unanswered
  /\ UNCHANGED <<client, made>>
  /\ \/ /\ c.kind = "login" \/ (c.kind \in {"list", "events"} /\ c.as # NoOne)
        /\ Becomes(c, Shows(c)) /\ UNCHANGED service
     \/ /\ c.kind \in {"assignments", "reload"} /\ c.as # NoOne
        /\ Becomes(c, Ok([as |-> c.as, at |-> version, grant |-> granted]))
        /\ UNCHANGED service
     \/ /\ c.kind = "approve" /\ MayApprove(c)
        /\ approvedBy' = [approvedBy EXCEPT ![c.on] = c.as]
        /\ version' = version + 1
        /\ Becomes(c, Shows(c)) /\ UNCHANGED granted
     \/ /\ \/ c.kind = "revoke" /\ granted = c.on /\ granted' = 0
           \/ c.kind = "grant" /\ granted = 0 /\ granted' = version + 1
        /\ version' = version + 1
        /\ Becomes(c, Shows(c)) /\ UNCHANGED approvedBy

\* It is refused or fails, or its answer is lost.
Fails(c) ==
  /\ c.answer # NetworkError
  /\ Becomes(c, NetworkError)
  /\ UNCHANGED <<service, client, made>>

-----------------------------------------------------------------------------
(* What the client does with an answer *)

\* React sets the state of a component that is mounted; of whichever is.
AnyMounted(c) == LoggedIn
IsMounted(c) == LoggedIn /\ c.of = session.number

IsOk(c) == c.answer.status = "ok"
Sets(c, next) == screens' = IF IsMounted(c) THEN next ELSE screens

LoginAnswered(c) ==
  LET s == [user |-> c.as, number |-> made.sessions + 1, start |-> version]
  IN  IF ~ IsOk(c) THEN Calls(calls \ {c}, NoNew) /\ UNCHANGED client
      ELSE /\ token' = c.as
           /\ session' = s
           /\ UNCHANGED screens
           /\ made.calls + Mounts(s).count <= MaxCalls
           /\ calls' = (calls \ {c}) \cup Mounts(s).requests
           /\ Cardinality(calls') <= MaxUnderway
           /\ made' = [calls |-> made.calls + Mounts(s).count, sessions |-> made.sessions + 1]

WithAssignments(c) ==
  IF ~ IsOk(c) THEN screens
  ELSE [screens EXCEPT !.grant = c.answer.data.grant,
          !.assignments = [as |-> c.answer.data.as, at |-> c.answer.data.at]]

\* load, of each screen.  A list that could not be read shows no expense's status.
LoadAnswered(c) ==
  /\ Calls(calls \ {c}, NoNew)
  /\ UNCHANGED <<token, session>>
  /\ CASE c.kind = "list" ->
            Sets(c, [screens EXCEPT !.listed = TRUE,
                            !.rows = IF IsOk(c) THEN c.answer.data ELSE Nothing])
       [] c.kind = "events" ->
            Sets(c, [screens EXCEPT !.events = IF IsOk(c) THEN c.answer.data ELSE @])
       [] c.kind = "assignments" ->
            Sets(c, WithAssignments(c))

\* The outcome is shown, and the parent's refreshKey bumped, that of a later session too.
ApproveAnswered(c) ==
  /\ Sets(c, [screens EXCEPT !.pending = None,
                !.outcomes = [@ EXCEPT ![c.on] = IF IsOk(c) THEN "allow" ELSE "deny"]])
  /\ Calls(calls \ {c}, Reloads(session))
  /\ UNCHANGED <<token, session>>

\* After a change of the grant its own load comes first, with the token there is then.
ChangeAnswered(c) ==
  /\ Sets(c, [screens EXCEPT !.busy = FALSE])
  /\ Calls(calls \ {c}, One("reload", c.of, token, None))
  /\ UNCHANGED <<token, session>>

ReloadAnswered(c) ==
  /\ Sets(c, WithAssignments(c))
  /\ Calls(calls \ {c}, Reloads(session))
  /\ UNCHANGED <<token, session>>

Deliver(c) ==
  /\ c.answer # Unanswered
  /\ UNCHANGED service
  /\ \/ c.kind = "login" /\ LoginAnswered(c)
     \/ c.kind \in {"list", "events", "assignments"} /\ LoadAnswered(c)
     \/ c.kind = "approve" /\ ApproveAnswered(c)
     \/ c.kind \in {"revoke", "grant"} /\ ChangeAnswered(c)
     \/ c.kind = "reload" /\ ReloadAnswered(c)

NextWeb ==
  \/ \E u \in DemoUser : Pick(u)
  \/ \E e \in DemoExpense : OnApprove(e)
  \/ OnRevoke \/ OnGrant \/ RefreshLog \/ Logout
  \/ \E c \in calls : Serve(c) \/ Fails(c) \/ Deliver(c)

WebSpec == InitWeb /\ [][NextWeb]_webVars

-----------------------------------------------------------------------------
\* Whatever calls of earlier sessions are still underway, a session shows only what was
\* read with its own token after it began, and says of an expense that it was approved
\* only if its user approved it.
Genuine(shown) == shown = Nothing \/ (shown.as = session.user /\ shown.at >= session.start)
ShownIsGenuine ==
  LoggedIn =>
    /\ token = session.user
    /\ Genuine(screens.rows) /\ Genuine(screens.events) /\ Genuine(screens.assignments)
    /\ \A e \in DemoExpense : screens.outcomes[e] = "allow" => approvedBy[e] = session.user
==============================================================================
