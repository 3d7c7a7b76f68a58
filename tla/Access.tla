------------------------------- MODULE Access -------------------------------
(***************************************************************************)
(* Who may come in: the login of a person through an OpenID provider, whose*)
(* callback makes a user, a site and a session, a query at a time; and the *)
(* tokens a member issues, revokes and calls the API with.                 *)
(***************************************************************************)
EXTENDS Naturals, FiniteSets

CONSTANTS
    People,          \* subjects of the provider
    Bootstrap,       \* the person whose address is the bootstrap owner's
    MaxLogins,       \* bound on the logins that are begun
    MaxCallbacks,    \* bound on the callbacks of browsers, repeated ones too
    Tokens,          \* tokens that may be issued
    Calls,           \* requests with a token
    MaxFailures      \* bound on the callbacks that are cut off

ASSUME AccessAssumption ==
    /\ Bootstrap \in People /\ Tokens # {}
    /\ MaxLogins \in Nat \ {0} /\ MaxCallbacks \in Nat /\ MaxFailures \in Nat

VARIABLES
    login,           \* rows of oidc_login_states
    callback,        \* callback -> how far it is
    users,           \* people with a row in `users'
    sites,           \* rows of `sites': 0 for the bootstrap site
    members,         \* rows of `memberships'
    sessions,        \* callbacks whose session is valid
    tokens,          \* token -> row of api_tokens
    call,            \* call -> how far it is
    failed           \* callbacks cut off so far

accessVars == <<login, callback, users, sites, members, sessions, tokens, call, failed>>

Logins    == 1..MaxLogins
Callbacks == 1..MaxCallbacks
HomeSite  == 0

AccessTypeOK ==
    /\ login \in [Logins -> [at : {"none", "begun", "gone"}, granted : BOOLEAN, by : People]]
    /\ callback \in [Callbacks ->
          [at : {"new", "matched", "exchange", "named", "insert", "joined", "site", "attach",
                 "session", "done", "refused"},
           login : Logins, site : 0..MaxCallbacks]]
    /\ users \subseteq People
    /\ sites \subseteq 0..MaxCallbacks
    /\ members \subseteq (0..MaxCallbacks) \X People
    /\ sessions \subseteq Callbacks
    /\ tokens \in [Tokens -> [at : {"none", "live", "revoked"}, site : 0..MaxCallbacks]]
    /\ call \in [Calls -> [at : {"new", "read", "touch", "served", "refused"},
                           token : Tokens, late : BOOLEAN]]
    /\ failed \in 0..MaxFailures

AccessInit ==
    /\ login = [l \in Logins |-> [at |-> "none", granted |-> FALSE, by |-> Bootstrap]]
    /\ callback = [b \in Callbacks |-> [at |-> "new", login |-> 1, site |-> 0]]
    /\ users = {} /\ sites = {HomeSite} /\ members = {} /\ sessions = {}
    /\ tokens = [t \in Tokens |-> [at |-> "none", site |-> 0]]
    /\ call = [k \in Calls |-> [at |-> "new", token |-> CHOOSE t \in Tokens : TRUE, late |-> FALSE]]
    /\ failed = 0

-----------------------------------------------------------------------------
(* The login. *)

Person(b) == login[callback[b].login].by
Goes(b, at) == callback' = [callback EXCEPT ![b].at = at]

\* /auth/login leaves a state and sends the browser to the provider.
BeginLogin(l, u) ==
    /\ login[l].at = "none"
    /\ \A k \in 1..(l - 1) : login[k].at # "none"
    /\ login' = [login EXCEPT ![l].at = "begun", ![l].by = u]
    /\ UNCHANGED <<callback, users, sites, members, sessions, tokens, call, failed>>

\* /auth/callback looks for the state, which is there for ten minutes ...
Callback(b, l) ==
    /\ callback[b].at = "new"
    /\ \A a \in 1..(b - 1) : callback[a].at # "new"
    /\ login[l].at # "none"
    /\ callback' = [callback EXCEPT ![b] =
          [@ EXCEPT !.at = IF login[l].at = "begun" THEN "matched" ELSE "refused", !.login = l]]
    /\ UNCHANGED <<login, users, sites, members, sessions, tokens, call, failed>>

\* ... and deletes it.
DeleteState(b) ==
    /\ callback[b].at = "matched"
    /\ login' = [login EXCEPT ![callback[b].login].at = "gone"]
    /\ Goes(b, "exchange")
    /\ UNCHANGED <<users, sites, members, sessions, tokens, call, failed>>

ExpireState(l) ==
    /\ login[l].at = "begun"
    /\ login' = [login EXCEPT ![l].at = "gone"]
    /\ UNCHANGED <<callback, users, sites, members, sessions, tokens, call, failed>>

\* finishOidcLogin: the provider takes a code once.
FinishOidcLogin(b) ==
    /\ callback[b].at = "exchange"
    /\ Goes(b, IF login[callback[b].login].granted THEN "refused" ELSE "named")
    /\ login' = [login EXCEPT ![callback[b].login].granted = TRUE]
    /\ UNCHANGED <<users, sites, members, sessions, tokens, call, failed>>

\* upsertUser looks for the subject, and inserts it; a second row is refused.
FindUser(b) ==
    /\ callback[b].at = "named"
    /\ Goes(b, IF Person(b) \in users THEN "joined" ELSE "insert")
    /\ UNCHANGED <<login, users, sites, members, sessions, tokens, call, failed>>

InsertUser(b) ==
    /\ callback[b].at = "insert"
    /\ Goes(b, IF Person(b) \in users THEN "refused" ELSE "joined")
    /\ users' = users \cup {Person(b)}
    /\ UNCHANGED <<login, sites, members, sessions, tokens, call, failed>>

SitesOf(u) == {m[1] : m \in {n \in members : n[2] = u}}

\* ensureFirstSite: a member has a site; the bootstrap owner takes the site there
\* is; anybody else is given a new one.
FindSite(b) ==
    /\ callback[b].at = "joined"
    /\ callback' = [callback EXCEPT ![b] =
          IF SitesOf(Person(b)) # {} THEN [@ EXCEPT !.at = "session"]
          ELSE IF Person(b) = Bootstrap THEN [@ EXCEPT !.at = "attach", !.site = HomeSite]
          ELSE [@ EXCEPT !.at = "site", !.site = b]]
    /\ UNCHANGED <<login, users, sites, members, sessions, tokens, call, failed>>

InsertSite(b) ==
    /\ callback[b].at = "site"
    /\ sites' = sites \cup {callback[b].site}
    /\ Goes(b, "attach")
    /\ UNCHANGED <<login, users, members, sessions, tokens, call, failed>>

AttachOwner(b) ==
    /\ callback[b].at = "attach"
    /\ members' = members \cup {<<callback[b].site, Person(b)>>}
    /\ Goes(b, "session")
    /\ UNCHANGED <<login, users, sites, sessions, tokens, call, failed>>

CreateSession(b) ==
    /\ callback[b].at = "session"
    /\ sessions' = sessions \cup {b}
    /\ Goes(b, "done")
    /\ UNCHANGED <<login, users, sites, members, tokens, call, failed>>

\* A query or the provider fails: what was written stays.
CutOff(b) ==
    /\ callback[b].at \notin {"new", "done", "refused"}
    /\ failed < MaxFailures
    /\ failed' = failed + 1
    /\ Goes(b, "refused")
    /\ UNCHANGED <<login, users, sites, members, sessions, tokens, call>>

\* Twelve hours, or a logout.
EndSession(b) ==
    /\ b \in sessions
    /\ sessions' = sessions \ {b}
    /\ UNCHANGED <<login, callback, users, sites, members, tokens, call, failed>>

-----------------------------------------------------------------------------
(* Tokens. *)

\* requireSiteMember
Member(b, s) == b \in sessions /\ <<s, Person(b)>> \in members

IssueToken(b, s, t) ==
    /\ Member(b, s)
    /\ tokens[t].at = "none"
    /\ tokens' = [tokens EXCEPT ![t] = [at |-> "live", site |-> s]]
    /\ UNCHANGED <<login, callback, users, sites, members, sessions, call, failed>>

RevokeToken(b, s, t) ==
    /\ Member(b, s)
    /\ tokens[t] = [at |-> "live", site |-> s]
    /\ tokens' = [tokens EXCEPT ![t].at = "revoked"]
    /\ UNCHANGED <<login, callback, users, sites, members, sessions, call, failed>>

\* A request arrives; resolveToken reads the row, and notes the use of the token.
BeginCall(k, t) ==
    /\ call[k].at = "new"
    /\ tokens[t].at # "none"
    /\ call' = [call EXCEPT ![k] =
          [at |-> "read", token |-> t, late |-> tokens[t].at = "revoked"]]
    /\ UNCHANGED <<login, callback, users, sites, members, sessions, tokens, failed>>

ResolveToken(k) ==
    /\ call[k].at = "read"
    /\ call' = [call EXCEPT ![k].at =
          IF tokens[call[k].token].at = "live" THEN "touch" ELSE "refused"]
    /\ UNCHANGED <<login, callback, users, sites, members, sessions, tokens, failed>>

TouchToken(k) ==
    /\ call[k].at = "touch"
    /\ call' = [call EXCEPT ![k].at = "served"]
    /\ UNCHANGED <<login, callback, users, sites, members, sessions, tokens, failed>>

AccessNext ==
    \/ \E l \in Logins : ExpireState(l) \/ \E u \in People : BeginLogin(l, u)
    \/ \E b \in Callbacks :
          \/ DeleteState(b) \/ FinishOidcLogin(b) \/ FindUser(b) \/ InsertUser(b)
          \/ FindSite(b) \/ InsertSite(b) \/ AttachOwner(b) \/ CreateSession(b)
          \/ CutOff(b) \/ EndSession(b)
          \/ \E l \in Logins : Callback(b, l)
          \/ \E s \in sites, t \in Tokens : IssueToken(b, s, t) \/ RevokeToken(b, s, t)
    \/ \E k \in Calls : ResolveToken(k) \/ TouchToken(k) \/ \E t \in Tokens : BeginCall(k, t)

AccessSpec == AccessInit /\ [][AccessNext]_accessVars

-----------------------------------------------------------------------------
(***************************************************************************)
(* Whoever has a session has a user row and a site to look at, and a site  *)
(* that is not the bootstrap site has one owner at the most, whichever     *)
(* callbacks run beside each other or were cut off.  A token that was      *)
(* revoked when a call came in does not serve it.                          *)
(***************************************************************************)
SessionsHaveSites ==
    \A b \in sessions : Person(b) \in users /\ SitesOf(Person(b)) # {}

SitesAreOwned ==
    \A s \in sites \ {HomeSite} : Cardinality({u \in People : <<s, u>> \in members}) <= 1

RevokedIsRefused ==
    \A k \in Calls : call[k].at = "served" => ~call[k].late

AccessHolds == SessionsHaveSites /\ SitesAreOwned /\ RevokedIsRefused

(***************************************************************************)
(* A person is given one site.  It is not so for somebody who logs in in   *)
(* two windows for the first time: see README.                             *)
(***************************************************************************)
OneSiteEach == \A u \in People : Cardinality(SitesOf(u)) <= 1
=============================================================================
