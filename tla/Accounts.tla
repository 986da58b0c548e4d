------------------------------ MODULE Accounts -----------------------------
(***************************************************************************)
(* Who is signed in, as three parties see it: the server, which reads a    *)
(* session cookie; the query cache of one browser tab, which remembers the *)
(* answer of GET /auth/me and the list of API keys; and the pages, which   *)
(* redirect on what the cache says.  The pages behind AuthAware are        *)
(* represented by the one that lists, creates and revokes API keys.        *)
(*                                                                         *)
(* A request is asked, answered by the server, and its answer applied; the *)
(* tab may do anything in between.                                         *)
(*                                                                         *)
(* An operator right before the one it resembles is a mutated form of it,  *)
(* named for the mistake it makes; no other definition uses it.            *)
(***************************************************************************)
EXTENDS Naturals, FiniteSets

CONSTANTS
  Users,  \* one email each, as normalizeEmail leaves it
  Keys,   \* identities of API keys
  Nobody,
  MaxForms,  \* bound: submissions of the sign-in form
  MaxAtOnce  \* bound: mutations under way at once

ASSUME AccountsAssumption ==
  /\ Nobody \notin Users
  /\ MaxForms \in Nat /\ MaxAtOnce \in Nat
  /\ Users \cap {"none", "asked", "401"} = {}

VARIABLES
  registered,  \* the users table
  issued,      \* [Keys -> owner], Nobody before the key is created
  revoked,     \* keys with "revokedAt"
  cookie,      \* whose session token the browser sends
  page,
  me,          \* the cache entry of GET /auth/me
  list,        \* the cache entry of GET /keys
  signIn,      \* POST /auth/login or /auth/signup, one for each submission
  forms,       \* submissions so far
  signOut,     \* POST /auth/logout
  create,      \* POST /keys, and whether the page that sent it is mounted
  revoke,      \* DELETE /keys/:id, likewise
  dialogs,     \* of the keys page
  told,        \* keys the mounted page has been told are revoked
  signedOut,   \* POST /auth/logout was answered and nobody signed in since
  outlived     \* a session outlived the tab's idea of it: a sign-out failed, or
               \* somebody signed in over a user the tab knew of

server == <<registered, issued, revoked>>
mutations == <<signIn, forms, signOut, create, revoke>>
vars == <<server, cookie, page, me, list, mutations, dialogs, told, signedOut,
          outlived>>

\* The query of useMe and that of useListApiKeys, before anybody asked.
NoMe == [data |-> Nobody, error |-> "none", fetch |-> "none"]
NoList == [rows |-> {}, loaded |-> FALSE, failed |-> FALSE,
           fetch |-> "none", answer |-> {}]
\* useCreateApiKey or useRevokeApiKey between two uses.
Idle == [step |-> "idle", keys |-> {}, mounted |-> FALSE]
\* A submission before it is made and once its callback is over.
NoSignIn == [step |-> "idle", mode |-> "login", user |-> Nobody]
NoSignIns == [i \in 1..MaxForms |-> NoSignIn]
Closed == [new |-> FALSE, reveal |-> {}, confirm |-> {}]

AtMostOne == {K \in SUBSET Keys : Cardinality(K) <= 1}

TypeOK ==
  /\ registered \subseteq Users
  /\ issued \in [Keys -> Users \cup {Nobody}]
  /\ revoked \subseteq {k \in Keys : issued[k] # Nobody}
  /\ cookie \in Users \cup {Nobody}
  /\ page \in {"home", "login", "keys"}
  /\ me \in [data : Users \cup {Nobody}, error : {"none", "401", "other"},
             fetch : Users \cup {"none", "asked", "401"}]
  /\ list \in [rows : SUBSET Keys, loaded : BOOLEAN, failed : BOOLEAN,
               fetch : {"none", "asked", "rows", "401"}, answer : SUBSET Keys]
  /\ signIn \in [1..MaxForms -> [step : {"idle", "sent", "granted", "landing"},
                                 mode : {"login", "signup"}, user : Users \cup {Nobody}]]
  /\ forms \in 0..MaxForms
  /\ {create, revoke} \subseteq
       [step : {"idle", "sent", "done", "401"}, keys : AtMostOne, mounted : BOOLEAN]
  /\ dialogs \in [new : BOOLEAN, reveal : AtMostOne, confirm : AtMostOne]
  /\ told \subseteq revoked
  /\ {signOut, signedOut, outlived} \subseteq BOOLEAN

Init ==
  /\ registered = {}
  /\ issued = [k \in Keys |-> Nobody] /\ revoked = {}
  /\ cookie = Nobody /\ page = "home"
  /\ me = NoMe /\ list = NoList
  /\ signIn = NoSignIns /\ forms = 0 /\ signOut = FALSE
  /\ create = Idle /\ revoke = Idle
  /\ dialogs = Closed
  /\ told = {} /\ signedOut = FALSE /\ outlived = FALSE

-----------------------------------------------------------------------------
(* The query cache *)

\* A fetch begins, or joins the one under way; without data the entry is
\* pending again and forgets its error.
MeAsked(m) ==
  IF m.fetch # "none" THEN m
  ELSE [m EXCEPT !.fetch = "asked",
                 !.error = IF m.data = Nobody THEN "none" ELSE @]

\* Whether a mount refetches data it finds depends on how old the data is.
MeMounted(m) ==
  IF m.data # Nobody /\ m.error = "none" THEN {m, MeAsked(m)} ELSE {MeAsked(m)}

ListAsked(l) == IF l.fetch # "none" THEN l ELSE [l EXCEPT !.fetch = "asked"]

ListMounted(l) ==
  IF l.loaded /\ ~l.failed THEN {l, ListAsked(l)} ELSE {ListAsked(l)}

RefetchedJoining(l) == ListAsked(l)

\* refetch() cancels a fetch under way unless it is the first one.
Refetched(l) ==
  IF l.loaded THEN [l EXCEPT !.fetch = "asked", !.answer = {}] ELSE ListAsked(l)

\* AuthAware renders the page behind it.
InsideWith(p, m) == p = "keys" /\ m.data # Nobody /\ m.error = "none"
Inside == InsideWith(page, me)

-----------------------------------------------------------------------------
(* Pages *)

\* The keys page comes and goes with AuthAware's verdict: unmounted, it loses
\* its dialogs and the fetch of its list, and nobody is there for the answers
\* to its mutations.
Render(p, m) ==
  /\ page' = p /\ me' = m
  /\ CASE Inside /\ ~InsideWith(p, m) ->
            /\ list' = [list EXCEPT !.fetch = "none", !.answer = {}]
            /\ dialogs' = Closed
            /\ create' = [create EXCEPT !.mounted = FALSE]
            /\ revoke' = [revoke EXCEPT !.mounted = FALSE]
            /\ told' = {}
       [] ~Inside /\ InsideWith(p, m) ->
            list' \in ListMounted(list) /\ UNCHANGED <<dialogs, create, revoke, told>>
       [] OTHER -> UNCHANGED <<list, dialogs, create, revoke, told>>

\* The login page and AuthAware both ask who is signed in when they mount.
Go(p) ==
  IF p = "home" THEN Render(p, me) ELSE \E m \in MeMounted(me) : Render(p, m)

\* No link joins the login page and a page behind AuthAware.
Visit(p) ==
  /\ p # page /\ "home" \in {p, page}
  /\ Go(p)
  /\ UNCHANGED <<server, cookie, signIn, forms, signOut, signedOut,
                 outlived>>

\* The effect of LoginPage: `me !== undefined`.
LeaveLogin ==
  /\ page = "login" /\ me.data # Nobody
  /\ Go("keys")
  /\ UNCHANGED <<server, cookie, signIn, forms, signOut, signedOut,
                 outlived>>

\* The effect of AuthAware: a 401 for GET /auth/me.
TurnAway ==
  /\ page = "keys" /\ me.error = "401"
  /\ Go("login")
  /\ UNCHANGED <<server, cookie, signIn, forms, signOut, signedOut,
                 outlived>>

\* router.replace and dropping the session in place of a hard navigation: the
\* list of keys stays in the cache.
ReloadKeepingList ==
  /\ page' = "login" /\ me' = MeAsked(NoMe)
  /\ list' = [list EXCEPT !.fetch = "none", !.answer = {}]
  /\ signIn' = NoSignIns /\ signOut' = FALSE
  /\ create' = Idle /\ revoke' = Idle /\ dialogs' = Closed
  /\ told' = {} /\ outlived' = FALSE
  /\ UNCHANGED <<server, cookie, forms, signedOut>>

\* The interceptor's window.location.assign: everything but the cookie is gone.
Reload ==
  /\ page' = "login" /\ me' = MeAsked(NoMe) /\ list' = NoList
  /\ signIn' = NoSignIns /\ signOut' = FALSE
  /\ create' = Idle /\ revoke' = Idle /\ dialogs' = Closed
  /\ told' = {} /\ outlived' = FALSE
  /\ UNCHANGED <<server, cookie, forms, signedOut>>

\* The browser is online again: active queries are refetched.
Reconnect ==
  /\ page # "home"
  /\ me' = MeAsked(me)
  /\ list' = IF Inside THEN ListAsked(list) ELSE list
  /\ UNCHANGED <<server, cookie, page, mutations, dialogs, told, signedOut,
                 outlived>>

\* The token and the cookie expire together.
Expire ==
  /\ cookie # Nobody
  /\ cookie' = Nobody
  /\ UNCHANGED <<server, page, me, list, mutations, dialogs, told, signedOut,
                 outlived>>

-----------------------------------------------------------------------------
(* GET /auth/me *)

\* An answer without a user where there is no session, in place of a 401.
ServeMeAnyway ==
  /\ me.fetch = "asked"
  /\ me' = [me EXCEPT !.fetch = cookie]
  /\ UNCHANGED <<server, cookie, page, list, mutations, dialogs, told,
                 signedOut, outlived>>

\* The hook reads the cookie when it serves the request.
ServeMe ==
  /\ me.fetch = "asked"
  /\ me' = [me EXCEPT !.fetch = IF cookie = Nobody THEN "401" ELSE cookie]
  /\ UNCHANGED <<server, cookie, page, list, mutations, dialogs, told,
                 signedOut, outlived>>

\* An error leaves the data of an earlier answer in the entry.
ApplyMe ==
  /\ \/ /\ me.fetch \in Users
        /\ Render(page, [data |-> me.fetch, error |-> "none", fetch |-> "none"])
     \/ /\ me.fetch = "401"
        /\ Render(page, [me EXCEPT !.error = "401", !.fetch = "none"])
     \/ /\ me.fetch # "none"  \* lost, on either way, or not a 401
        /\ Render(page, [me EXCEPT !.error = "other", !.fetch = "none"])
  /\ UNCHANGED <<server, cookie, signIn, forms, signOut, signedOut,
                 outlived>>

\* ErrorState's button.
RetryMe ==
  /\ page = "keys" /\ me.error = "other"
  /\ me' = MeAsked(me)
  /\ UNCHANGED <<server, cookie, page, list, mutations, dialogs, told,
                 signedOut, outlived>>

-----------------------------------------------------------------------------
(* GET /keys *)

\* Your keys that are not revoked.
ServeList ==
  /\ list.fetch = "asked"
  /\ list' = [list EXCEPT
       !.fetch = IF cookie = Nobody THEN "401" ELSE "rows",
       !.answer = {k \in Keys \ revoked : cookie # Nobody /\ issued[k] = cookie}]
  /\ UNCHANGED <<server, cookie, page, me, mutations, dialogs, told, signedOut,
                 outlived>>

ApplyList ==
  \/ list.fetch = "401" /\ page # "login" /\ Reload
  \/ /\ \/ /\ list.fetch = "rows"
           /\ list' = [NoList EXCEPT !.rows = list.answer, !.loaded = TRUE]
        \/ /\ list.fetch # "none"
           /\ list' = [list EXCEPT !.failed = TRUE, !.fetch = "none", !.answer = {}]
     /\ UNCHANGED <<server, cookie, page, me, mutations, dialogs, told,
                    signedOut, outlived>>

\* ErrorState's button on the keys page.
RetryList ==
  /\ Inside /\ list.failed
  /\ list' = Refetched(list)
  /\ UNCHANGED <<server, cookie, page, me, mutations, dialogs, told, signedOut,
                 outlived>>

-----------------------------------------------------------------------------
(* Signing in and out *)

Count(underWay) == IF underWay THEN 1 ELSE 0

\* The bound on what is under way: no code keeps a user from more.
HasRoom ==
  Cardinality({i \in 1..MaxForms : signIn[i].step # "idle"}) + Count(signOut)
    + Count(create.step # "idle") + Count(revoke.step # "idle") < MaxAtOnce

\* Its button waits for the answer, but a switch between login and signup, or
\* a remount, begins with mutations that know nothing of those under way; the
\* form is there until the redirect.
SubmitForm(mode, u) ==
  /\ page = "login"
  /\ HasRoom /\ forms < MaxForms /\ forms' = forms + 1
  /\ signIn' = [signIn EXCEPT ![forms'] = [step |-> "sent", mode |-> mode, user |-> u]]
  /\ UNCHANGED <<server, cookie, page, me, list, signOut, create, revoke,
                 dialogs, told, signedOut, outlived>>

\* The password was right, or the email new: the users table refuses a second
\* row for one.  A refusal and a lost answer leave the form as it is.
ServeSignIn(i) ==
  LET u == signIn[i].user IN
  /\ signIn[i].step = "sent"
  /\ \/ /\ (signIn[i].mode = "signup") = (u \notin registered)
        /\ registered' = registered \cup {u}
        /\ \E granted \in {[NoSignIn EXCEPT !.step = "granted", !.user = u], NoSignIn} :
             signIn' = [signIn EXCEPT ![i] = granted]
     \/ signIn' = [signIn EXCEPT ![i] = NoSignIn] /\ UNCHANGED registered
  /\ UNCHANGED <<issued, revoked, cookie, page, me, list, forms, signOut,
                 create, revoke, dialogs, told, signedOut, outlived>>

\* The tab knows of somebody else, or is about to: without a page to show it
\* the fetch under way is not restarted.
Supplants(u) ==
  \/ me.data \in Users \ {u}
  \/ page = "home" /\ me.fetch \in Users \ {u}

\* The answer sets the cookie; onSession, which outlives the form, enters the
\* user into the cache and invalidates the entry, which is refetched where a
\* page shows it.
ApplySignIn(i) ==
  LET u == signIn[i].user IN
  /\ signIn[i].step = "granted"
  /\ cookie' = u
  /\ Render(page, [data |-> u, error |-> "none",
                   fetch |-> IF page = "home" THEN me.fetch ELSE "asked"])
  /\ signIn' = [signIn EXCEPT ![i] = [NoSignIn EXCEPT !.step = "landing"]]
  /\ signedOut' = FALSE
  /\ outlived' = (outlived \/ Supplants(u))
  /\ UNCHANGED <<server, forms, signOut>>

\* The refetch is over, whatever came of it: router.replace('/dashboard').
Land(i) ==
  /\ signIn[i].step = "landing" /\ me.fetch = "none"
  /\ signIn' = [signIn EXCEPT ![i] = NoSignIn]
  /\ IF page = "keys" THEN UNCHANGED <<page, me, list, dialogs, create, revoke, told>>
     ELSE Go("keys")
  /\ UNCHANGED <<server, cookie, forms, signOut, signedOut, outlived>>

\* TopBar's button, wherever it knows a user.
SignOut ==
  /\ HasRoom
  /\ me.data # Nobody /\ ~signOut
  /\ signOut' = TRUE
  /\ UNCHANGED <<server, cookie, page, me, list, signIn, forms, create, revoke,
                 dialogs, told, signedOut, outlived>>

\* The server keeps nothing of a session: only the answer takes the cookie
\* away, and a request that failed leaves it.
SignOutSettles ==
  /\ signOut /\ signOut' = FALSE
  /\ \/ cookie' = Nobody /\ signedOut' = TRUE /\ UNCHANGED outlived
     \/ /\ signedOut' = FALSE /\ UNCHANGED cookie
        /\ outlived' = (outlived \/ cookie # Nobody)

\* onSettled without queryClient.clear(): only the cookie goes.
ApplySignOutKeepingCache ==
  /\ SignOutSettles
  /\ IF page = "login" THEN UNCHANGED <<page, me, list, dialogs, create, revoke, told>>
     ELSE Go("login")
  /\ UNCHANGED <<server, signIn, forms>>

\* onSettled: either way the cache is cleared, fetches under way with it, and
\* the login page mounts; until it does, a page that is still mounted renders
\* the last result it had, which is left out.
ApplySignOut ==
  /\ SignOutSettles
  /\ page' = "login" /\ me' = MeAsked(NoMe) /\ list' = NoList
  /\ dialogs' = Closed
  /\ create' = [create EXCEPT !.mounted = FALSE]
  /\ revoke' = [revoke EXCEPT !.mounted = FALSE]
  /\ told' = {}
  /\ UNCHANGED <<server, signIn, forms>>

-----------------------------------------------------------------------------
(* Creating and revoking keys *)

\* A dialog is modal: one is open at a time.
AllClosed == Inside /\ dialogs = Closed

OpenNew ==
  /\ AllClosed
  /\ dialogs' = [dialogs EXCEPT !.new = TRUE]
  /\ UNCHANGED <<server, cookie, page, me, list, mutations, told, signedOut,
                 outlived>>

OpenRevoke(k) ==
  /\ AllClosed /\ list.loaded /\ k \in list.rows
  /\ dialogs' = [dialogs EXCEPT !.confirm = {k}]
  /\ UNCHANGED <<server, cookie, page, me, list, mutations, told, signedOut,
                 outlived>>

Close ==
  /\ dialogs # Closed
  /\ dialogs' = IF dialogs.reveal # {} THEN [dialogs EXCEPT !.reveal = {}] ELSE Closed
  /\ UNCHANGED <<server, cookie, page, me, list, mutations, told, signedOut,
                 outlived>>

SubmitNew ==
  /\ HasRoom
  /\ dialogs.new /\ dialogs.reveal = {}
  /\ create.step = "idle" /\ \E k \in Keys : issued[k] = Nobody
  /\ create' = [step |-> "sent", keys |-> {}, mounted |-> TRUE]
  /\ UNCHANGED <<server, cookie, page, me, list, signIn, forms,
                 signOut, revoke, dialogs, told, signedOut, outlived>>

ServeNew ==
  /\ create.step = "sent"
  /\ IF cookie = Nobody
     THEN create' = [create EXCEPT !.step = "401"] /\ UNCHANGED issued
     ELSE \E k \in Keys :
            /\ issued[k] = Nobody
            /\ issued' = [issued EXCEPT ![k] = cookie]
            /\ create' = [create EXCEPT !.step = "done", !.keys = {k}]
  /\ UNCHANGED <<registered, revoked, cookie, page, me, list, signIn, forms,
                 signOut, revoke, dialogs, told, signedOut, outlived>>

\* onCreated: the dialog makes way for the one that shows the secret, and the
\* list is refetched.  A failure, at whatever point, is only a toast.
ApplyNew ==
  \/ create.step = "401" /\ page # "login" /\ Reload
  \/ /\ create.step # "idle" /\ create' = Idle
     /\ \/ /\ create.step = "done"
           /\ list' = Refetched(list)
           /\ dialogs' = IF create.mounted
                         THEN [dialogs EXCEPT !.new = FALSE, !.reveal = create.keys]
                         ELSE dialogs
        \/ UNCHANGED <<list, dialogs>>
     /\ UNCHANGED <<server, cookie, page, me, signIn, forms, signOut,
                    revoke, told, signedOut, outlived>>

SubmitRevoke ==
  /\ HasRoom
  /\ dialogs.confirm # {} /\ dialogs.reveal = {}
  /\ revoke.step = "idle"
  /\ revoke' = [step |-> "sent", keys |-> dialogs.confirm, mounted |-> TRUE]
  /\ UNCHANGED <<server, cookie, page, me, list, signIn, forms,
                 signOut, create, dialogs, told, signedOut, outlived>>

\* revokeById touches only a key of the caller's that is not revoked yet; any
\* other is a 404, which the page treats like a lost answer.
ServeRevoke ==
  /\ revoke.step = "sent"
  /\ IF cookie = Nobody
     THEN revoke' = [revoke EXCEPT !.step = "401"] /\ UNCHANGED revoked
     ELSE /\ \A k \in revoke.keys : issued[k] = cookie /\ k \notin revoked
          /\ revoked' = revoked \cup revoke.keys
          /\ revoke' = [revoke EXCEPT !.step = "done"]
  /\ UNCHANGED <<registered, issued, cookie, page, me, list, signIn, forms,
                 signOut, create, dialogs, told, signedOut, outlived>>

\* onSuccess closes the dialog, whichever key it is open for by now.
ApplyRevoke ==
  \/ revoke.step = "401" /\ page # "login" /\ Reload
  \/ /\ revoke.step # "idle" /\ revoke' = Idle
     /\ \/ /\ revoke.step = "done"
           /\ list' = Refetched(list)
           /\ IF revoke.mounted
              THEN /\ dialogs' = [dialogs EXCEPT !.confirm = {}]
                   /\ told' = told \cup revoke.keys
              ELSE UNCHANGED <<dialogs, told>>
        \/ UNCHANGED <<list, dialogs, told>>
     /\ UNCHANGED <<server, cookie, page, me, signIn, forms, signOut,
                    create, signedOut, outlived>>

-----------------------------------------------------------------------------
Answers ==
  \/ ServeMe \/ ApplyMe \/ ServeList \/ ApplyList
  \/ ApplySignOut
  \/ ServeNew \/ ApplyNew \/ ServeRevoke \/ ApplyRevoke

Effects == LeaveLogin \/ TurnAway

Next ==
  \/ \E p \in {"home", "login", "keys"} : Visit(p)
  \/ Reconnect \/ Expire \/ RetryMe \/ RetryList
  \/ \E mode \in {"login", "signup"}, u \in Users : SubmitForm(mode, u)
  \/ SignOut \/ OpenNew \/ Close \/ SubmitNew \/ SubmitRevoke
  \/ \E k \in Keys : OpenRevoke(k)
  \/ \E i \in 1..MaxForms : ServeSignIn(i) \/ ApplySignIn(i) \/ Land(i)
  \/ Answers \/ Effects

Spec == Init /\ [][Next]_vars

\* Each request is answered or fails, and an effect runs after the render that
\* calls for it, before anything else can take the reason away.
FairSpec ==
  /\ Spec
  /\ WF_vars(ServeMe \/ ApplyMe) /\ WF_vars(ServeList \/ ApplyList)
  /\ \A i \in 1..MaxForms : WF_vars(ServeSignIn(i) \/ ApplySignIn(i)) /\ WF_vars(Land(i))
  /\ WF_vars(ApplySignOut) /\ WF_vars(ServeNew \/ ApplyNew) /\ WF_vars(ServeRevoke \/ ApplyRevoke)
  /\ SF_vars(LeaveLogin) /\ SF_vars(TurnAway)

-----------------------------------------------------------------------------
(* What the tab promises *)

\* The page never shows one user's keys under another's name, though requests
\* carry whatever cookie there is when they are sent and a form that is gone
\* may still sign somebody in: unless a session outlived the tab's idea of it,
\* which is how two sign-ins at once do show one user's keys under another.
ListIsOwn ==
  Inside /\ list.loaded /\ ~outlived => \A k \in list.rows : issued[k] = me.data

\* A key the page has been told is revoked is not in the list any more once
\* the list is quiet, whatever fetch was under way when the answer came.
RevokedIsGone ==
  Inside /\ list.loaded /\ list.fetch = "none" /\ ~list.failed =>
    list.rows \cap told = {}

\* Once signed out, a tab shows no page behind AuthAware until somebody signs
\* in, whatever answers were still on their way.
SignedOutStaysOut == signedOut => ~Inside

\* The form, and nobody known to be signed in.
SignInForm == page = "login" /\ me.data = Nobody

\* A session that expires in mid-use lands the caller on the sign-in form, as
\* api-client.ts says of the 401s it handles itself; AuthAware's 401 is one of
\* the others.  Unless the user leaves, signs in, or a later answer differs.
LandsOnSignIn ==
  page = "keys" /\ me.data # Nobody /\ me.error = "401" ~>
    SignInForm \/ page = "home" \/ cookie # Nobody \/ me.error # "401"

=============================================================================
