--------------------------- MODULE AccountsProofs --------------------------
(***************************************************************************)
(* The safety of Accounts, for any users, keys and number of submissions   *)
(* of the form: what a tab shows is its user's own, what was revoked is    *)
(* gone from it, and whoever signed out stays out.                         *)
(***************************************************************************)
EXTENDS Accounts, FiniteSetTheorems, TLAPS

\* Nobody who was signed out is heard of again.
OutInv ==
  signedOut => cookie = Nobody /\ me.data = Nobody /\ me.fetch \notin Users

\* Dialogs and callbacks are those of the page, and a key to revoke was listed.
PageInv ==
  /\ dialogs # Closed => Inside
  /\ dialogs.confirm # {} \/ revoke.mounted => list.loaded
  /\ create.mounted \/ revoke.mounted => Inside

\* An answer that has come, or is current, was given after what the page has
\* been told.
GoneInv ==
  /\ list.fetch = "rows" => list.answer \cap told = {}
  /\ list.fetch = "none" /\ list.loaded /\ ~list.failed => list.rows \cap told = {}

\* No session but the one the tab knows of, if it knows of any.
OneSession ==
  /\ cookie # Nobody /\ me.data # Nobody => cookie = me.data
  /\ me.fetch \in Users =>
       (me.data # Nobody => me.fetch = me.data) /\ (cookie # Nobody => me.fetch = cookie)

\* With nobody known to be signed in there is no session to be found either,
\* while requests of an earlier one are still under way.
NoSession == cookie = Nobody /\ me.fetch \notin Users

Leftovers ==
  me.data = Nobody /\ (list.fetch # "none" \/ create.step # "idle" \/ revoke.step # "idle") =>
    NoSession

OwnRows ==
  /\ list.loaded => me.data # Nobody /\ \A k \in list.rows : issued[k] = me.data
  /\ list.fetch = "rows" => me.data # Nobody /\ \A k \in list.answer : issued[k] = me.data

OwnInv == ~outlived => OneSession /\ Leftovers /\ OwnRows

\* A submission with an answer to come or to be heard of is somebody's.
SignInTyped ==
  \A i \in 1..MaxForms : signIn[i].step \in {"sent", "granted"} => signIn[i].user \in Users

\* A revocation is answered when it is done.
RevokedInv == revoke.step = "done" => revoke.keys \subseteq revoked

AccountsInv == RevokedInv /\ TypeOK /\ SignInTyped /\ OutInv /\ PageInv /\ GoneInv /\ OwnInv

-----------------------------------------------------------------------------
(* The entries of the cache. *)

MeType ==
  [data : Users \cup {Nobody}, error : {"none", "401", "other"},
   fetch : Users \cup {"none", "asked", "401"}]

ListType ==
  [rows : SUBSET Keys, loaded : BOOLEAN, failed : BOOLEAN,
   fetch : {"none", "asked", "rows", "401"}, answer : SUBSET Keys]

RequestType ==
  [step : {"idle", "sent", "done", "401"}, keys : AtMostOne, mounted : BOOLEAN]

FormType ==
  [step : {"idle", "sent", "granted", "landing"}, mode : {"login", "signup"},
   user : Users \cup {Nobody}]

DialogsType == [new : BOOLEAN, reveal : AtMostOne, confirm : AtMostOne]

Strings == Users \cap {"none", "asked", "401"} = {} /\ Nobody \notin Users

LEMMA NamesDiffer == Strings
  BY AccountsAssumption DEF Strings

LEMMA MeAskedEntry ==
  ASSUME NEW m \in MeType
  PROVE  /\ MeAsked(m) \in MeType /\ MeAsked(m).data = m.data
         /\ \A p : InsideWith(p, MeAsked(m)) <=> InsideWith(p, m)
         /\ MeAsked(m).fetch \in {m.fetch, "asked"}
         /\ MeAsked(m).error # "none" => MeAsked(m).error = m.error
  BY DEF MeType, MeAsked, InsideWith

LEMMA NoMeAsked ==
  /\ MeAsked(NoMe) \in MeType /\ MeAsked(NoMe).data = Nobody
  /\ MeAsked(NoMe).fetch = "asked"
  BY DEF MeType, MeAsked, NoMe

LEMMA ListAskedEntry ==
  ASSUME NEW l \in ListType
  PROVE  /\ ListAsked(l) \in ListType /\ ListAsked(l).rows = l.rows
         /\ ListAsked(l).loaded = l.loaded /\ ListAsked(l).failed = l.failed
         /\ ListAsked(l).answer = l.answer
         /\ ListAsked(l).fetch = IF l.fetch = "none" THEN "asked" ELSE l.fetch
  BY DEF ListType, ListAsked

LEMMA RefetchedEntry ==
  ASSUME NEW l \in ListType
  PROVE  /\ Refetched(l) \in ListType /\ Refetched(l).rows = l.rows
         /\ Refetched(l).loaded = l.loaded /\ Refetched(l).failed = l.failed
         /\ l.loaded => Refetched(l).fetch = "asked"
         /\ ~l.loaded => Refetched(l) = ListAsked(l)
         /\ Refetched(l).fetch # "none"
  BY ListAskedEntry DEF ListType, Refetched

LEMMA NoListEntry ==
  /\ NoList \in ListType /\ ~NoList.loaded /\ NoList.fetch = "none" /\ NoList.rows = {}
  BY DEF NoList, ListType

Silenced(l) == [l EXCEPT !.fetch = "none", !.answer = {}]

LEMMA SilencedEntry ==
  ASSUME NEW l \in ListType
  PROVE  /\ Silenced(l) \in ListType /\ Silenced(l).rows = l.rows
         /\ Silenced(l).loaded = l.loaded /\ Silenced(l).fetch = "none"
  BY DEF Silenced, ListType

Unmounted(r) == [r EXCEPT !.mounted = FALSE]

LEMMA UnmountedRequest ==
  ASSUME NEW r \in RequestType
  PROVE  /\ Unmounted(r) \in RequestType /\ Unmounted(r).step = r.step
         /\ ~Unmounted(r).mounted
  BY DEF Unmounted, RequestType

LEMMA EmptyAtMostOne == {} \in AtMostOne /\ \A k \in Keys : {k} \in AtMostOne
  BY FS_EmptySet, FS_Singleton DEF AtMostOne

LEMMA IdleRequest == Idle \in RequestType /\ Idle.step = "idle" /\ ~Idle.mounted
  BY EmptyAtMostOne DEF Idle, RequestType

LEMMA ClosedDialogs == Closed \in DialogsType /\ Closed.confirm = {} /\ ~Closed.new
  BY EmptyAtMostOne DEF Closed, DialogsType

\* What a render makes of the keys page.
Leaves ==
  /\ Inside /\ ~Inside'
  /\ list' = Silenced(list) /\ dialogs' = Closed
  /\ create' = Unmounted(create) /\ revoke' = Unmounted(revoke) /\ told' = {}

Enters ==
  /\ ~Inside /\ Inside'
  /\ \/ list' = ListAsked(list)
     \/ list' = list /\ list.loaded /\ ~list.failed
  /\ UNCHANGED <<dialogs, create, revoke, told>>

Stays == (Inside <=> Inside') /\ UNCHANGED <<list, dialogs, create, revoke, told>>

Renders == Leaves \/ Enters \/ Stays

LEMMA RenderStep ==
  ASSUME NEW p, NEW m, Render(p, m)
  PROVE  page' = p /\ me' = m /\ Renders
<1>1. page' = p /\ me' = m /\ (Inside' <=> InsideWith(p, m))
  BY DEF Render, Inside, InsideWith
<1>2. CASE Inside /\ ~InsideWith(p, m)
  BY <1>1, <1>2 DEF Render, Renders, Leaves, Silenced, Unmounted
<1>3. CASE ~Inside /\ InsideWith(p, m)
  BY <1>1, <1>3 DEF Render, Renders, Enters, ListMounted
<1>4. CASE Inside <=> InsideWith(p, m)
  BY <1>1, <1>4 DEF Render, Renders, Stays
<1> QED
  BY <1>1, <1>2, <1>3, <1>4

LEMMA GoStep ==
  ASSUME NEW p, Go(p)
  PROVE  page' = p /\ me' \in {me, MeAsked(me)} /\ Renders
  BY RenderStep DEF Go, MeMounted

-----------------------------------------------------------------------------
(* The types. *)

ServerTyped ==
  /\ registered \subseteq Users
  /\ issued \in [Keys -> Users \cup {Nobody}]
  /\ cookie \in Users \cup {Nobody}
  /\ page \in {"home", "login", "keys"}

KeysTyped == revoked \subseteq {k \in Keys : issued[k] # Nobody} /\ told \subseteq revoked

MeTyped == me \in MeType
ListTyped == list \in ListType

FormTyped ==
  /\ signIn \in [1..MaxForms -> FormType]
  /\ forms \in 0 .. MaxForms
  /\ signOut \in BOOLEAN

\* A request names one key at most, and so does a dialog.
RequestsTyped ==
  /\ create \in RequestType /\ revoke \in RequestType
  /\ dialogs \in DialogsType

FlagsTyped == signedOut \in BOOLEAN /\ outlived \in BOOLEAN

LEMMA TypeParts ==
  TypeOK <=> /\ ServerTyped /\ KeysTyped /\ MeTyped /\ ListTyped /\ FormTyped
             /\ RequestsTyped /\ FlagsTyped
  BY DEF TypeOK, ServerTyped, KeysTyped, MeTyped, ListTyped, FormTyped, RequestsTyped, FlagsTyped,
         MeType, ListType, RequestType, FormType, DialogsType

LEMMA ApplyMeStep ==
  ASSUME TypeOK, ApplyMe
  PROVE  /\ me' \in MeType /\ me'.fetch = "none"
         /\ me'.data = me.data \/ (me.fetch \in Users /\ me'.data = me.fetch)
         /\ page' = page /\ Renders
<1>0. me \in MeType
  BY TypeParts DEF MeTyped
<1>1. CASE /\ me.fetch \in Users
           /\ Render(page, [data |-> me.fetch, error |-> "none", fetch |-> "none"])
  BY <1>1, RenderStep DEF MeType
<1>2. ASSUME NEW e \in {"401", "other"}, Render(page, [me EXCEPT !.error = e, !.fetch = "none"])
      PROVE  /\ me' \in MeType /\ me'.fetch = "none" /\ me'.data = me.data
             /\ page' = page /\ Renders
  <2>1. page' = page /\ Renders /\ me' = [me EXCEPT !.error = e, !.fetch = "none"]
    BY <1>2, RenderStep
  <2>2. me' \in MeType /\ me'.fetch = "none" /\ me'.data = me.data
    BY <1>0, <1>2, <2>1 DEF MeType
  <2> QED
    BY <2>1, <2>2
<1> QED
  BY <1>1, <1>2 DEF ApplyMe

LEMMA ServeListStep ==
  ASSUME TypeOK, ServeList
  PROVE  /\ list' \in ListType /\ list'.fetch \in {"401", "rows"} /\ list.fetch = "asked"
         /\ list'.rows = list.rows /\ list'.loaded = list.loaded /\ list'.failed = list.failed
         /\ list'.answer \cap revoked = {}
         /\ list'.fetch = "rows" => cookie # Nobody
         /\ \A k \in list'.answer : issued[k] = cookie
         /\ UNCHANGED <<server, cookie, page, me, mutations, dialogs, told, signedOut, outlived>>
<1>1. list \in ListType
  BY TypeParts DEF ListTyped
<1> DEFINE answer == {k \in Keys \ revoked : cookie # Nobody /\ issued[k] = cookie}
           fetch == IF cookie = Nobody THEN "401" ELSE "rows"
<1>2. list' = [list EXCEPT !.fetch = fetch, !.answer = answer] /\ list.fetch = "asked"
  BY DEF ServeList
<1>3. answer \in SUBSET Keys /\ answer \cap revoked = {} /\ \A k \in answer : issued[k] = cookie
  OBVIOUS
<1>4. fetch \in {"401", "rows"} /\ (fetch = "rows" => cookie # Nobody)
  OBVIOUS
<1> HIDE DEF answer, fetch
<1>5. list' \in ListType /\ list'.fetch = fetch /\ list'.answer = answer
  BY <1>1, <1>2, <1>3, <1>4 DEF ListType
<1>6. list'.rows = list.rows /\ list'.loaded = list.loaded /\ list'.failed = list.failed
  BY <1>1, <1>2 DEF ListType
<1> QED
  BY <1>2, <1>3, <1>4, <1>5, <1>6 DEF ServeList

LEMMA ApplyListStep ==
  ASSUME TypeOK, ApplyList
  PROVE  \/ Reload
         \/ /\ list' \in ListType /\ list'.fetch = "none" /\ list.fetch # "none"
            /\ \/ list.fetch = "rows" /\ list'.rows = list.answer /\ list'.loaded
               \/ list'.failed /\ list'.rows = list.rows /\ list'.loaded = list.loaded
            /\ UNCHANGED <<server, cookie, page, me, mutations, dialogs, told, signedOut, outlived>>
<1>1. list \in ListType
  BY TypeParts DEF ListTyped
<1>2. CASE list.fetch = "rows" /\ list' = [NoList EXCEPT !.rows = list.answer, !.loaded = TRUE]
  <2>1. /\ list' \in ListType /\ list'.fetch = "none"
        /\ list'.rows = list.answer /\ list'.loaded
    BY <1>1, <1>2 DEF NoList, ListType
  <2> QED
    BY <1>2, <2>1 DEF ApplyList
<1>3. CASE /\ list.fetch # "none"
           /\ list' = [list EXCEPT !.failed = TRUE, !.fetch = "none", !.answer = {}]
  <2>1. /\ list' \in ListType /\ list'.fetch = "none" /\ list'.failed
        /\ list'.rows = list.rows /\ list'.loaded = list.loaded
    BY <1>1, <1>3 DEF ListType
  <2> QED
    BY <1>3, <2>1 DEF ApplyList
<1> QED
  BY <1>2, <1>3 DEF ApplyList

LEMMA NoSignInForm ==
  /\ NoSignIn \in FormType /\ NoSignIn.step = "idle"
  /\ NoSignIns \in [1..MaxForms -> FormType]
  /\ \A i \in 1..MaxForms : NoSignIns[i] = NoSignIn
  BY DEF NoSignIn, NoSignIns, FormType

LEMMA ServeSignInStep ==
  ASSUME TypeOK, SignInTyped, NEW i \in 1..MaxForms, ServeSignIn(i)
  PROVE  /\ signIn[i].user \in Users
         /\ \E f \in FormType :
              /\ signIn' = [signIn EXCEPT ![i] = f]
              /\ f.step \in {"sent", "granted"} => f.user \in Users
<1>1. signIn[i].user \in Users
  BY DEF SignInTyped, ServeSignIn
<1> DEFINE g == [NoSignIn EXCEPT !.step = "granted", !.user = signIn[i].user]
<1>2. g \in FormType /\ g.user \in Users
  BY <1>1 DEF NoSignIn, FormType
<1>3. \E f \in {g, NoSignIn} : signIn' = [signIn EXCEPT ![i] = f]
  BY DEF ServeSignIn
<1> HIDE DEF g
<1> QED
  BY <1>1, <1>2, <1>3, NoSignInForm

LEMMA ApplySignInStep ==
  ASSUME TypeOK, NEW i \in 1..MaxForms, ApplySignIn(i)
  PROVE  /\ signIn[i].user \in Users \cup {Nobody}
         /\ SignInTyped => signIn[i].user \in Users
         /\ cookie' = signIn[i].user /\ me' \in MeType /\ me'.data = signIn[i].user
         /\ me'.fetch = IF page = "home" THEN me.fetch ELSE "asked"
         /\ page' = page /\ Renders
         /\ signedOut' = FALSE /\ outlived' = (outlived \/ Supplants(signIn[i].user))
         /\ UNCHANGED <<server, forms, signOut>>
<1> DEFINE u == signIn[i].user
           m == [data |-> u, error |-> "none",
                 fetch |-> IF page = "home" THEN me.fetch ELSE "asked"]
<1>1. u \in Users \cup {Nobody} /\ (SignInTyped => u \in Users)
  BY TypeParts DEF FormTyped, FormType, SignInTyped, ApplySignIn
<1>2. me \in MeType
  BY TypeParts DEF MeTyped
<1>3. /\ Render(page, m) /\ cookie' = u
      /\ signedOut' = FALSE /\ outlived' = (outlived \/ Supplants(u))
      /\ UNCHANGED <<server, forms, signOut>>
  BY DEF ApplySignIn
<1>4. page' = page /\ me' = m /\ Renders
  BY <1>3, RenderStep
<1>5. m \in MeType
  BY <1>1, <1>2 DEF MeType
<1>6. m.data = u /\ m.fetch = IF page = "home" THEN me.fetch ELSE "asked"
  OBVIOUS
<1> HIDE DEF u, m
<1>7. me' \in MeType /\ me'.data = u /\ me'.fetch = IF page = "home" THEN me.fetch ELSE "asked"
  BY <1>4, <1>5, <1>6
<1> QED
  BY <1>1, <1>3, <1>4, <1>7 DEF u

LEMMA SignInRenders ==
  ASSUME NEW i, ApplySignIn(i)
  PROVE  Renders /\ UNCHANGED <<registered, issued, revoked>>
  BY RenderStep DEF ApplySignIn, server

LEMMA LandingForm ==
  ASSUME NEW i \in 1..MaxForms, ApplySignIn(i)
  PROVE  \E f \in FormType : f.step = "landing" /\ signIn' = [signIn EXCEPT ![i] = f]
<1> DEFINE f == [NoSignIn EXCEPT !.step = "landing"]
<1>1. f \in FormType /\ f.step = "landing"
  BY DEF NoSignIn, FormType
<1>2. signIn' = [signIn EXCEPT ![i] = f]
  BY DEF ApplySignIn
<1> QED
  BY <1>1, <1>2

LEMMA SubmitFormStep ==
  ASSUME TypeOK, NEW mode \in {"login", "signup"}, NEW u \in Users, SubmitForm(mode, u)
  PROVE  /\ forms + 1 \in 1..MaxForms /\ forms' = forms + 1
         /\ \E f \in FormType :
              f.user = u /\ signIn' = [signIn EXCEPT ![forms + 1] = f]
<1> DEFINE f == [step |-> "sent", mode |-> mode, user |-> u]
<1>1. f \in FormType /\ f.user = u
  BY DEF FormType
<1>2. forms + 1 \in 1..MaxForms
  BY TypeParts, AccountsAssumption DEF FormTyped, SubmitForm
<1>3. forms' = forms + 1 /\ signIn' = [signIn EXCEPT ![forms + 1] = f]
  BY DEF SubmitForm
<1> HIDE DEF f
<1> QED
  BY <1>1, <1>2, <1>3

LEMMA ServeNewStep ==
  ASSUME TypeOK, ServeNew
  PROVE  /\ create' \in RequestType /\ create'.mounted = create.mounted
         /\ create.step = "sent" /\ create'.step # "idle"
         /\ issued' \in [Keys -> Users \cup {Nobody}]
         /\ \A k \in Keys : issued[k] # Nobody => issued'[k] = issued[k]
<1>1. create \in RequestType
  BY TypeParts DEF RequestsTyped
<1>2. CASE create' = [create EXCEPT !.step = "401"] /\ UNCHANGED issued
  BY <1>1, <1>2 DEF ServeNew, RequestType, TypeOK
<1>3. ASSUME NEW k \in Keys, issued[k] = Nobody, issued' = [issued EXCEPT ![k] = cookie],
             create' = [create EXCEPT !.step = "done", !.keys = {k}]
      PROVE  /\ create' \in RequestType /\ create'.mounted = create.mounted
             /\ create'.step # "idle"
             /\ issued' \in [Keys -> Users \cup {Nobody}]
             /\ \A j \in Keys : issued[j] # Nobody => issued'[j] = issued[j]
  <2>1. {k} \in AtMostOne
    BY EmptyAtMostOne
  <2>2. create' \in RequestType /\ create'.mounted = create.mounted /\ create'.step # "idle"
    BY <1>1, <1>3, <2>1 DEF RequestType
  <2> QED
    BY <1>3, <2>2 DEF TypeOK
<1> QED
  BY <1>2, <1>3 DEF ServeNew

LEMMA ApplyNewStep ==
  ASSUME TypeOK, ApplyNew
  PROVE  \/ Reload
         \/ /\ create.step # "idle" /\ create' = Idle
            /\ list' \in {list, Refetched(list)}
            /\ dialogs' \in DialogsType /\ dialogs'.confirm = dialogs.confirm
            /\ dialogs' = dialogs \/ create.mounted
            /\ UNCHANGED <<server, cookie, page, me, signIn, forms, signOut,
                           revoke, told, signedOut, outlived>>
<1>1. create \in RequestType /\ dialogs \in DialogsType
  BY TypeParts DEF RequestsTyped
<1>2. CASE create.mounted /\ dialogs' = [dialogs EXCEPT !.new = FALSE, !.reveal = create.keys]
  <2>1. dialogs' \in DialogsType /\ dialogs'.confirm = dialogs.confirm
    BY <1>1, <1>2 DEF DialogsType, RequestType
  <2> QED
    BY <1>2, <2>1 DEF ApplyNew
<1>3. CASE dialogs' = dialogs
  BY <1>1, <1>3 DEF ApplyNew
<1> QED
  BY <1>2, <1>3 DEF ApplyNew

LEMMA ServeRevokeStep ==
  ASSUME TypeOK, ServeRevoke
  PROVE  /\ revoke.step = "sent" /\ revoke'.step \in {"401", "done"}
         /\ revoke' \in RequestType /\ revoke'.keys = revoke.keys
         /\ revoke'.mounted = revoke.mounted
         /\ revoked \subseteq revoked'
         /\ revoke'.step = "done" => revoke.keys \subseteq revoked'
<1>1. revoke \in RequestType
  BY TypeParts DEF RequestsTyped
<1>2. revoke' \in {[revoke EXCEPT !.step = "401"], [revoke EXCEPT !.step = "done"]}
  BY DEF ServeRevoke
<1>3. /\ revoke'.step \in {"401", "done"} /\ revoke' \in RequestType
      /\ revoke'.keys = revoke.keys /\ revoke'.mounted = revoke.mounted
  BY <1>1, <1>2 DEF RequestType
<1>4. CASE cookie = Nobody
  <2>1. revoke' = [revoke EXCEPT !.step = "401"] /\ revoked' = revoked
    BY <1>4 DEF ServeRevoke
  <2>2. revoke'.step = "401"
    BY <1>1, <2>1 DEF RequestType
  <2> QED
    BY <1>3, <2>1, <2>2 DEF ServeRevoke
<1>5. CASE cookie # Nobody
  BY <1>3, <1>5 DEF ServeRevoke
<1> QED
  BY <1>4, <1>5

LEMMA ApplyRevokeStep ==
  ASSUME TypeOK, ApplyRevoke
  PROVE  \/ Reload
         \/ /\ revoke.step # "idle" /\ revoke' = Idle
            /\ dialogs' \in DialogsType /\ dialogs'.confirm \in {dialogs.confirm, {}}
            /\ dialogs' = dialogs \/ revoke.mounted
            /\ \/ list' = list /\ told' = told
               \/ /\ revoke.step = "done" /\ list' = Refetched(list)
                  /\ told' = told \/ (revoke.mounted /\ told' = told \cup revoke.keys)
            /\ UNCHANGED <<server, cookie, page, me, signIn, forms, signOut,
                           create, signedOut, outlived>>
<1>1. dialogs \in DialogsType
  BY TypeParts DEF RequestsTyped
<1>2. CASE revoke.mounted /\ dialogs' = [dialogs EXCEPT !.confirm = {}]
  <2>1. dialogs' \in DialogsType /\ dialogs'.confirm = {}
    BY <1>1, <1>2, EmptyAtMostOne DEF DialogsType
  <2> QED
    BY <1>2, <2>1 DEF ApplyRevoke
<1>3. CASE dialogs' = dialogs
  BY <1>1, <1>3 DEF ApplyRevoke
<1> QED
  BY <1>2, <1>3 DEF ApplyRevoke

-----------------------------------------------------------------------------
(* Each part of the types holds after a step: one CASE for each action that  *)
(* changes what it speaks of, one for all the others.                        *)

LEMMA ServerPreserved ==
  ASSUME TypeOK, SignInTyped, [Next]_vars
  PROVE  ServerTyped'
<1> USE DEF TypeOK, ServerTyped, SignInTyped, server, mutations
<1>1. ASSUME NEW p \in {"home", "login", "keys"}, Visit(p) PROVE ServerTyped'
  BY <1>1, GoStep DEF Visit
<1>2. CASE LeaveLogin
  BY <1>2, GoStep DEF LeaveLogin
<1>3. CASE TurnAway
  BY <1>3, GoStep DEF TurnAway
<1>4. ASSUME NEW i \in 1..MaxForms, Land(i) PROVE ServerTyped'
  BY <1>4, GoStep DEF Land
<1>5. ASSUME Reload PROVE ServerTyped'
  BY <1>5 DEF Reload
<1>6. CASE Expire
  BY <1>6 DEF Expire
<1>7. CASE ApplyMe
  BY <1>7, ApplyMeStep DEF ApplyMe
<1>8. CASE ApplyList
  BY <1>8, ApplyListStep, <1>5 DEF ApplyList
<1>9. ASSUME NEW i \in 1..MaxForms, ServeSignIn(i) PROVE ServerTyped'
  BY <1>9, ServeSignInStep DEF ServeSignIn
<1>10. ASSUME NEW i \in 1..MaxForms, ApplySignIn(i) PROVE ServerTyped'
  BY <1>10, ApplySignInStep
<1>11. CASE ApplySignOut
  BY <1>11 DEF ApplySignOut, SignOutSettles
<1>12. CASE ServeNew
  BY <1>12, ServeNewStep DEF ServeNew
<1>13. CASE ApplyNew
  BY <1>13, ApplyNewStep, <1>5 DEF ApplyNew
<1>14. CASE ApplyRevoke
  BY <1>14, ApplyRevokeStep, <1>5 DEF ApplyRevoke
<1>15. CASE UNCHANGED <<registered, issued, cookie, page>>
  BY <1>15
<1>16. CASE \/ Reconnect \/ RetryMe \/ RetryList
            \/ (\E mode \in {"login", "signup"}, u \in Users : SubmitForm(mode, u))
            \/ ServeMe \/ ServeList \/ SignOut \/ OpenNew
            \/ (\E k \in Keys : OpenRevoke(k)) \/ Close \/ SubmitNew
            \/ SubmitRevoke \/ ServeRevoke \/ UNCHANGED vars
  BY <1>15, <1>16 DEF Reconnect, RetryMe, RetryList, SubmitForm,
                      ServeMe, ServeList, SignOut, OpenNew,
                      AllClosed, OpenRevoke, Close, SubmitNew, SubmitRevoke,
                      ServeRevoke, vars
<1> QED
  BY <1>1, <1>2, <1>3, <1>4, <1>6, <1>7, <1>8, <1>9, <1>10, <1>11, <1>12,
     <1>13, <1>14, <1>15, <1>16
  DEF Next, Answers, Effects

LEMMA MePreserved ==
  ASSUME TypeOK, SignInTyped, [Next]_vars
  PROVE  MeTyped'
<1> USE TypeParts, MeAskedEntry, NoMeAsked
<1> USE DEF SignInTyped, MeTyped, MeType, ServerTyped, server, mutations
<1>1. ASSUME NEW p \in {"home", "login", "keys"}, Visit(p) PROVE MeTyped'
  BY <1>1, GoStep DEF Visit
<1>2. CASE LeaveLogin
  BY <1>2, GoStep DEF LeaveLogin
<1>3. CASE TurnAway
  BY <1>3, GoStep DEF TurnAway
<1>4. ASSUME NEW i \in 1..MaxForms, Land(i) PROVE MeTyped'
  BY <1>4, GoStep DEF Land
<1>5. ASSUME Reload PROVE MeTyped'
  BY <1>5 DEF Reload
<1>6. CASE Reconnect
  BY <1>6 DEF Reconnect
<1>7. CASE RetryMe
  BY <1>7 DEF RetryMe
<1>8. CASE ServeMe
  BY <1>8 DEF ServeMe
<1>9. CASE ApplyMe
  BY <1>9, ApplyMeStep DEF ApplyMe
<1>10. CASE ApplyList
  BY <1>10, ApplyListStep, <1>5 DEF ApplyList
<1>11. ASSUME NEW i \in 1..MaxForms, ApplySignIn(i) PROVE MeTyped'
  BY <1>11, ApplySignInStep
<1>12. CASE ApplySignOut
  BY <1>12 DEF ApplySignOut, SignOutSettles
<1>13. CASE ApplyNew
  BY <1>13, ApplyNewStep, <1>5 DEF ApplyNew
<1>14. CASE ApplyRevoke
  BY <1>14, ApplyRevokeStep, <1>5 DEF ApplyRevoke
<1>15. CASE UNCHANGED <<me>>
  BY <1>15
<1>16. CASE \/ Expire \/ RetryList
            \/ (\E mode \in {"login", "signup"}, u \in Users : SubmitForm(mode, u))
            \/ ServeList \/ (\E i \in 1..MaxForms : ServeSignIn(i)) \/ SignOut \/ OpenNew
            \/ (\E k \in Keys : OpenRevoke(k)) \/ Close \/ SubmitNew \/ ServeNew
            \/ SubmitRevoke \/ ServeRevoke \/ UNCHANGED vars
  BY <1>15, <1>16 DEF Expire, RetryList, SubmitForm, ServeList,
                      ServeSignIn, SignOut, OpenNew, AllClosed,
                      OpenRevoke, Close, SubmitNew, ServeNew, SubmitRevoke,
                      ServeRevoke, vars
<1> QED
  BY <1>1, <1>2, <1>3, <1>4, <1>6, <1>7, <1>8, <1>9, <1>10, <1>11, <1>12,
     <1>13, <1>14, <1>15, <1>16
  DEF Next, Answers, Effects

LEMMA ListPreserved ==
  ASSUME TypeOK, [Next]_vars
  PROVE  ListTyped'
<1> USE TypeParts, ListAskedEntry, RefetchedEntry, NoListEntry, SilencedEntry
<1> USE DEF ListTyped, Renders, Leaves, Enters, Stays, server, mutations
<1>1. ASSUME NEW p \in {"home", "login", "keys"}, Visit(p) PROVE ListTyped'
  BY <1>1, GoStep DEF Visit
<1>2. CASE LeaveLogin
  BY <1>2, GoStep DEF LeaveLogin
<1>3. CASE TurnAway
  BY <1>3, GoStep DEF TurnAway
<1>4. ASSUME NEW i \in 1..MaxForms, Land(i) PROVE ListTyped'
  BY <1>4, GoStep DEF Land
<1>5. ASSUME Reload PROVE ListTyped'
  BY <1>5 DEF Reload
<1>6. CASE Reconnect
  BY <1>6 DEF Reconnect
<1>7. CASE RetryList
  BY <1>7 DEF RetryList
<1>8. CASE ApplyMe
  BY <1>8, ApplyMeStep DEF ApplyMe
<1>9. CASE ServeList
  BY <1>9, ServeListStep DEF ServeList
<1>10. CASE ApplyList
  BY <1>10, ApplyListStep, <1>5 DEF ApplyList
<1>11. ASSUME NEW i \in 1..MaxForms, ApplySignIn(i) PROVE ListTyped'
  BY <1>11, SignInRenders
<1>12. CASE ApplySignOut
  BY <1>12 DEF ApplySignOut, SignOutSettles
<1>13. CASE ApplyNew
  BY <1>13, ApplyNewStep, <1>5 DEF ApplyNew
<1>14. CASE ApplyRevoke
  BY <1>14, ApplyRevokeStep, <1>5 DEF ApplyRevoke
<1>15. CASE UNCHANGED <<list>>
  BY <1>15
<1>16. CASE \/ Expire \/ RetryMe
            \/ (\E mode \in {"login", "signup"}, u \in Users : SubmitForm(mode, u))
            \/ ServeMe \/ (\E i \in 1..MaxForms : ServeSignIn(i)) \/ SignOut \/ OpenNew
            \/ (\E k \in Keys : OpenRevoke(k)) \/ Close \/ SubmitNew \/ ServeNew
            \/ SubmitRevoke \/ ServeRevoke \/ UNCHANGED vars
  BY <1>15, <1>16 DEF Expire, RetryMe, SubmitForm, ServeMe,
                      ServeSignIn, SignOut, OpenNew, AllClosed,
                      OpenRevoke, Close, SubmitNew, ServeNew, SubmitRevoke,
                      ServeRevoke, vars
<1> QED
  BY <1>1, <1>2, <1>3, <1>4, <1>6, <1>7, <1>8, <1>9, <1>10, <1>11, <1>12,
     <1>13, <1>14, <1>15, <1>16
  DEF Next, Answers, Effects

LEMMA FormPreserved ==
  ASSUME TypeOK, SignInTyped, [Next]_vars
  PROVE  FormTyped'
<1> USE AccountsAssumption
<1> USE TypeParts, NoSignInForm
<1> USE DEF FormTyped, server, mutations
<1>1. ASSUME NEW i \in 1..MaxForms, Land(i) PROVE FormTyped'
  BY <1>1, GoStep DEF Land
<1>2. ASSUME Reload PROVE FormTyped'
  BY <1>2 DEF Reload
<1>3. ASSUME NEW mode \in {"login", "signup"}, NEW u \in Users, SubmitForm(mode, u)
      PROVE FormTyped'
  <2>1. signOut' = signOut
    BY <1>3 DEF SubmitForm
  <2>2. /\ forms + 1 \in 1..MaxForms /\ forms' = forms + 1
        /\ \E f \in FormType : signIn' = [signIn EXCEPT ![forms + 1] = f]
    BY <1>3, SubmitFormStep
  <2> QED
    BY <2>1, <2>2
<1>4. CASE ApplyList
  BY <1>4, ApplyListStep, <1>2 DEF ApplyList
<1>5. ASSUME NEW i \in 1..MaxForms, ServeSignIn(i) PROVE FormTyped'
  <2>1. UNCHANGED <<forms, signOut>>
    BY <1>5 DEF ServeSignIn
  <2>2. \E f \in FormType : signIn' = [signIn EXCEPT ![i] = f]
    BY <1>5, ServeSignInStep
  <2> QED
    BY <2>1, <2>2
<1>6. ASSUME NEW i \in 1..MaxForms, ApplySignIn(i) PROVE FormTyped'
  BY <1>6, ApplySignInStep, LandingForm
<1>7. CASE SignOut
  BY <1>7 DEF SignOut
<1>8. CASE ApplySignOut
  BY <1>8 DEF ApplySignOut, SignOutSettles
<1>9. CASE ApplyNew
  BY <1>9, ApplyNewStep, <1>2 DEF ApplyNew
<1>10. CASE ApplyRevoke
  BY <1>10, ApplyRevokeStep, <1>2 DEF ApplyRevoke
<1>11. CASE UNCHANGED <<signIn, forms, signOut>>
  BY <1>11
<1>12. CASE \/ (\E p \in {"home", "login", "keys"} : Visit(p)) \/ LeaveLogin
            \/ TurnAway \/ Reconnect \/ Expire \/ RetryMe \/ RetryList
            \/ ServeMe \/ ApplyMe \/ ServeList \/ OpenNew
            \/ (\E k \in Keys : OpenRevoke(k)) \/ Close \/ SubmitNew \/ ServeNew
            \/ SubmitRevoke \/ ServeRevoke \/ UNCHANGED vars
  BY <1>11, <1>12 DEF Visit, LeaveLogin, TurnAway, Reconnect, Expire,
                      RetryMe, RetryList, ServeMe, ApplyMe, ServeList,
                      OpenNew, AllClosed, OpenRevoke, Close, SubmitNew,
                      ServeNew, SubmitRevoke, ServeRevoke, vars
<1> QED
  BY <1>1, <1>3, <1>4, <1>5, <1>6, <1>7, <1>8, <1>9, <1>10, <1>11,
     <1>12
  DEF Next, Answers, Effects

LEMMA RequestsPreserved ==
  ASSUME TypeOK, [Next]_vars
  PROVE  RequestsTyped'
<1> USE TypeParts, EmptyAtMostOne, IdleRequest, ClosedDialogs,
        UnmountedRequest
<1> USE DEF RequestsTyped, RequestType, DialogsType, Renders, Leaves, Enters,
            Stays, Unmounted, server, mutations
<1>1. ASSUME NEW p \in {"home", "login", "keys"}, Visit(p) PROVE RequestsTyped'
  BY <1>1, GoStep DEF Visit
<1>2. CASE LeaveLogin
  BY <1>2, GoStep DEF LeaveLogin
<1>3. CASE TurnAway
  BY <1>3, GoStep DEF TurnAway
<1>4. ASSUME NEW i \in 1..MaxForms, Land(i) PROVE RequestsTyped'
  BY <1>4, GoStep DEF Land
<1>5. ASSUME Reload PROVE RequestsTyped'
  BY <1>5 DEF Reload
<1>6. CASE ApplyMe
  BY <1>6, ApplyMeStep DEF ApplyMe
<1>7. CASE ApplyList
  BY <1>7, ApplyListStep, <1>5 DEF ApplyList
<1>8. ASSUME NEW i \in 1..MaxForms, ApplySignIn(i) PROVE RequestsTyped'
  BY <1>8, SignInRenders
<1>9. CASE ApplySignOut
  BY <1>9 DEF ApplySignOut, SignOutSettles
<1>10. CASE OpenNew
  BY <1>10 DEF OpenNew, AllClosed
<1>11. ASSUME NEW k \in Keys, OpenRevoke(k) PROVE RequestsTyped'
  BY <1>11 DEF OpenRevoke, AllClosed
<1>12. CASE Close
  BY <1>12 DEF Close
<1>13. CASE SubmitNew
  BY <1>13 DEF SubmitNew
<1>14. CASE ServeNew
  BY <1>14, ServeNewStep DEF ServeNew
<1>15. CASE ApplyNew
  BY <1>15, ApplyNewStep, <1>5 DEF ApplyNew
<1>16. CASE SubmitRevoke
  BY <1>16 DEF SubmitRevoke
<1>17. CASE ServeRevoke
  BY <1>17, ServeRevokeStep DEF ServeRevoke
<1>18. CASE ApplyRevoke
  BY <1>18, ApplyRevokeStep, <1>5 DEF ApplyRevoke
<1>19. CASE UNCHANGED <<create, revoke, dialogs>>
  BY <1>19
<1>20. CASE \/ Reconnect \/ Expire \/ RetryMe \/ RetryList
            \/ (\E mode \in {"login", "signup"}, u \in Users : SubmitForm(mode, u))
            \/ ServeMe \/ ServeList \/ (\E i \in 1..MaxForms : ServeSignIn(i)) \/ SignOut
            \/ UNCHANGED vars
  BY <1>19, <1>20 DEF Reconnect, Expire, RetryMe, RetryList, SubmitForm, ServeMe, ServeList, ServeSignIn, SignOut,
                      vars
<1> QED
  BY <1>1, <1>2, <1>3, <1>4, <1>6, <1>7, <1>8, <1>9, <1>10, <1>11, <1>12,
     <1>13, <1>14, <1>15, <1>16, <1>17, <1>18, <1>19, <1>20
  DEF Next, Answers, Effects

LEMMA FlagsPreserved ==
  ASSUME TypeOK, [Next]_vars
  PROVE  FlagsTyped'
<1> USE DEF TypeOK, FlagsTyped, server, mutations
<1>1. ASSUME Reload PROVE FlagsTyped'
  BY <1>1 DEF Reload
<1>2. ASSUME NEW mode \in {"login", "signup"}, NEW u \in Users, SubmitForm(mode, u)
      PROVE FlagsTyped'
  BY <1>2 DEF SubmitForm
<1>3. CASE ApplyList
  BY <1>3, ApplyListStep, <1>1 DEF ApplyList
<1>4. ASSUME NEW i \in 1..MaxForms, ApplySignIn(i) PROVE FlagsTyped'
  BY <1>4, ApplySignInStep
<1>5. CASE ApplySignOut
  BY <1>5 DEF ApplySignOut, SignOutSettles
<1>6. CASE ApplyNew
  BY <1>6, ApplyNewStep, <1>1 DEF ApplyNew
<1>7. CASE ApplyRevoke
  BY <1>7, ApplyRevokeStep, <1>1 DEF ApplyRevoke
<1>8. CASE UNCHANGED <<signedOut, outlived>>
  BY <1>8
<1>9. CASE \/ (\E p \in {"home", "login", "keys"} : Visit(p)) \/ LeaveLogin
           \/ TurnAway \/ (\E i \in 1..MaxForms : Land(i)) \/ Reconnect \/ Expire \/ RetryMe \/ RetryList
           \/ ServeMe \/ ApplyMe \/ ServeList \/ (\E i \in 1..MaxForms : ServeSignIn(i)) \/ SignOut
           \/ OpenNew \/ (\E k \in Keys : OpenRevoke(k))
           \/ Close \/ SubmitNew \/ ServeNew \/ SubmitRevoke \/ ServeRevoke
           \/ UNCHANGED vars
  BY <1>8, <1>9 DEF Visit, LeaveLogin, TurnAway, Land, Reconnect, Expire,
                    RetryMe, RetryList, ServeMe, ApplyMe, ServeList,
                    ServeSignIn, SignOut, OpenNew, AllClosed,
                    OpenRevoke, Close, SubmitNew, ServeNew, SubmitRevoke,
                    ServeRevoke, vars
<1> QED
  BY <1>2, <1>3, <1>4, <1>5, <1>6, <1>7, <1>8, <1>9
  DEF Next, Answers, Effects

-----------------------------------------------------------------------------
(* The parts of the invariant that hold of whomever is signed in. *)

LEMMA SignInTypedPreserved ==
  ASSUME TypeOK, SignInTyped, [Next]_vars
  PROVE  SignInTyped'
<1> USE TypeParts, NoSignInForm
<1> USE DEF FormTyped, SignInTyped, server, mutations
<1>1. ASSUME Reload PROVE SignInTyped'
  BY <1>1 DEF Reload
<1>2. ASSUME NEW mode \in {"login", "signup"}, NEW u \in Users, SubmitForm(mode, u)
      PROVE SignInTyped'
  BY <1>2, SubmitFormStep DEF SubmitForm
<1>3. CASE ApplyList
  BY <1>3, ApplyListStep, <1>1 DEF ApplyList
<1>4. ASSUME NEW i \in 1..MaxForms, ServeSignIn(i) PROVE SignInTyped'
  BY <1>4, ServeSignInStep DEF ServeSignIn
<1>5. ASSUME NEW i \in 1..MaxForms, ApplySignIn(i) PROVE SignInTyped'
  BY <1>5, ApplySignInStep, LandingForm
<1>6. CASE ApplyNew
  BY <1>6, ApplyNewStep, <1>1 DEF ApplyNew
<1>7. CASE ApplyRevoke
  BY <1>7, ApplyRevokeStep, <1>1 DEF ApplyRevoke
<1>8. CASE UNCHANGED <<signIn>>
  BY <1>8
<1>9. CASE \/ (\E p \in {"home", "login", "keys"} : Visit(p)) \/ LeaveLogin
           \/ TurnAway \/ (\E i \in 1..MaxForms : Land(i)) \/ Reconnect \/ Expire \/ RetryMe \/ RetryList
           \/ ServeMe \/ ApplyMe \/ ServeList \/ SignOut
           \/ ApplySignOut \/ OpenNew \/ (\E k \in Keys : OpenRevoke(k))
           \/ Close \/ SubmitNew \/ ServeNew \/ SubmitRevoke \/ ServeRevoke
           \/ UNCHANGED vars
  BY <1>8, <1>9 DEF Visit, LeaveLogin, TurnAway, Land, Reconnect, Expire,
                    RetryMe, RetryList, ServeMe, ApplyMe, ServeList, SignOut,
                    ApplySignOut, SignOutSettles, OpenNew,
                    AllClosed, OpenRevoke, Close, SubmitNew, ServeNew,
                    SubmitRevoke, ServeRevoke, vars
<1> QED
  BY <1>2, <1>3, <1>4, <1>5, <1>6, <1>7, <1>8, <1>9
  DEF Next, Answers, Effects

LEMMA RevokedPreserved ==
  ASSUME TypeOK, RevokedInv, [Next]_vars
  PROVE  RevokedInv'
<1> USE TypeParts, IdleRequest, UnmountedRequest
<1> USE DEF RequestsTyped, RevokedInv, RequestType, Unmounted, Renders,
            Leaves, Enters, Stays, server, mutations
<1>1. ASSUME NEW p \in {"home", "login", "keys"}, Visit(p) PROVE RevokedInv'
  BY <1>1, GoStep DEF Visit
<1>2. CASE LeaveLogin
  BY <1>2, GoStep DEF LeaveLogin
<1>3. CASE TurnAway
  BY <1>3, GoStep DEF TurnAway
<1>4. ASSUME NEW i \in 1..MaxForms, Land(i) PROVE RevokedInv'
  BY <1>4, GoStep DEF Land
<1>5. ASSUME Reload PROVE RevokedInv'
  BY <1>5 DEF Reload
<1>6. CASE ApplyMe
  BY <1>6, ApplyMeStep DEF ApplyMe
<1>7. CASE ApplyList
  BY <1>7, ApplyListStep, <1>5 DEF ApplyList
<1>8. ASSUME NEW i \in 1..MaxForms, ApplySignIn(i) PROVE RevokedInv'
  BY <1>8, SignInRenders
<1>9. CASE ApplySignOut
  BY <1>9 DEF ApplySignOut, SignOutSettles
<1>10. CASE ApplyNew
  BY <1>10, ApplyNewStep, <1>5 DEF ApplyNew
<1>11. CASE SubmitRevoke
  BY <1>11 DEF SubmitRevoke
<1>12. CASE ServeRevoke
  BY <1>12, ServeRevokeStep DEF ServeRevoke
<1>13. CASE ApplyRevoke
  BY <1>13, ApplyRevokeStep, <1>5 DEF ApplyRevoke
<1>14. CASE UNCHANGED <<revoked, revoke>>
  BY <1>14
<1>15. CASE \/ Reconnect \/ Expire \/ RetryMe \/ RetryList
            \/ (\E mode \in {"login", "signup"}, u \in Users : SubmitForm(mode, u))
            \/ ServeMe \/ ServeList \/ (\E i \in 1..MaxForms : ServeSignIn(i)) \/ SignOut
            \/ OpenNew \/ (\E k \in Keys : OpenRevoke(k)) \/ Close \/ SubmitNew
            \/ ServeNew \/ UNCHANGED vars
  BY <1>14, <1>15 DEF Reconnect, Expire, RetryMe, RetryList, SubmitForm, ServeMe, ServeList, ServeSignIn, SignOut,
                      OpenNew, AllClosed, OpenRevoke, Close,
                      SubmitNew, ServeNew, vars
<1> QED
  BY <1>1, <1>2, <1>3, <1>4, <1>6, <1>7, <1>8, <1>9, <1>10, <1>11, <1>12,
     <1>13, <1>14, <1>15
  DEF Next, Answers, Effects

LEMMA KeysPreserved ==
  ASSUME TypeOK, RevokedInv, [Next]_vars
  PROVE  KeysTyped'
<1> USE TypeParts
<1> USE DEF RequestsTyped, RequestType, AtMostOne, ServerTyped, KeysTyped,
            RevokedInv, Renders, Leaves, Enters, Stays, server, mutations
<1>1. ASSUME NEW p \in {"home", "login", "keys"}, Visit(p) PROVE KeysTyped'
  BY <1>1, GoStep DEF Visit
<1>2. CASE LeaveLogin
  BY <1>2, GoStep DEF LeaveLogin
<1>3. CASE TurnAway
  BY <1>3, GoStep DEF TurnAway
<1>4. ASSUME NEW i \in 1..MaxForms, Land(i) PROVE KeysTyped'
  BY <1>4, GoStep DEF Land
<1>5. ASSUME Reload PROVE KeysTyped'
  BY <1>5 DEF Reload
<1>6. CASE ApplyMe
  BY <1>6, ApplyMeStep DEF ApplyMe
<1>7. CASE ApplyList
  BY <1>7, ApplyListStep, <1>5 DEF ApplyList
<1>8. ASSUME NEW i \in 1..MaxForms, ApplySignIn(i) PROVE KeysTyped'
  BY <1>8, SignInRenders
<1>9. CASE ApplySignOut
  BY <1>9 DEF ApplySignOut, SignOutSettles
<1>10. CASE ServeNew
  BY <1>10, ServeNewStep DEF ServeNew
<1>11. CASE ApplyNew
  BY <1>11, ApplyNewStep, <1>5 DEF ApplyNew
<1>12. CASE ServeRevoke
  BY <1>12, ServeRevokeStep DEF ServeRevoke
<1>13. CASE ApplyRevoke
  BY <1>13, ApplyRevokeStep, <1>5 DEF ApplyRevoke
<1>14. CASE UNCHANGED <<issued, revoked, told>>
  BY <1>14
<1>15. CASE \/ Reconnect \/ Expire \/ RetryMe \/ RetryList
            \/ (\E mode \in {"login", "signup"}, u \in Users : SubmitForm(mode, u))
            \/ ServeMe \/ ServeList \/ (\E i \in 1..MaxForms : ServeSignIn(i)) \/ SignOut
            \/ OpenNew \/ (\E k \in Keys : OpenRevoke(k)) \/ Close \/ SubmitNew
            \/ SubmitRevoke \/ UNCHANGED vars
  BY <1>14, <1>15 DEF Reconnect, Expire, RetryMe, RetryList, SubmitForm, ServeMe, ServeList, ServeSignIn, SignOut,
                      OpenNew, AllClosed, OpenRevoke, Close,
                      SubmitNew, SubmitRevoke, vars
<1> QED
  BY <1>1, <1>2, <1>3, <1>4, <1>6, <1>7, <1>8, <1>9, <1>10, <1>11, <1>12,
     <1>13, <1>14, <1>15
  DEF Next, Answers, Effects

LEMMA OutPreserved ==
  ASSUME TypeOK, SignInTyped, OutInv, [Next]_vars
  PROVE  OutInv'
<1> USE TypeParts, NamesDiffer, MeAskedEntry, NoMeAsked
<1> USE DEF MeTyped, OutInv, SignInTyped, Strings, server,
            mutations
<1>1. ASSUME NEW p \in {"home", "login", "keys"}, Visit(p) PROVE OutInv'
  BY <1>1, GoStep DEF Visit
<1>2. CASE LeaveLogin
  BY <1>2, GoStep DEF LeaveLogin
<1>3. CASE TurnAway
  BY <1>3, GoStep DEF TurnAway
<1>4. ASSUME NEW i \in 1..MaxForms, Land(i) PROVE OutInv'
  BY <1>4, GoStep DEF Land
<1>5. ASSUME Reload PROVE OutInv'
  BY <1>5 DEF Reload
<1>6. CASE Reconnect
  BY <1>6 DEF Reconnect
<1>7. CASE Expire
  BY <1>7 DEF Expire
<1>8. CASE RetryMe
  BY <1>8 DEF RetryMe
<1>9. CASE ServeMe
  BY <1>9 DEF ServeMe
<1>10. CASE ApplyMe
  BY <1>10, ApplyMeStep DEF ApplyMe
<1>11. CASE ApplyList
  BY <1>11, ApplyListStep, <1>5 DEF ApplyList
<1>12. ASSUME NEW i \in 1..MaxForms, ApplySignIn(i) PROVE OutInv'
  BY <1>12, ApplySignInStep
<1>13. CASE ApplySignOut
  BY <1>13 DEF ApplySignOut, SignOutSettles
<1>14. CASE ApplyNew
  BY <1>14, ApplyNewStep, <1>5 DEF ApplyNew
<1>15. CASE ApplyRevoke
  BY <1>15, ApplyRevokeStep, <1>5 DEF ApplyRevoke
<1>16. CASE UNCHANGED <<cookie, me, signedOut>>
  BY <1>16
<1>17. CASE \/ RetryList
            \/ (\E mode \in {"login", "signup"}, u \in Users : SubmitForm(mode, u))
            \/ ServeList \/ (\E i \in 1..MaxForms : ServeSignIn(i)) \/ SignOut \/ OpenNew
            \/ (\E k \in Keys : OpenRevoke(k)) \/ Close \/ SubmitNew \/ ServeNew
            \/ SubmitRevoke \/ ServeRevoke \/ UNCHANGED vars
  BY <1>16, <1>17 DEF RetryList, SubmitForm, ServeList,
                      ServeSignIn, SignOut, OpenNew, AllClosed,
                      OpenRevoke, Close, SubmitNew, ServeNew, SubmitRevoke,
                      ServeRevoke, vars
<1> QED
  BY <1>1, <1>2, <1>3, <1>4, <1>6, <1>7, <1>8, <1>9, <1>10, <1>11, <1>12,
     <1>13, <1>14, <1>15, <1>16, <1>17
  DEF Next, Answers, Effects

LEMMA PagePreserved ==
  ASSUME TypeOK, PageInv, [Next]_vars
  PROVE  PageInv'
<1> USE TypeParts, MeAskedEntry, NoMeAsked, NoListEntry, ListAskedEntry,
        RefetchedEntry, SilencedEntry, ClosedDialogs, IdleRequest,
        UnmountedRequest
<1> USE DEF MeTyped, ListTyped, RequestsTyped, PageInv, Inside, InsideWith,
            Renders, Leaves, Enters, Stays, server, mutations
<1>1. ASSUME NEW p \in {"home", "login", "keys"}, Visit(p) PROVE PageInv'
  BY <1>1, GoStep DEF Visit
<1>2. CASE LeaveLogin
  BY <1>2, GoStep DEF LeaveLogin
<1>3. CASE TurnAway
  BY <1>3, GoStep DEF TurnAway
<1>4. ASSUME NEW i \in 1..MaxForms, Land(i) PROVE PageInv'
  BY <1>4, GoStep DEF Land
<1>5. ASSUME Reload PROVE PageInv'
  BY <1>5 DEF Reload
<1>6. CASE Reconnect
  BY <1>6 DEF Reconnect
<1>7. CASE RetryMe
  BY <1>7 DEF RetryMe
<1>8. CASE RetryList
  BY <1>8 DEF RetryList
<1>9. CASE ServeMe
  BY <1>9 DEF ServeMe
<1>10. CASE ApplyMe
  BY <1>10, ApplyMeStep DEF ApplyMe
<1>11. CASE ServeList
  BY <1>11, ServeListStep DEF ServeList
<1>12. CASE ApplyList
  BY <1>12, ApplyListStep, <1>5 DEF ApplyList
<1>13. ASSUME NEW i \in 1..MaxForms, ApplySignIn(i) PROVE PageInv'
  BY <1>13, SignInRenders
<1>14. CASE ApplySignOut
  BY <1>14 DEF ApplySignOut, SignOutSettles
<1>15. CASE OpenNew
  BY <1>15 DEF OpenNew, AllClosed
<1>16. ASSUME NEW k \in Keys, OpenRevoke(k) PROVE PageInv'
  BY <1>16 DEF OpenRevoke, AllClosed
<1>17. CASE Close
  BY <1>17 DEF Close
<1>18. CASE SubmitNew
  BY <1>18 DEF SubmitNew
<1>19. CASE ServeNew
  BY <1>19, ServeNewStep DEF ServeNew
<1>20. CASE ApplyNew
  BY <1>20, ApplyNewStep, <1>5 DEF ApplyNew
<1>21. CASE SubmitRevoke
  BY <1>21 DEF SubmitRevoke
<1>22. CASE ServeRevoke
  BY <1>22, ServeRevokeStep DEF ServeRevoke
<1>23. CASE ApplyRevoke
  BY <1>23, ApplyRevokeStep, <1>5 DEF ApplyRevoke
<1>24. CASE UNCHANGED <<page, me, list, create, revoke, dialogs>>
  BY <1>24
<1>25. CASE \/ Expire
            \/ (\E mode \in {"login", "signup"}, u \in Users : SubmitForm(mode, u))
            \/ (\E i \in 1..MaxForms : ServeSignIn(i)) \/ SignOut \/ UNCHANGED vars
  BY <1>24, <1>25 DEF Expire, SubmitForm, ServeSignIn, SignOut,
                      vars
<1> QED
  BY <1>1, <1>2, <1>3, <1>4, <1>6, <1>7, <1>8, <1>9, <1>10, <1>11, <1>12,
     <1>13, <1>14, <1>15, <1>16, <1>17, <1>18, <1>19, <1>20, <1>21, <1>22,
     <1>23, <1>24, <1>25
  DEF Next, Answers, Effects

LEMMA GonePreserved ==
  ASSUME TypeOK, PageInv, GoneInv, RevokedInv, [Next]_vars
  PROVE  GoneInv'
<1> USE TypeParts, NoListEntry, ListAskedEntry, RefetchedEntry, SilencedEntry
<1> USE DEF ListTyped, KeysTyped, PageInv, GoneInv, Renders, Leaves, Enters,
            Stays, server, mutations
<1>1. ASSUME NEW p \in {"home", "login", "keys"}, Visit(p) PROVE GoneInv'
  BY <1>1, GoStep DEF Visit
<1>2. CASE LeaveLogin
  BY <1>2, GoStep DEF LeaveLogin
<1>3. CASE TurnAway
  BY <1>3, GoStep DEF TurnAway
<1>4. ASSUME NEW i \in 1..MaxForms, Land(i) PROVE GoneInv'
  BY <1>4, GoStep DEF Land
<1>5. ASSUME Reload PROVE GoneInv'
  BY <1>5 DEF Reload
<1>6. CASE Reconnect
  BY <1>6 DEF Reconnect
<1>7. CASE RetryList
  BY <1>7 DEF RetryList
<1>8. CASE ApplyMe
  BY <1>8, ApplyMeStep DEF ApplyMe
<1>9. CASE ServeList
  BY <1>9, ServeListStep DEF ServeList
<1>10. CASE ApplyList
  BY <1>10, ApplyListStep, <1>5 DEF ApplyList
<1>11. ASSUME NEW i \in 1..MaxForms, ApplySignIn(i) PROVE GoneInv'
  BY <1>11, SignInRenders
<1>12. CASE ApplySignOut
  BY <1>12 DEF ApplySignOut, SignOutSettles
<1>13. CASE ApplyNew
  BY <1>13, ApplyNewStep, <1>5 DEF ApplyNew
<1>14. CASE ApplyRevoke
  BY <1>14, ApplyRevokeStep, <1>5 DEF ApplyRevoke
<1>15. CASE UNCHANGED <<list, told>>
  BY <1>15
<1>16. CASE \/ Expire \/ RetryMe
            \/ (\E mode \in {"login", "signup"}, u \in Users : SubmitForm(mode, u))
            \/ ServeMe \/ (\E i \in 1..MaxForms : ServeSignIn(i)) \/ SignOut \/ OpenNew
            \/ (\E k \in Keys : OpenRevoke(k)) \/ Close \/ SubmitNew \/ ServeNew
            \/ SubmitRevoke \/ ServeRevoke \/ UNCHANGED vars
  BY <1>15, <1>16 DEF Expire, RetryMe, SubmitForm, ServeMe,
                      ServeSignIn, SignOut, OpenNew, AllClosed,
                      OpenRevoke, Close, SubmitNew, ServeNew, SubmitRevoke,
                      ServeRevoke, vars
<1> QED
  BY <1>1, <1>2, <1>3, <1>4, <1>6, <1>7, <1>8, <1>9, <1>10, <1>11, <1>12,
     <1>13, <1>14, <1>15, <1>16
  DEF Next, Answers, Effects

-----------------------------------------------------------------------------
(* Whose keys they are. *)

\* A tab that knows nobody has loaded nothing, and one that was reloaded has
\* nothing under way.
LEMMA SessionPreserved ==
  ASSUME TypeOK, SignInTyped, PageInv, OwnInv, ~outlived', [Next]_vars
  PROVE  OneSession'
<1> USE TypeParts, NamesDiffer, MeAskedEntry, NoMeAsked
<1> USE DEF MeTyped, OwnInv, OneSession, Leftovers, NoSession, SignInTyped,
            Strings, server, mutations
<1>1. ASSUME NEW p \in {"home", "login", "keys"}, Visit(p) PROVE OneSession'
  BY <1>1, GoStep DEF Visit
<1>2. CASE LeaveLogin
  BY <1>2, GoStep DEF LeaveLogin
<1>3. CASE TurnAway
  BY <1>3, GoStep DEF TurnAway
<1>4. ASSUME NEW i \in 1..MaxForms, Land(i) PROVE OneSession'
  BY <1>4, GoStep DEF Land
<1>5. ASSUME Reload PROVE OneSession'
  BY <1>5 DEF Reload
<1>6. CASE Reconnect
  BY <1>6 DEF Reconnect
<1>7. CASE Expire
  BY <1>7 DEF Expire
<1>8. CASE RetryMe
  BY <1>8 DEF RetryMe
<1>9. ASSUME NEW mode \in {"login", "signup"}, NEW u \in Users, SubmitForm(mode, u)
      PROVE OneSession'
  BY <1>9 DEF SubmitForm
<1>10. CASE ServeMe
  BY <1>10 DEF ServeMe
<1>11. CASE ApplyMe
  BY <1>11, ApplyMeStep DEF ApplyMe
<1>12. CASE ApplyList
  BY <1>12, ApplyListStep, <1>5 DEF ApplyList
<1>13. ASSUME NEW i \in 1..MaxForms, ServeSignIn(i) PROVE OneSession'
  BY <1>13, ServeSignInStep DEF ServeSignIn
<1>14. ASSUME NEW i \in 1..MaxForms, ApplySignIn(i) PROVE OneSession'
  <2>1. /\ signIn[i].user \in Users /\ cookie' = signIn[i].user
        /\ me'.data = signIn[i].user
        /\ me'.fetch = IF page = "home" THEN me.fetch ELSE "asked"
        /\ outlived' = (outlived \/ Supplants(signIn[i].user))
    BY <1>14, ApplySignInStep
  <2>2. Renders /\ issued' = issued
    BY <1>14, SignInRenders
  <2>3. ~Supplants(signIn[i].user) /\ ~outlived
    BY <2>1
  <2> QED
    BY <2>1, <2>2, <2>3 DEF Supplants
<1>15. CASE ApplySignOut
  BY <1>15 DEF ApplySignOut, SignOutSettles
<1>16. CASE ApplyNew
  BY <1>16, ApplyNewStep, <1>5 DEF ApplyNew
<1>17. CASE ApplyRevoke
  BY <1>17, ApplyRevokeStep, <1>5 DEF ApplyRevoke
<1>18. CASE UNCHANGED <<cookie, me, signIn, outlived>>
  BY <1>18
<1>19. CASE \/ RetryList \/ ServeList \/ SignOut \/ OpenNew
            \/ (\E k \in Keys : OpenRevoke(k)) \/ Close \/ SubmitNew \/ ServeNew
            \/ SubmitRevoke \/ ServeRevoke \/ UNCHANGED vars
  BY <1>18, <1>19 DEF RetryList, ServeList, SignOut, OpenNew,
                      AllClosed, OpenRevoke, Close, SubmitNew, ServeNew,
                      SubmitRevoke, ServeRevoke, vars
<1> QED
  BY <1>1, <1>2, <1>3, <1>4, <1>6, <1>7, <1>8, <1>9, <1>10, <1>11, <1>12,
     <1>13, <1>14, <1>15, <1>16, <1>17, <1>18, <1>19
  DEF Next, Answers, Effects

LEMMA LeftoversPreserved ==
  ASSUME TypeOK, SignInTyped, PageInv, OwnInv, ~outlived', [Next]_vars
  PROVE  Leftovers'
<1> USE TypeParts, NamesDiffer, MeAskedEntry, NoMeAsked, NoListEntry,
        ListAskedEntry, RefetchedEntry, SilencedEntry, ClosedDialogs,
        EmptyAtMostOne, IdleRequest, UnmountedRequest
<1> USE DEF MeTyped, ListTyped, RequestsTyped, PageInv, OwnInv, OneSession,
            Leftovers, NoSession, SignInTyped, Strings,
            Inside, InsideWith, Renders, Leaves, Enters, Stays, server,
            mutations
<1>1. ASSUME NEW p \in {"home", "login", "keys"}, Visit(p) PROVE Leftovers'
  BY <1>1, GoStep DEF Visit
<1>2. CASE LeaveLogin
  BY <1>2, GoStep DEF LeaveLogin
<1>3. CASE TurnAway
  BY <1>3, GoStep DEF TurnAway
<1>4. ASSUME NEW i \in 1..MaxForms, Land(i) PROVE Leftovers'
  BY <1>4, GoStep DEF Land
<1>5. ASSUME Reload PROVE Leftovers'
  BY <1>5 DEF Reload
<1>6. CASE Reconnect
  BY <1>6 DEF Reconnect
<1>7. CASE Expire
  BY <1>7 DEF Expire
<1>8. CASE RetryMe
  BY <1>8 DEF RetryMe
<1>9. CASE RetryList
  BY <1>9 DEF RetryList
<1>10. ASSUME NEW mode \in {"login", "signup"}, NEW u \in Users, SubmitForm(mode, u)
      PROVE Leftovers'
  BY <1>10 DEF SubmitForm
<1>11. CASE ServeMe
  BY <1>11 DEF ServeMe
<1>12. CASE ApplyMe
  BY <1>12, ApplyMeStep DEF ApplyMe
<1>13. CASE ServeList
  BY <1>13, ServeListStep DEF ServeList
<1>14. CASE ApplyList
  BY <1>14, ApplyListStep, <1>5 DEF ApplyList
<1>15. ASSUME NEW i \in 1..MaxForms, ServeSignIn(i) PROVE Leftovers'
  BY <1>15, ServeSignInStep DEF ServeSignIn
<1>16. ASSUME NEW i \in 1..MaxForms, ApplySignIn(i) PROVE Leftovers'
  BY <1>16, ApplySignInStep
<1>17. CASE ApplySignOut
  BY <1>17 DEF ApplySignOut, SignOutSettles
<1>18. CASE SubmitNew
  BY <1>18 DEF SubmitNew
<1>19. CASE ServeNew
  BY <1>19, ServeNewStep DEF ServeNew
<1>20. CASE ApplyNew
  BY <1>20, ApplyNewStep, <1>5 DEF ApplyNew
<1>21. CASE SubmitRevoke
  BY <1>21 DEF SubmitRevoke
<1>22. CASE ServeRevoke
  BY <1>22, ServeRevokeStep DEF ServeRevoke
<1>23. CASE ApplyRevoke
  BY <1>23, ApplyRevokeStep, <1>5 DEF ApplyRevoke
<1>24. CASE UNCHANGED <<cookie, me, list, signIn, create, revoke, outlived>>
  BY <1>24
<1>25. CASE \/ SignOut \/ OpenNew
            \/ (\E k \in Keys : OpenRevoke(k)) \/ Close \/ UNCHANGED vars
  BY <1>24, <1>25 DEF SignOut, OpenNew, AllClosed, OpenRevoke,
                      Close, vars
<1> QED
  BY <1>1, <1>2, <1>3, <1>4, <1>6, <1>7, <1>8, <1>9, <1>10, <1>11, <1>12,
     <1>13, <1>14, <1>15, <1>16, <1>17, <1>18, <1>19, <1>20, <1>21, <1>22,
     <1>23, <1>24, <1>25
  DEF Next, Answers, Effects

LEMMA RowsPreserved ==
  ASSUME TypeOK, SignInTyped, PageInv, OwnInv, ~outlived', [Next]_vars
  PROVE  OwnRows'
<1> USE TypeParts, NamesDiffer, MeAskedEntry, NoMeAsked, NoListEntry,
        ListAskedEntry, RefetchedEntry, SilencedEntry
<1> USE DEF MeTyped, ListTyped, OwnInv, OneSession, Leftovers, NoSession,
            OwnRows, Strings, Renders, Leaves, Enters, Stays,
            server, mutations
<1>1. ASSUME NEW p \in {"home", "login", "keys"}, Visit(p) PROVE OwnRows'
  BY <1>1, GoStep DEF Visit
<1>2. CASE LeaveLogin
  BY <1>2, GoStep DEF LeaveLogin
<1>3. CASE TurnAway
  BY <1>3, GoStep DEF TurnAway
<1>4. ASSUME NEW i \in 1..MaxForms, Land(i) PROVE OwnRows'
  BY <1>4, GoStep DEF Land
<1>5. ASSUME Reload PROVE OwnRows'
  BY <1>5 DEF Reload
<1>6. CASE Reconnect
  BY <1>6 DEF Reconnect
<1>7. CASE RetryMe
  BY <1>7 DEF RetryMe
<1>8. CASE RetryList
  BY <1>8 DEF RetryList
<1>9. ASSUME NEW mode \in {"login", "signup"}, NEW u \in Users, SubmitForm(mode, u)
      PROVE OwnRows'
  BY <1>9 DEF SubmitForm
<1>10. CASE ServeMe
  BY <1>10 DEF ServeMe
<1>11. CASE ApplyMe
  BY <1>11, ApplyMeStep DEF ApplyMe
<1>12. CASE ServeList
  BY <1>12, ServeListStep DEF ServeList
<1>13. CASE ApplyList
  BY <1>13, ApplyListStep, <1>5 DEF ApplyList
<1>14. ASSUME NEW i \in 1..MaxForms, ApplySignIn(i) PROVE OwnRows'
  <2>1. /\ signIn[i].user \in Users /\ cookie' = signIn[i].user
        /\ me'.data = signIn[i].user
        /\ me'.fetch = IF page = "home" THEN me.fetch ELSE "asked"
        /\ outlived' = (outlived \/ Supplants(signIn[i].user))
    BY <1>14, ApplySignInStep
  <2>2. Renders /\ issued' = issued
    BY <1>14, SignInRenders
  <2>3. ~Supplants(signIn[i].user) /\ ~outlived
    BY <2>1
  <2>4. OwnRows
    BY <2>3
  <2>5. list.loaded \/ list.fetch = "rows" => me.data = signIn[i].user
    BY <2>3, <2>4 DEF Supplants, MeType
  <2>6. /\ list'.loaded => list.loaded /\ list'.rows = list.rows
        /\ list'.fetch = "rows" => list.fetch = "rows" /\ list'.answer = list.answer
    BY <2>2
  <2> QED
    BY <2>1, <2>2, <2>4, <2>5, <2>6, TypeParts
<1>15. CASE ApplySignOut
  BY <1>15 DEF ApplySignOut, SignOutSettles
<1>16. CASE ServeNew
  <2>1. me' = me /\ list' = list /\ outlived' = outlived
    BY <1>16 DEF ServeNew
  <2>2. list.rows \subseteq Keys /\ list.answer \subseteq Keys
    BY DEF ListType
  <2>3. \A k \in Keys : issued[k] # Nobody => issued'[k] = issued[k]
    BY <1>16, ServeNewStep
  <2>4. OwnRows
    BY <2>1
  <2> QED
    BY <2>1, <2>2, <2>3, <2>4
<1>17. CASE ApplyNew
  BY <1>17, ApplyNewStep, <1>5 DEF ApplyNew
<1>18. CASE ApplyRevoke
  BY <1>18, ApplyRevokeStep, <1>5 DEF ApplyRevoke
<1>19. CASE UNCHANGED <<issued, me, list, outlived>>
  BY <1>19
<1>20. CASE \/ Expire \/ (\E i \in 1..MaxForms : ServeSignIn(i)) \/ SignOut \/ OpenNew
            \/ (\E k \in Keys : OpenRevoke(k)) \/ Close \/ SubmitNew
            \/ SubmitRevoke \/ ServeRevoke \/ UNCHANGED vars
  BY <1>19, <1>20 DEF Expire, ServeSignIn, SignOut, OpenNew,
                      AllClosed, OpenRevoke, Close, SubmitNew, SubmitRevoke,
                      ServeRevoke, vars
<1> QED
  BY <1>1, <1>2, <1>3, <1>4, <1>6, <1>7, <1>8, <1>9, <1>10, <1>11, <1>12,
     <1>13, <1>14, <1>15, <1>16, <1>17, <1>18, <1>19, <1>20
  DEF Next, Answers, Effects

-----------------------------------------------------------------------------
(* The invariant. *)

LEMMA Initially == Init => AccountsInv
<1> SUFFICES ASSUME Init PROVE AccountsInv
  OBVIOUS
<1>1. ServerTyped /\ KeysTyped /\ FlagsTyped
  BY DEF Init, ServerTyped, KeysTyped, FlagsTyped
<1>2. MeTyped /\ ListTyped
  BY DEF Init, MeTyped, MeType, NoMe, ListTyped, ListType, NoList
<1>3. FormTyped
  <2>1. NoSignIns \in [1..MaxForms -> FormType]
    BY NoSignInForm
  <2>2. 0 \in 0 .. MaxForms
    BY AccountsAssumption
  <2> QED
    BY <2>1, <2>2 DEF Init, FormTyped
<1>4. RequestsTyped
  BY IdleRequest, ClosedDialogs DEF Init, RequestsTyped
<1>5. RevokedInv /\ SignInTyped
  BY IdleRequest, NoSignInForm DEF Init, RevokedInv, SignInTyped
<1>6. OutInv
  BY DEF Init, OutInv
<1>7. PageInv
  BY IdleRequest, ClosedDialogs DEF Init, PageInv
<1>8. GoneInv
  BY DEF Init, GoneInv, NoList
<1>9. OwnInv
  BY NamesDiffer, IdleRequest
  DEF Init, OwnInv, OneSession, Leftovers, OwnRows, NoSession, NoMe, NoList, Strings
<1> QED
  BY TypeParts, <1>1, <1>2, <1>3, <1>4, <1>5, <1>6, <1>7, <1>8, <1>9 DEF AccountsInv

LEMMA AccountsInvariant == Spec => []AccountsInv
<1>1. AccountsInv /\ [Next]_vars => AccountsInv'
  <2> SUFFICES ASSUME AccountsInv, [Next]_vars PROVE AccountsInv'
    OBVIOUS
  <2> USE DEF AccountsInv
  <2>1. TypeOK'
    <3>1. ServerTyped' /\ KeysTyped' /\ MeTyped' /\ ListTyped' /\ FormTyped'
      BY ServerPreserved, KeysPreserved, MePreserved, ListPreserved, FormPreserved
    <3>2. RequestsTyped' /\ FlagsTyped'
      BY RequestsPreserved, FlagsPreserved
    <3> QED
      BY <3>1, <3>2
      DEF TypeOK, ServerTyped, KeysTyped, MeTyped, ListTyped, FormTyped, RequestsTyped,
          FlagsTyped, MeType, ListType, RequestType, FormType, DialogsType
  <2>2. RevokedInv' /\ SignInTyped'
    BY RevokedPreserved, SignInTypedPreserved
  <2>3. OutInv' /\ PageInv' /\ GoneInv'
    BY OutPreserved, PagePreserved, GonePreserved
  <2>4. ASSUME ~outlived' PROVE OneSession' /\ Leftovers' /\ OwnRows'
    BY <2>4, SessionPreserved, LeftoversPreserved, RowsPreserved
  <2>5. OwnInv'
    BY <2>4 DEF OwnInv
  <2> QED
    BY <2>1, <2>2, <2>3, <2>5
<1> QED
  BY Initially, <1>1, PTL DEF Spec

\* Requests, answers and pages only ever take the forms TypeOK gives them,
\* whatever is under way when the tab is reloaded or signed out.
THEOREM AccountsTyped == Spec => []TypeOK
<1>1. AccountsInv => TypeOK
  BY DEF AccountsInv
<1> QED
  BY AccountsInvariant, <1>1, PTL

\* A key the page has been told is revoked is not in its list once the list
\* is quiet: Refetched starts anew, so the answer it waits for is given after
\* the revocation.
THEOREM RevokedKeysGone == Spec => []RevokedIsGone
<1>1. AccountsInv => RevokedIsGone
  BY DEF AccountsInv, GoneInv, RevokedIsGone
<1> QED
  BY AccountsInvariant, <1>1, PTL

\* After ApplySignOut no page behind AuthAware is shown until somebody signs
\* in: the cleared cache takes the fetch under way with it.
THEOREM SignedOutStays == Spec => []SignedOutStaysOut
<1>1. AccountsInv => SignedOutStaysOut
  BY DEF AccountsInv, OutInv, SignedOutStaysOut, Inside, InsideWith
<1> QED
  BY AccountsInvariant, <1>1, PTL

\* The keys on the page are those of the user it names, however many sign-ins
\* are under way at once and whatever they find, unless a sign-out failed or
\* an answer signed somebody in over a user the tab knew of.
THEOREM ListsAreOwn == Spec => []ListIsOwn
<1>1. AccountsInv => ListIsOwn
  BY DEF AccountsInv, OwnInv, OwnRows, ListIsOwn
<1> QED
  BY AccountsInvariant, <1>1, PTL

=============================================================================
