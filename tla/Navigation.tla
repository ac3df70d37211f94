------------------------------ MODULE Navigation ------------------------------
(***************************************************************************)
(* One browser tab of the web application.  A page is reached through the  *)
(* layouts above it: the dashboard's layout reads /auth/me on the server   *)
(* and draws the menu, the administration has a second layout, the sign-in *)
(* pages send away who is signed in, and /redirect sorts accounts by role  *)
(* behind two gates.  A link followed inside the dashboard keeps the       *)
(* layout, hence the menu, that was drawn before; router.refresh() draws   *)
(* it again.  Meanwhile the administrator changes the account and another  *)
(* tab may end the session.                                                *)
(***************************************************************************)
EXTENDS Pages, Naturals

CONSTANTS Start,        \* the accounts the tab may belong to
          MaxFailures   \* how many calls of /auth/me, or of Clerk for a token, fail

AccountRow == [roles : SUBSET Roles, suspended : BOOLEAN, mustChange : BOOLEAN, terms : BOOLEAN]

ASSUME NavigationAssumption == Start \subseteq AccountRow /\ MaxFailures \in Nat

VARIABLES account,   \* the row: [roles, suspended, mustChange, terms]
          session,   \* Clerk's session of this browser is alive
          path,      \* the address of the tab
          stage,     \* how far that page has come
          menu,      \* the roles the dashboard's frame was drawn with, {} when it is not there
          read,      \* the roles the page itself has read
          icon,      \* where the message icon of the public frame leads
          tries,     \* failed attempts of /redirect
          refresh,   \* a router.refresh() has not been answered yet
          owed,      \* the person became an owner from this tab
          failures

tabVars == <<account, session, path, stage, menu, read, icon, tries, refresh, owed, failures>>

Stages   == {"server", "espace", "client", "asking", "shown", "failed", "spinning", "tokenless", "unread"}
AtRest   == {"shown", "failed", "spinning", "tokenless", "unread"}
Attempts == 3
Newcomer == [roles |-> {"LOCATAIRE"}, suspended |-> FALSE, mustChange |-> FALSE, terms |-> FALSE]

\* What the API answers /auth/me: the account, or a refusal.
Accepted == session /\ ~account.suspended

Fail == failures < MaxFailures /\ failures' = failures + 1
Well == UNCHANGED failures

\* Clerk's getToken() gives no token where there is no session; with one it may still give none,
\* or reject.
NoToken(outcome) == \/ outcome = "none" /\ ~session /\ Well
                    \/ outcome \in {"none", "rejected"} /\ session /\ Fail
Spins(p, outcome) == p \in (IF outcome = "none" THEN SpinWithoutToken ELSE SpinOnFailure)

----------------------------------------------------------------------------
\* Going from one address to the next.

\* A page behind no layout that reads the session starts in the browser.
Entry(p) == CASE p \in Dashboard \cup AuthPages -> "server"
              [] p \in Gates                    -> "shown"
              [] OTHER                          -> "client"

\* A full load, or a navigation that crosses from one tree of layouts to another.
LoadPage(p) == path' = p /\ stage' = Entry(p) /\ menu' = {} /\ read' = {} /\ tries' = 0
           /\ icon' = IF p \in PublicAt THEN icon ELSE {}

\* Inside the dashboard its layout stays; the administration's runs when one enters it.
KeepFrame(p) == path' = p /\ menu' = menu /\ read' = {} /\ tries' = 0 /\ UNCHANGED icon
           /\ stage' = IF p \in Espace /\ path \notin Espace THEN "espace" ELSE "client"

Go(p) == IF menu # {} /\ p \in Dashboard THEN KeepFrame(p) ELSE LoadPage(p)

\* What the page goes on with once it may run.
Proceed(next) == stage' = next /\ UNCHANGED <<path, menu, tries, icon>>

----------------------------------------------------------------------------
\* The steps nobody asks for: layouts, guards of pages, first requests.

\* The dashboard's layout: no session, a refusal or a failure all lead to /sign-in.
DashboardLayout ==
  /\ stage = "server" /\ path \in Dashboard
  /\ \/ /\ Accepted /\ Well /\ menu' = account.roles
        /\ stage' = IF path \in Espace THEN "espace" ELSE "client"
        /\ UNCHANGED <<path, read, tries, icon>>
     \/ ~Accepted /\ Well /\ LoadPage("sign_in")
     \/ Accepted /\ Fail /\ LoadPage("sign_in")
  /\ UNCHANGED <<account, session, refresh, owed>>

\* The administration's layout sends everybody else to the home page.
EspaceLayout ==
  /\ stage = "espace"
  /\ \/ Accepted /\ "ADMIN" \in account.roles /\ Well /\ Proceed("client") /\ UNCHANGED read
     \/ Accepted /\ "ADMIN" \notin account.roles /\ Well /\ LoadPage("home")
     \/ ~Accepted /\ Well /\ LoadPage("sign_in")
     \/ Accepted /\ Fail /\ LoadPage("sign_in")
  /\ UNCHANGED <<account, session, refresh, owed>>

\* The layout of the sign-in pages: whoever has a session goes to /redirect.
AuthLayout ==
  /\ stage = "server" /\ path \in AuthPages
  /\ IF session THEN LoadPage("redirect") ELSE Proceed("shown") /\ UNCHANGED read
  /\ UNCHANGED <<account, session, refresh, owed, failures>>

\* The gates of /redirect, in the order it checks them.
Gate == CASE account.mustChange -> "change_password"
          [] ~account.terms     -> "accept_terms"
          [] OTHER              -> Home(account.roles)

\* /redirect: three attempts unless the API says that nobody is signed in; a token that is refused
\* with an error, outside the attempts, leaves it waiting.
Redirect ==
  /\ stage = "client" /\ path = "redirect"
  /\ \/ ~Accepted /\ Well /\ LoadPage("sign_in")
     \/ Accepted /\ Well /\ LoadPage(Gate)
     \/ NoToken("none") /\ LoadPage("sign_in")
     \/ session /\ NoToken("rejected") /\ Proceed("tokenless") /\ UNCHANGED read
     \/ Accepted /\ Fail /\ tries + 1 < Attempts /\ tries' = tries + 1
        /\ UNCHANGED <<path, stage, menu, read, icon>>
     \/ Accepted /\ Fail /\ tries + 1 = Attempts /\ tries' = 0 /\ stage' = "failed"
        /\ UNCHANGED <<path, menu, read, icon>>
  /\ UNCHANGED <<account, session, refresh, owed>>

\* Pages that read /auth/me before anything else, and where they send an account that is not theirs.
Readers == {"bailleur", "publier", "become_bailleur", "bailleur_ma_vitrine", "bailleur_abonnement", "bailleur_listings_new"}
Detour(p, roles, subscribed) ==
  CASE p = "become_bailleur" /\ roles \cap Owner # {}             -> "bailleur_listings"
    [] p \in {"publier", "become_bailleur"} /\ "ADMIN" \in roles  -> "espace"
    [] p \in {"publier", "become_bailleur"} /\ "AGENT_TERRAIN" \in roles -> "agent_verifications"
    [] p \in {"bailleur_ma_vitrine", "bailleur_abonnement"} /\ "PRO_AGENCE" \notin roles -> "bailleur"
    [] p = "bailleur_listings_new" /\ "PRO_AGENCE" \in roles /\ ~subscribed -> "bailleur_abonnement"
    [] OTHER -> p

UnreadForEver(p) == IF p = "publier" THEN "spinning" ELSE "asking"   \* mutant: rolesLoaded set on success only

\* A page whose reading failed shows itself as to an account without a role.
Unread(p) == "asking"

\* The wizard and a booking look at the session themselves: the one shows itself to a visitor, the
\* other sends them to sign in.
PageReads ==
  /\ stage = "client" /\ path # "redirect"
  /\ \/ path = "booking" /\ ~session /\ Well /\ LoadPage("sign_in")
     \/ /\ IF path = "booking" THEN session ELSE path \notin Readers \/ (path = "publier" /\ ~session)
        /\ Well /\ Proceed("asking") /\ UNCHANGED read
     \/ /\ path \in Readers /\ (path = "publier" => session) /\ UNCHANGED read
        /\ \E outcome \in {"none", "rejected"} :
             NoToken(outcome) /\ Proceed(IF Spins(path, outcome) THEN "tokenless" ELSE Unread(path))
     \/ /\ path \in Readers /\ Accepted /\ Well
        /\ \E subscribed \in BOOLEAN :
             LET to == Detour(path, account.roles, subscribed)
             IN IF to = path THEN Proceed("asking") /\ read' = account.roles ELSE Go(to)
     \/ path \in Readers /\ session /\ ~Accepted /\ Well /\ Proceed(Unread(path)) /\ UNCHANGED read
     \/ path \in Readers /\ Accepted /\ Fail /\ Proceed(Unread(path)) /\ UNCHANGED read
  /\ UNCHANGED <<account, session, refresh, owed>>

\* What the page and the frame around it ask for.
Requests == PageOf(path, read).loads
         \cup (IF path \in Dashboard THEN ShellLoads(menu) ELSE {"auth.getMe", "messages.findRooms"})

\* The first requests are answered.  A page without a token may keep its spinner, and so does a
\* room whose messages cannot be read.  (What a reader shows has had its token.)
PageAsks ==
  /\ stage = "asking"
  /\ \/ Well /\ stage' = "shown" /\ (session \/ path \notin SpinWithoutToken \/ path \in Readers)
     \/ path \notin Readers /\ stage' = "tokenless" /\ \E outcome \in {"none", "rejected"} : NoToken(outcome) /\ Spins(path, outcome)
     \/ path \in Rooms /\ session /\ Fail /\ stage' = "unread"
  /\ icon' = IF path \in PublicAt /\ Accepted THEN MessagesHref(account.roles) ELSE icon
  /\ UNCHANGED <<account, session, path, menu, read, tries, refresh, owed>>

\* router.refresh(): the layout runs again under the page that is there.
RefreshLayout ==
  /\ refresh /\ refresh' = FALSE
  /\ \/ menu = {} /\ Well /\ UNCHANGED <<path, stage, menu, read, icon, tries>>
     \/ menu # {} /\ Accepted /\ Well /\ menu' = account.roles /\ UNCHANGED <<path, stage, read, icon, tries>>
     \/ menu # {} /\ ~Accepted /\ Well /\ LoadPage("sign_in")
     \/ menu # {} /\ Accepted /\ Fail /\ LoadPage("sign_in")
  /\ UNCHANGED <<account, session, owed>>

----------------------------------------------------------------------------
\* The person, who acts on a page that has come to rest.

Rests == stage \in AtRest

\* What can be clicked: the menu and the page's links, or the public frame.
Clickable ==
  IF menu # {} THEN NavItems(menu) \cup Links(path) \cup {"notifications", "profil", "home"}
  ELSE IF path \in PublicAt
         THEN {"home", "listings", "agences", "region", "search", "publier"} \cup Links(path) \cup icon
              \cup (IF session THEN {"redirect", "profil"} ELSE AuthPages)
         ELSE {"home"}

FollowLink(p) == Rests /\ p \in Clickable /\ Go(p) /\ UNCHANGED <<account, session, refresh, owed, failures>>

TypeAddress(p) == Rests /\ LoadPage(p) /\ UNCHANGED <<account, session, refresh, owed, failures>>

\* A password or a reset leads to the home page, Google to /redirect.
SignIn ==
  /\ path = "sign_in" /\ stage = "shown" /\ ~session /\ session' = TRUE
  /\ \E to \in {"home", "redirect"} : LoadPage(to)
  /\ UNCHANGED <<account, refresh, owed, failures>>

\* A new account: the acceptance of the terms is sent once, its failure ignored.
SignUp ==
  /\ path = "sign_up" /\ stage = "shown" /\ ~session /\ session' = TRUE
  /\ \E accepted \in BOOLEAN : account' = [Newcomer EXCEPT !.terms = accepted]
  /\ \E to \in {"home", "redirect"} : LoadPage(to)
  /\ owed' = FALSE /\ UNCHANGED <<refresh, failures>>

SignOut ==
  /\ Rests /\ session /\ session' = FALSE
  /\ \/ menu # {} /\ LoadPage("sign_in")
     \/ path \in PublicAt /\ LoadPage("home")
  /\ owed' = FALSE /\ UNCHANGED <<account, refresh, failures>>

\* The two gates: a call that is accepted, then /redirect and a refresh.
Pass(gate, done) ==
  /\ path = gate /\ stage = "shown" /\ Accepted
  /\ account' = done /\ LoadPage("redirect") /\ refresh' = TRUE
  /\ UNCHANGED <<session, owed, failures>>
AcceptTerms    == Pass("accept_terms", [account EXCEPT !.terms = TRUE])
ChangePassword == Pass("change_password", [account EXCEPT !.mustChange = FALSE])

\* A first message to an owner, from the page of a listing or of an agency.
Contact ==
  /\ path \in {"listing", "agence"} /\ stage = "shown" /\ Accepted
  /\ LoadPage(ContactLeadsTo(path, account.roles))
  /\ UNCHANGED <<account, session, refresh, owed, failures>>

\* A tenant becomes an owner (auth.activateBailleur): the two pages that offer it.
Promoted == [account EXCEPT !.roles = @ \cup {"BAILLEUR"}]
BecomeOwner ==
  /\ path = "become_bailleur" /\ stage = "shown" /\ IsServed("auth.activateBailleur", account, session)
  /\ account' = Promoted /\ Go("bailleur_listings") /\ refresh' = TRUE /\ owed' = TRUE
  /\ UNCHANGED <<session, failures>>
Onboard ==
  /\ path = "onboarding" /\ stage = "shown"
  /\ \/ IsServed("auth.activateBailleur", account, session) /\ account' = Promoted /\ owed' = TRUE
     \/ UNCHANGED <<account, owed>>
  /\ LoadPage("espace") /\ UNCHANGED <<session, refresh, failures>>

Retry == path = "redirect" /\ stage = "failed" /\ LoadPage("redirect") /\ UNCHANGED <<account, session, refresh, owed, failures>>

----------------------------------------------------------------------------
\* Others.

SignOutElsewhere ==
  session /\ session' = FALSE /\ owed' = FALSE
  /\ UNCHANGED <<account, path, stage, menu, read, icon, tries, refresh, failures>>

\* The administrator, never on another administrator; the row of a deleted account whose
\* session lives on is created again by its next request.
Administer(row) ==
  /\ "ADMIN" \notin account.roles /\ account' = row
  /\ owed' = (owed /\ "BAILLEUR" \in row.roles)
  /\ UNCHANGED <<session, path, stage, menu, read, icon, tries, refresh, failures>>
SuspendUser        == Administer([account EXCEPT !.suspended = ~@])
DeactivateBailleur == "LOCATAIRE" \in account.roles /\ Administer([account EXCEPT !.roles = @ \ {"BAILLEUR"}])
DeleteUser         == Administer(Newcomer)

----------------------------------------------------------------------------
TabInit ==
  /\ account \in Start /\ session \in BOOLEAN
  /\ path = "home" /\ stage = "client" /\ menu = {} /\ read = {} /\ icon = {}
  /\ tries = 0 /\ refresh = FALSE /\ owed = FALSE /\ failures = 0

Moves == DashboardLayout \/ EspaceLayout \/ AuthLayout \/ Redirect \/ PageReads \/ PageAsks

Person == \/ \E p \in Addresses : FollowLink(p) \/ TypeAddress(p)
          \/ SignIn \/ SignUp \/ SignOut \/ AcceptTerms \/ ChangePassword \/ Contact \/ BecomeOwner \/ Onboard \/ Retry

Others == SignOutElsewhere \/ SuspendUser \/ DeactivateBailleur \/ DeleteUser

TabNext == Moves \/ RefreshLayout \/ Person \/ Others

\* The framework runs what is due: a layout, a guard, a first request; a refresh is answered.
TabSpec == TabInit /\ [][TabNext]_tabVars /\ WF_tabVars(Moves) /\ WF_tabVars(RefreshLayout)

----------------------------------------------------------------------------
TabTypes ==
  /\ account \in AccountRow
  /\ session \in BOOLEAN /\ path \in Addresses /\ stage \in Stages
  /\ menu \in SUBSET Roles /\ read \in SUBSET Roles /\ icon \subseteq Addresses
  /\ tries \in 0..(Attempts - 1) /\ refresh \in BOOLEAN /\ owed \in BOOLEAN /\ failures \in 0..MaxFailures

\* The requests pages do make in vain: the owner's listings ask for an agency's subscription and
\* swallow the refusal; the reports offer the administrator the owner's restore; the users' page
\* calls a route that does not exist; a listing offers its booking to whoever is signed in.
Unserved == {<<"bailleur_listings", "subscriptions.findMine">>,
             <<"espace_reports", "listings.restore">>,
             <<"espace_users", "auth.resetPassword">>}
            \cup {"listing"} \X {"bookings.create", "bookings.createMonthly", "payments.initiate"}

Refused(handlers) == {<<path, h>> : h \in {g \in handlers : ~IsServed(g, account, session)}}

\* The page is one the application leads this account to, and what the browser knows of the
\* account is not out of date.
Led == Accepted /\ read \in {{}, account.roles}
       /\ (path \in Open \/ (menu = account.roles /\ path \in ProposedTo(menu)))

\* On such a page everything that the page asks for and that its buttons call is served by the
\* API, but for Unserved.
MenuIsServed ==
  Led => /\ stage = "asking" => Refused(Requests) \subseteq Unserved
         /\ stage = "shown"  => Refused(PageOf(path, read).presses) \subseteq Unserved

\* Whoever became an owner from this tab finds the owner's menu on the dashboard, as soon as the
\* refresh the page asked for has been answered.
OwnRoleInMenu == path \in Dashboard /\ stage = "shown" /\ owed /\ ~refresh => "BAILLEUR" \in menu

\* Behind it: who is owed the owner's menu has the role, a page of the dashboard past its layout
\* has a frame, and a frame drawn before the role awaits a refresh.
RoleIsHeld  == owed => "BAILLEUR" \in account.roles
FrameIsThere == owed /\ path \in Dashboard /\ stage # "server" => menu # {}
MenuFollows == owed /\ ~refresh /\ menu # {} => "BAILLEUR" \in menu
TabInv == TabTypes /\ RoleIsHeld /\ FrameIsThere /\ MenuFollows

\* The menu fits the person: what it leads to is served, and it follows a change of role.
MenuFits == MenuIsServed /\ OwnRoleInMenu

\* A navigation comes to rest: on a page that shows something, on /redirect's message, or on one
\* of two spinners, that of a page to which Clerk has given no token and that of a room whose
\* messages could not be read.  A suspended account never does: the sign-in pages and /redirect
\* send each other the tab for ever.
Lands == (stage \notin AtRest) ~> (stage \in {"shown", "failed", "tokenless", "unread"} \/ account.suspended)
=============================================================================
