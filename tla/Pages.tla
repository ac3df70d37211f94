-------------------------------- MODULE Pages --------------------------------
(***************************************************************************)
(* The pages of the web application as far as the API sees them: what a    *)
(* page asks for by itself when it opens (loads), which routes its buttons *)
(* call (presses), and the menus that lead from one page to the next.      *)
(* `me` is the set of roles the page read from /auth/me when it opened.    *)
(***************************************************************************)
EXTENDS Routes, FiniteSets

Page(loads, presses) == [loads |-> loads, presses |-> presses]
When(condition, requests) == IF condition THEN requests ELSE {}

\* The tenant's pages.
TenantHome     == Page({"bookings.findMine", "analytics.getLocataireStats"}, {})
TenantBookings == Page({"bookings.findMine", "auth.getMe", "reviews.findMine", "payments.verify"},
                       {"bookings.getReceipt", "payments.initiate", "bookings.cancel", "bookings.terminateLease"})
TenantDispute  == {"upload.upload", "bookings.reportDispute"}
TenantReview   == {"reviews.create"}
TenantBooking  == Page({"bookings.findOne", "reviews.findMine"}, {"bookings.cancel", "reviews.create"})
TenantFavorites == Page({"listings.findFavorites"}, {"listings.removeFavorite"})
TenantPayments == Page({"bookings.findMine"}, {})
ContractCard   == {"contracts.findByBooking", "contracts.download"}
QrModal        == {"bookings.getVerificationQr"}

\* The owner's pages: some requests of the overview depend on the roles it has just read.
OwnerHome(me) ==
  Page({"auth.getMe", "analytics.getOwnerStats", "bookings.findReceived", "listings.findMine",
        "analytics.getOwnerMonthlyStats", "reviews.findByOwner", "messages.findRooms"}
       \cup When("PRO_AGENCE" \in me, {"subscriptions.findMine"})
       \cup When("LOCATAIRE" \in me, {"bookings.findMine", "analytics.getLocataireStats"}),
       {"analytics.getOwnerReport"})
OwnerListings ==
  Page({"listings.findMine", "subscriptions.findMine"},
       {"auth.findAgents", "verifications.create", "listings.archive", "listings.restore",
        "listings.remove", "listings.unpublish", "listings.publish"})
OwnerBoostCard == {"listings.boost"}
OwnerNew       == Page({"auth.getMe", "subscriptions.findMine"}, {"listings.create"})
OwnerEdit      == Page({"listings.findOne"}, {"listings.update"})
PhotoZone      == {"upload.upload"}
OwnerBookings  == Page({"bookings.findReceived"}, {})
OwnerContact   == {"messages.createRoom"}
RowActions == {"bookings.confirm", "bookings.cancel", "bookings.complete", "bookings.approveMonthly",
                   "bookings.rejectMonthly", "bookings.terminateLease"}
OwnerVerifications == Page({"verifications.findMine"}, {})
AgentsTab      == {"auth.findAgents"}   \* asked for when the tab of the agents is opened
RequestCard    == {"messages.createRoom"}
RatingForm     == {"verifications.rate"}
VerificationForm == {"listings.findMine", "auth.findAgents", "verifications.findMine", "verifications.create"}
OwnerBoost     == Page({"listings.findMine"}, {"listings.boost"})
OwnerAgents    == Page({"auth.findAgents"}, {})
OwnerAgent     == Page({"auth.findAgentById"}, {})
OwnerProfile   == Page({"auth.findUserProfile"}, {})

\* The agency's pages.
AgencyShowcase == Page({"auth.getMe", "subscriptions.findMine", "listings.findMine"}, {"upload.upload", "auth.updateMe"})
AgencyAnalytics == Page({"analytics.getVitrineStats"}, {"analytics.getOwnerReport"})
AgencyPlan     == Page({"auth.getMe", "subscriptions.findMine"}, {"subscriptions.initiate"})

\* The agent's pages.
AgentHome      == Page({"verifications.getStats"}, {})
AgentMissions  == Page({"verifications.findAssigned", "verifications.findHistory"},
                       {"verifications.start", "verifications.complete", "verifications.decline",
                        "upload.upload", "messages.createRoom"})
AgentMission   == Page({"verifications.findOne"}, {"verifications.start"})
MissionReport  == {"verifications.complete", "upload.upload"}
MissionDecline == {"verifications.decline"}
AgentCalendar  == Page({"verifications.findAllForAgent"}, {})
AgentProfile   == Page({"auth.getMe", "verifications.getStats"}, {"upload.upload", "auth.updateMe"})

\* The administrator's pages.
AdminHome      == Page({"analytics.getAdminStats", "analytics.getAdminExtended", "analytics.getAdminMonthlyTrend",
                        "analytics.getAdminAlerts"}, {})
AdminUsers     == Page({"auth.getUsers"},
                       {"auth.suspendUser", "auth.deleteUser", "auth.resetPassword", "auth.deactivateBailleur",
                        "auth.updateUser", "auth.createAgentTerrain", "auth.createProAgence"})
AdminListings  == Page({"listings.findAllAdmin"}, {"listings.activate", "listings.suspend", "listings.remove"})
AdminVerifications == Page({"verifications.findPending", "verifications.findAll", "auth.getUsers"},
                       {"verifications.assignAgent", "verifications.validate", "verifications.approveDecline",
                        "verifications.refuseDecline", "verifications.reject"})
AdminSubscriptions == Page({"subscriptions.findAll"},
                       {"subscriptions.suspendById", "subscriptions.activateById", "subscriptions.extendById"})
AdminBookings  == Page({"bookings.findAll"},
                       {"bookings.cancel", "payments.release", "payments.refund", "bookings.resolveDispute"})
AdminReviews   == Page({"reviews.findAll"}, {"reviews.remove"})
AdminReports   == Page({"listings.findAllReports"}, {"listings.suspend", "listings.restore"})
AdminBroadcast == Page({}, {"notifications.broadcast"})
AdminConfig    == Page({"config.getConfig"},
                       {"search.reindex", "config.requestOtp", "config.updateConfig",
                        "config.cancelPendingChange", "config.changePin"})

\* Pages every role has.
MessagesPage   == Page({"auth.getMe", "messages.findRooms"},
                       {"messages.findMessages", "messages.markRead", "messages.send", "messages.editMessage",
                        "messages.deleteMessage", "upload.upload"})
NotificationsPage == Page({"notifications.mine"}, {"notifications.markAllRead", "notifications.markRead"})
ProfilePage    == Page({"auth.getMe"}, {"upload.upload", "auth.updateMe"})
ListingsPage   == Page({"listings.findFavorites", "listings.findAll"}, {})
HomePage       == Page({"listings.findFavorites", "auth.getMe"}, {})
ChatRoom       == Page({"auth.getMe", "messages.findRooms", "messages.findMessages", "messages.markRead"}, {"messages.send"})
PublicMessages == Page({"messages.findRooms"}, {"messages.findMessages", "messages.markRead", "messages.send"})

\* The page of a listing is made of cards that ask and act on their own.
FavoriteButton == {"listings.addFavorite", "listings.removeFavorite"}
BookingCard    == Page({"bookings.getAvailability"}, {"bookings.create", "payments.initiate"})
MonthlyForm    == {"bookings.createMonthly"}
ContactCard    == Page({"listings.checkFavorite"}, FavoriteButton \cup {"messages.createRoom", "messages.send"})
ReviewForm     == Page({"reviews.findByListing", "bookings.findMine"}, {})   \* its button: to who has stayed
ReportModal    == {"listings.reportListing"}
ListingDetail  == Page({"listings.findOne", "listings.findSimilar"}, {})
Both(page, card) == Page(page.loads \cup card.loads, page.presses \cup card.presses)

AgencyPage     == Page({"agences.findBySlug", "agences.getPhone", "agences.trackView"}, {"messages.createRoom", "auth.getMe"})
BookingReturn  == Page({"bookings.findOne"}, {})
PaymentReturn  == Page({"payments.verify"}, {})
VerifyBooking  == Page({"bookings.verifyPublic"}, {})
RegionPage     == Page({"listings.findAll", "listings.findFavorites"}, {})

\* The publication wizard: its form is shown to owners only.
Wizard(me)     == Page({"auth.getMe"}, When(me \cap Owner # {}, {"listings.create", "upload.upload"}))
OnboardingPage == Page({}, {"auth.getMe"})

With(page, presses) == [page EXCEPT !.presses = @ \cup presses]

TenantPages ==
  [ locataire           |-> TenantHome,
    locataire_bookings  |-> With(TenantBookings, TenantDispute \cup TenantReview \cup ContractCard \cup QrModal),
    locataire_booking   |-> TenantBooking,
    locataire_favorites |-> TenantFavorites,
    locataire_paiements |-> TenantPayments,
    locataire_messages  |-> MessagesPage,
    locataire_room      |-> ChatRoom,
    become_bailleur     |-> Page({"auth.getMe"}, {"auth.updateMe"}) ]

OwnerPages ==
  [ bailleur               |-> OwnerHome({}),
    bailleur_listings      |-> With(OwnerListings, OwnerBoostCard),
    bailleur_listings_new  |-> With(OwnerNew, PhotoZone),
    bailleur_listings_edit |-> With(OwnerEdit, PhotoZone),
    bailleur_bookings      |-> With(OwnerBookings, OwnerContact \cup RowActions \cup ContractCard),
    bailleur_messages      |-> MessagesPage,
    bailleur_room          |-> ChatRoom,
    bailleur_verifications |-> With(OwnerVerifications, RequestCard \cup RatingForm \cup VerificationForm \cup AgentsTab),
    bailleur_boost         |-> OwnerBoost,
    bailleur_agents        |-> OwnerAgents,
    bailleur_agent         |-> OwnerAgent,
    bailleur_profil        |-> OwnerProfile,
    bailleur_ma_vitrine    |-> AgencyShowcase,
    bailleur_analytics     |-> AgencyAnalytics,
    bailleur_abonnement    |-> AgencyPlan ]

AgentPages ==
  [ agent               |-> AgentHome,
    agent_verifications |-> AgentMissions,
    agent_verification  |-> With(AgentMission, MissionReport \cup MissionDecline),
    agent_calendrier    |-> AgentCalendar,
    agent_messages      |-> MessagesPage,
    agent_room          |-> ChatRoom,
    agent_profil        |-> AgentProfile ]

AdminPages ==
  [ espace                |-> AdminHome,
    espace_users          |-> AdminUsers,
    espace_listings       |-> AdminListings,
    espace_verifications  |-> AdminVerifications,
    espace_subscriptions  |-> AdminSubscriptions,
    espace_bookings       |-> AdminBookings,
    espace_reviews        |-> AdminReviews,
    espace_reports        |-> AdminReports,
    espace_communications |-> AdminBroadcast,
    espace_config         |-> AdminConfig ]

PublicPages ==
  [ home       |-> With(HomePage, FavoriteButton),
    listings   |-> With(ListingsPage, FavoriteButton),
    region     |-> With(RegionPage, FavoriteButton),
    search     |-> Page({"search.search"}, FavoriteButton),
    listing    |-> With(Both(Both(Both(ListingDetail, BookingCard), ContactCard), ReviewForm), MonthlyForm \cup ReportModal),
    agences    |-> Page({"agences.findAll"}, {}),
    agence     |-> AgencyPage,
    publier    |-> Wizard({}),
    profil     |-> ProfilePage,
    messages   |-> PublicMessages,
    booking    |-> BookingReturn,
    paiement   |-> PaymentReturn,
    verifier   |-> VerifyBooking,
    onboarding |-> OnboardingPage ]

\* Where a page lives: the address tree decides which layouts run before it.
Espace    == DOMAIN AdminPages
PublicAt  == DOMAIN PublicPages
Dashboard == DOMAIN TenantPages \cup DOMAIN OwnerPages \cup DOMAIN AgentPages \cup Espace \cup {"notifications"}
AuthPages == {"sign_in", "sign_up"}
Gates     == {"change_password", "accept_terms"}
Addresses == Dashboard \cup PublicAt \cup AuthPages \cup Gates \cup {"redirect"}

PageOf(p, me) ==
  CASE p = "bailleur"            -> OwnerHome(me)
    [] p = "publier"             -> Wizard(me)
    [] p = "notifications"       -> NotificationsPage
    [] p \in DOMAIN TenantPages  -> TenantPages[p]
    [] p \in DOMAIN OwnerPages \ {"bailleur"}   -> OwnerPages[p]
    [] p \in DOMAIN AgentPages   -> AgentPages[p]
    [] p \in Espace              -> AdminPages[p]
    [] p \in PublicAt \ {"publier"} -> PublicPages[p]

\* What the frame of the dashboard asks for, for an account of these roles.
ShellLoads(roles) ==
  {"messages.findRooms", "notifications.mine", "notifications.unreadCount"}
  \cup When("ADMIN" \in roles, {"verifications.pendingCount", "listings.pendingReportsCount", "bookings.pendingDisputesCount"})
  \cup When("PRO_AGENCE" \in roles, {"subscriptions.getAlert"})

OwnerItemsOfAnAgency(roles) ==                   \* mutant: every owner gets the agency's entries
  {"bailleur", "bailleur_listings", "bailleur_bookings", "bailleur_messages", "bailleur_verifications",
   "bailleur_boost", "bailleur_ma_vitrine", "bailleur_analytics", "bailleur_abonnement"}

\* The entries of the dashboard's menu.
OwnerItems(roles) ==
  {"bailleur", "bailleur_listings", "bailleur_bookings", "bailleur_messages", "bailleur_verifications", "bailleur_boost"}
  \cup When("PRO_AGENCE" \in roles, {"bailleur_ma_vitrine", "bailleur_analytics", "bailleur_abonnement"})
TenantItems == {"locataire", "locataire_bookings", "locataire_favorites", "locataire_paiements", "locataire_messages"}
NavItems(roles) ==
  LET owner  == roles \cap Owner # {}
      tenant == "LOCATAIRE" \in roles
  IN When(tenant, TenantItems) \cup When(tenant /\ ~owner, {"become_bailleur"})
     \cup When(owner, OwnerItems(roles))
     \cup When("AGENT_TERRAIN" \in roles, DOMAIN AgentPages \ {"agent_verification", "agent_room"})
     \cup When("ADMIN" \in roles, Espace)

\* Where the message icon of the public pages leads, once it has read the roles.
MessagesHref(roles) ==
  CASE roles = {}                        -> {}
    [] "ADMIN" \in roles                 -> {}
    [] "AGENT_TERRAIN" \in roles         -> {"agent_messages"}
    [] roles \cap Owner # {}             -> {"bailleur_messages"}
    [] OTHER                             -> {"locataire_messages"}

\* Where /redirect sends an account that has passed the gates.
Home(roles) ==
  CASE "ADMIN" \in roles         -> "espace"
    [] "AGENT_TERRAIN" \in roles -> "agent_verifications"
    [] roles \cap Owner # {}     -> "bailleur_listings"
    [] OTHER                     -> "locataire"

\* The links a page offers beside the menu.
Links(p) ==
  CASE p \in {"locataire_bookings", "locataire_paiements"}     -> {"locataire_booking", "booking"}
    [] p = "locataire_favorites"                               -> {"listings", "listing"}
    [] p = "bailleur_listings"                                 -> {"bailleur_listings_edit", "publier", "listing"}
    [] p = "bailleur_bookings"                                 -> {"bailleur_room", "publier"}
    [] p = "bailleur_messages"                                 -> {"bailleur_profil"}
    [] p = "bailleur_verifications"                            -> {"bailleur_listings_edit", "bailleur_agent",
                                                                   "bailleur_listings", "bailleur_messages"}
    [] p = "bailleur_agent"                                    -> {"bailleur_agents"}
    [] p \in {"bailleur_agents", "bailleur_profil"}            -> {"bailleur_agent"}
    [] p = "agent_verifications"                               -> {"agent_verification", "agent_messages"}
    [] p = "agent_calendrier"                                  -> {"agent_verification"}
    [] p \in {"home", "listings", "region", "search", "agence"} -> {"listing"}
    [] p = "agences"                                           -> {"agence"}
    [] OTHER                                                   -> {}

\* Every page an account of these roles is led to: from its menu, or from the public frame.
ProposedTo(roles) == NavItems(roles) \cup {"notifications"} \cup UNION {Links(p) : p \in NavItems(roles)}
Open == {"home", "listings", "region", "search", "listing", "agences", "agence", "publier", "profil"}

\* Where a first message leaves its author: a listing's card always in the tenant's room, an
\* agency's page in the messages of the roles it reads.
ContactLeadsTo(p, roles) ==
  CASE p = "listing"               -> "locataire_room"
    [] "AGENT_TERRAIN" \in roles   -> "agent_messages"
    [] roles \cap Owner # {}       -> "bailleur_messages"
    [] OTHER                       -> "locataire_messages"

\* Where the first effect gets no token: pages that return with their spinner turning.
Rooms == {"locataire_room", "bailleur_room", "agent_room"}
SpinWithoutToken ==
  {"locataire", "become_bailleur", "bailleur_bookings", "bailleur_verifications", "bailleur_agents",
   "bailleur_ma_vitrine", "agent_verification", "agent_calendrier", "agent_profil", "espace_users",
   "espace_listings", "espace_verifications", "espace_subscriptions", "espace_bookings", "espace_reviews",
   "publier", "booking"} \cup Rooms

\* Where asking for it fails: those, and the pages that await it outside their try.
SpinOnFailure ==
  SpinWithoutToken \cup
  {"locataire_bookings", "locataire_booking", "locataire_favorites", "locataire_paiements", "locataire_messages",
   "bailleur_listings", "bailleur_listings_new", "bailleur_listings_edit", "bailleur_messages", "bailleur_boost",
   "bailleur_analytics", "agent", "agent_verifications", "agent_messages", "espace", "espace_config",
   "notifications", "paiement"}
=============================================================================
