------------------------------- MODULE Routes -------------------------------
(***************************************************************************)
(* The routes of the API and the roles each one asks for.  Every           *)
(* controller of the backend is behind ClerkAuthGuard and RolesGuard; a    *)
(* handler carries @Public(), @Roles(...) or neither.  A handler is named  *)
(* here by its controller and its method.                                  *)
(***************************************************************************)
Roles == {"LOCATAIRE", "BAILLEUR", "PRO_AGENCE", "AGENT_TERRAIN", "ADMIN"}

\* What the two guards read on a handler: nobody in particular, any account, or one of these roles.
Public == {"*"}
Signed == {}
Tenant == {"LOCATAIRE"}
Agency == {"PRO_AGENCE"}
Owner  == {"BAILLEUR", "PRO_AGENCE"}
Agent  == {"AGENT_TERRAIN"}
Admin  == {"ADMIN"}

On(guard, handlers) == [guard |-> guard, handlers |-> handlers]

AuthRoutes ==
  {On(Public, {"auth.webhook"}),
   On(Signed, {"auth.sync", "auth.getMe", "auth.updateMe", "auth.changePassword", "auth.acceptTerms",
               "auth.findAgentById", "auth.findUserProfile"}),
   On(Tenant, {"auth.activateBailleur"}),
   On(Owner \cup Admin, {"auth.findAgents"}),
   On(Admin, {"auth.createAgentTerrain", "auth.createProAgence", "auth.getUsers", "auth.updateUser",
              "auth.suspendUser", "auth.deleteUser", "auth.deactivateBailleur"})}

ListingRoutes ==
  {On(Public, {"listings.findAll", "listings.getPublicStats", "listings.findOne", "listings.findSimilar",
               "listings.boostWebhook"}),
   On(Signed, {"listings.findMine", "listings.findFavorites", "listings.checkFavorite",
               "listings.addFavorite", "listings.removeFavorite", "listings.reportListing"}),
   On(Owner, {"listings.unpublish", "listings.publish", "listings.archive", "listings.restore"}),
   On(Owner \cup Admin, {"listings.create", "listings.update", "listings.remove", "listings.boost"}),
   On(Admin \cup Agent, {"listings.activate"}),
   On(Admin, {"listings.findAllAdmin", "listings.findAllReports", "listings.pendingReportsCount",
              "listings.suspend"})}

BookingRoutes ==
  {On(Public, {"bookings.getAvailability", "bookings.verifyPublic"}),
   On(Signed, {"bookings.terminateLease", "bookings.findMine", "bookings.getVerificationQr",
               "bookings.getReceipt", "bookings.findOne", "bookings.cancel"}),
   On(Tenant, {"bookings.create", "bookings.createMonthly", "bookings.reportDispute"}),
   On(Owner, {"bookings.approveMonthly", "bookings.rejectMonthly", "bookings.complete", "bookings.confirm"}),
   On(Owner \cup Admin, {"bookings.findReceived"}),
   On(Admin, {"bookings.pendingDisputesCount", "bookings.findAll", "bookings.resolveDispute"})}

VerificationRoutes ==
  {On(Public, {"verifications.webhookPaydunya"}),
   On(Signed, {"verifications.getRating"}),
   On(Owner, {"verifications.rate"}),
   On(Owner \cup Admin, {"verifications.create", "verifications.findMine"}),
   On(Agent, {"verifications.findAssigned", "verifications.findAllForAgent", "verifications.findOne",
              "verifications.findHistory", "verifications.getStats", "verifications.start",
              "verifications.complete", "verifications.decline"}),
   On(Agent \cup Admin, {"verifications.findPending", "verifications.reject"}),
   On(Admin, {"verifications.pendingCount", "verifications.findAll", "verifications.validate",
              "verifications.assignAgent", "verifications.approveDecline", "verifications.refuseDecline"})}

SubscriptionRoutes ==
  {On(Public, {"subscriptions.webhookPaydunya"}),
   On(Agency, {"subscriptions.initiate", "subscriptions.cancel", "subscriptions.verify"}),
   On(Agency \cup Admin, {"subscriptions.findMine", "subscriptions.getAlert"}),
   On(Admin, {"subscriptions.findAll", "subscriptions.suspendById", "subscriptions.activateById",
              "subscriptions.extendById"})}

PaymentRoutes ==
  {On(Public, {"payments.webhookPaydunya"}),
   On(Tenant, {"payments.initiate", "payments.verify"}),
   On(Admin, {"payments.release", "payments.refund"})}

AnalyticsRoutes ==
  {On(Tenant, {"analytics.getLocataireStats"}),
   On(Owner, {"analytics.getOwnerReport", "analytics.getOwnerMonthlyStats", "analytics.getOwnerStats"}),
   On(Agency, {"analytics.getVitrineStats"}),
   On(Admin, {"analytics.getAdminStats", "analytics.getAdminExtended", "analytics.getAdminAlerts",
              "analytics.getAdminMonthlyTrend"})}

MessageRoutes ==
  {On(Signed, {"messages.findRooms", "messages.findMessages", "messages.createRoom", "messages.send",
               "messages.markRead", "messages.editMessage", "messages.deleteMessage"})}

NotificationRoutes ==
  {On(Signed, {"notifications.mine", "notifications.unreadCount", "notifications.markRead",
               "notifications.markAllRead"}),
   On(Admin, {"notifications.broadcast"})}

ContractRoutes ==
  {On(Signed, {"contracts.findByBooking", "contracts.download"})}

ReviewRoutes ==
  {On(Public, {"reviews.findByListing"}),
   On(Signed, {"reviews.findMine", "reviews.findByOwner"}),
   On(Tenant, {"reviews.create"}),
   On(Admin, {"reviews.findAll", "reviews.remove"})}

ConfigRoutes ==
  {On(Admin, {"config.getConfig", "config.requestOtp", "config.updateConfig", "config.changePin",
              "config.cancelPendingChange"})}

SearchRoutes ==
  {On(Public, {"search.search", "search.geoSearch"}),
   On(Admin, {"search.reindex"})}

AgencyRoutes ==
  {On(Public, {"agences.findAll", "agences.findBySlug", "agences.trackView"}),
   On(Signed, {"agences.getPhone"})}

UploadRoutes ==
  {On(Signed, {"upload.upload"})}

Api == AuthRoutes \cup ListingRoutes \cup BookingRoutes \cup VerificationRoutes \cup SubscriptionRoutes \cup PaymentRoutes
       \cup AnalyticsRoutes \cup MessageRoutes \cup NotificationRoutes \cup ContractRoutes \cup ReviewRoutes \cup ConfigRoutes
       \cup SearchRoutes \cup AgencyRoutes \cup UploadRoutes

\* RolesGuard: no role asked for, or one of them held.
HasRole(guard, roles) == guard = Signed \/ guard \cap roles # {}

\* ClerkAuthGuard, then RolesGuard: a route that does not exist is refused like one that is forbidden.
IsServed(h, account, session) ==
  \E r \in Api :
    /\ h \in r.handlers
    /\ r.guard = Public \/ (session /\ ~account.suspended /\ HasRole(r.guard, account.roles))
=============================================================================
