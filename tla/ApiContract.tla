--------------------------- MODULE ApiContract ---------------------------
(***************************************************************************)
(* The HTTP contract of the marketplace: for every operation, the answers  *)
(* that backend/src/openapi/document.ts announces (docs/openapi.json and   *)
(* the client's types are generated from it).  An answer is a pair of a    *)
(* status and an error code, "OK" standing for a success.  The lists of    *)
(* codes are declared beside the validators, and keep their names here.    *)
(* The schemas of the bodies and the examples are left out.                *)
(***************************************************************************)
EXTENDS Integers

Success(status) == {<<status, "OK">>}

(* Every code an error answer of the document can carry. *)
AppErrorExampleCode ==
  {"TENANT_HEADER_REQUIRED", "INVALID_TENANT", "INVALID_REQUEST", "INVALID_PRODUCT_ID",
   "INVALID_SELLER_ID", "MISSING_PRODUCT_FIELDS", "INVALID_PRODUCT_PRICE",
   "INVALID_PRODUCT_CURRENCY", "INVALID_PRODUCT_INVENTORY", "INVALID_PRODUCT_STATUS",
   "INVALID_PRODUCT_STATUS_INVENTORY", "INVALID_PRODUCT_IMAGE_URL",
   "MISSING_PRODUCT_UPDATE_FIELDS", "INVALID_PRODUCT_STATUS_FILTER",
   "INVALID_PRODUCT_AVAILABILITY_FILTER", "INVALID_PRODUCT_SORT", "MISSING_CREDENTIALS",
   "INVALID_CREDENTIALS", "AUTH_RATE_LIMITED", "MISSING_USER_FIELDS", "INVALID_EMAIL",
   "MISSING_EMAIL", "INVALID_OR_EXPIRED_ACCOUNT_TOKEN", "MISSING_PASSWORD_FIELDS",
   "PASSWORD_CONFIRMATION_MISMATCH", "ACCOUNT_DELIVERY_UNAVAILABLE",
   "EMAIL_VERIFICATION_REQUEST_RATE_LIMITED",
   "EMAIL_VERIFICATION_CONFIRMATION_RATE_LIMITED", "PASSWORD_RESET_REQUEST_RATE_LIMITED",
   "PASSWORD_RESET_CONFIRMATION_RATE_LIMITED", "MISSING_PROFILE_UPDATE_FIELDS",
   "MISSING_PASSWORD_CHANGE_FIELDS", "PASSWORD_REUSE_NOT_ALLOWED",
   "MISSING_EMAIL_CHANGE_FIELDS", "EMAIL_UNCHANGED", "EMAIL_UNAVAILABLE",
   "REAUTHENTICATION_FAILED", "ACCOUNT_STATE_CHANGED",
   "DEACTIVATION_CONFIRMATION_MISMATCH", "ACCOUNT_DEACTIVATION_BLOCKED_ACTIVE_ORDERS",
   "PASSWORD_CHANGE_RATE_LIMITED", "EMAIL_CHANGE_REQUEST_RATE_LIMITED",
   "EMAIL_CHANGE_CONFIRMATION_RATE_LIMITED", "ACCOUNT_DEACTIVATION_RATE_LIMITED",
   "WEAK_PASSWORD", "USER_EXISTS", "REGISTER_RATE_LIMITED", "AUTH_TOKEN_REQUIRED",
   "INVALID_AUTH_TOKEN", "COOKIE_SESSION_REQUIRED", "INVALID_REFRESH_TOKEN",
   "SESSION_EXPIRED", "REFRESH_TOKEN_REUSED", "REFRESH_ALREADY_ROTATED",
   "INVALID_ORIGIN", "INVALID_CSRF_TOKEN", "PRODUCT_FORBIDDEN", "PRODUCT_NOT_FOUND",
   "INSUFFICIENT_INVENTORY", "ORDER_TOTAL_LIMIT_EXCEEDED", "REVIEW_FORBIDDEN",
   "REVIEW_PURCHASE_REQUIRED", "NOTIFICATION_NOT_FOUND", "EMPTY_CART",
   "IDEMPOTENCY_KEY_REQUIRED", "INVALID_IDEMPOTENCY_KEY", "IDEMPOTENCY_KEY_REUSED",
   "ORDER_FORBIDDEN", "ORDER_NOT_FOUND", "ORDER_STATUS_TRANSITION_INVALID",
   "PRODUCT_STATUS_TRANSITION_INVALID", "PRODUCT_INVENTORY_REQUIRED",
   "PRODUCT_PRICE_REQUIRED", "INVALID_RESOURCE_ID", "MISSING_ADDRESS_FIELDS",
   "INVALID_ADDRESS", "INVALID_POSTAL_CODE", "DELIVERY_ADDRESS_NOT_FOUND",
   "INVALID_DELIVERY_OPTION", "CHECKOUT_QUOTE_CHANGED", "SESSION_NOT_FOUND",
   "SELLER_NOT_FOUND"}

(* The answers of one status, as appErrors lists them. *)
appErrors(status, codes) == {status} \X codes

tenantCodes == {"TENANT_HEADER_REQUIRED", "INVALID_TENANT"}

authenticationCodes == {"AUTH_TOKEN_REQUIRED", "INVALID_AUTH_TOKEN"}

csrfCodes == {"INVALID_ORIGIN", "INVALID_CSRF_TOKEN"}

idempotencyCodes == {"IDEMPOTENCY_KEY_REQUIRED", "INVALID_IDEMPOTENCY_KEY"}

authErrorCodes ==
  [loginRequest |-> tenantCodes \cup {"INVALID_REQUEST", "MISSING_CREDENTIALS"},
   invalidCredentials |-> {"INVALID_CREDENTIALS"},
   loginOrigin |-> {"INVALID_ORIGIN"},
   loginRateLimit |-> {"AUTH_RATE_LIMITED"},
   tenant |-> tenantCodes,
   authentication |-> authenticationCodes,
   sessionAuthentication |-> authenticationCodes \cup {"COOKIE_SESSION_REQUIRED"},
   refreshAuthentication |->
     {"INVALID_REFRESH_TOKEN", "SESSION_EXPIRED", "REFRESH_TOKEN_REUSED"},
   csrf |-> csrfCodes,
   refreshConflict |-> {"REFRESH_ALREADY_ROTATED"},
   sessionId |-> tenantCodes \cup {"INVALID_RESOURCE_ID"},
   sessionNotFound |-> {"SESSION_NOT_FOUND"}]

accountSecurityErrorCodes ==
  [request |-> tenantCodes \cup {"INVALID_REQUEST", "MISSING_EMAIL", "INVALID_EMAIL"},
   tokenConfirmation |->
     tenantCodes \cup {"INVALID_REQUEST", "INVALID_OR_EXPIRED_ACCOUNT_TOKEN"},
   passwordResetConfirmation |->
     tenantCodes \cup
     {"INVALID_REQUEST", "INVALID_OR_EXPIRED_ACCOUNT_TOKEN", "MISSING_PASSWORD_FIELDS",
      "PASSWORD_CONFIRMATION_MISMATCH", "WEAK_PASSWORD"},
   origin |-> {"INVALID_ORIGIN"},
   unavailable |-> {"ACCOUNT_DELIVERY_UNAVAILABLE"},
   emailVerificationRequestRateLimit |-> {"EMAIL_VERIFICATION_REQUEST_RATE_LIMITED"},
   emailVerificationConfirmationRateLimit |->
     {"EMAIL_VERIFICATION_CONFIRMATION_RATE_LIMITED"},
   passwordResetRequestRateLimit |-> {"PASSWORD_RESET_REQUEST_RATE_LIMITED"},
   passwordResetConfirmationRateLimit |-> {"PASSWORD_RESET_CONFIRMATION_RATE_LIMITED"}]

accountManagementErrorCodes ==
  [profileRequest |->
     tenantCodes \cup {"INVALID_REQUEST", "MISSING_PROFILE_UPDATE_FIELDS"},
   passwordRequest |->
     tenantCodes \cup
     {"INVALID_REQUEST", "MISSING_PASSWORD_CHANGE_FIELDS",
      "PASSWORD_CONFIRMATION_MISMATCH", "WEAK_PASSWORD", "PASSWORD_REUSE_NOT_ALLOWED"},
   emailRequest |->
     tenantCodes \cup {"INVALID_REQUEST", "MISSING_EMAIL_CHANGE_FIELDS", "INVALID_EMAIL"},
   deactivationRequest |->
     tenantCodes \cup {"INVALID_REQUEST", "DEACTIVATION_CONFIRMATION_MISMATCH"},
   authentication |-> authenticationCodes,
   csrf |-> csrfCodes,
   origin |-> {"INVALID_ORIGIN"},
   reauthentication |-> csrfCodes \cup {"REAUTHENTICATION_FAILED"},
   profileConflict |-> {"ACCOUNT_STATE_CHANGED"},
   emailConflict |-> {"ACCOUNT_STATE_CHANGED", "EMAIL_UNCHANGED", "EMAIL_UNAVAILABLE"},
   deactivationConflict |->
     {"ACCOUNT_STATE_CHANGED", "ACCOUNT_DEACTIVATION_BLOCKED_ACTIVE_ORDERS"},
   confirmation |->
     tenantCodes \cup {"INVALID_REQUEST", "INVALID_OR_EXPIRED_ACCOUNT_TOKEN"},
   passwordChangeRateLimit |-> {"PASSWORD_CHANGE_RATE_LIMITED"},
   emailChangeRequestRateLimit |-> {"EMAIL_CHANGE_REQUEST_RATE_LIMITED"},
   emailChangeConfirmationRateLimit |-> {"EMAIL_CHANGE_CONFIRMATION_RATE_LIMITED"},
   deactivationRateLimit |-> {"ACCOUNT_DEACTIVATION_RATE_LIMITED"},
   unavailable |-> {"ACCOUNT_DELIVERY_UNAVAILABLE"}]

userErrorCodes ==
  [create |->
     tenantCodes \cup
     {"INVALID_REQUEST", "MISSING_USER_FIELDS", "INVALID_EMAIL", "WEAK_PASSWORD",
      "USER_EXISTS"},
   rateLimit |-> {"REGISTER_RATE_LIMITED"},
   sellerDetail |-> tenantCodes \cup {"INVALID_SELLER_ID"},
   sellerNotFound |-> {"SELLER_NOT_FOUND"}]

productErrorCodes ==
  LET filters == {"INVALID_REQUEST", "INVALID_PRODUCT_STATUS_FILTER",
                  "INVALID_PRODUCT_AVAILABILITY_FILTER", "INVALID_PRODUCT_SORT"}
  IN [list |-> tenantCodes \cup filters,
      sellerList |-> tenantCodes \cup filters \cup {"INVALID_SELLER_ID"},
      detail |-> tenantCodes \cup {"INVALID_PRODUCT_ID"},
      create |->
        tenantCodes \cup idempotencyCodes \cup
        {"INVALID_REQUEST", "MISSING_PRODUCT_FIELDS", "INVALID_PRODUCT_INVENTORY",
         "INVALID_PRODUCT_STATUS", "INVALID_PRODUCT_STATUS_INVENTORY",
         "INVALID_PRODUCT_PRICE", "INVALID_PRODUCT_CURRENCY", "INVALID_PRODUCT_IMAGE_URL"},
      idempotencyConflict |-> {"IDEMPOTENCY_KEY_REUSED"},
      update |->
        tenantCodes \cup
        {"INVALID_REQUEST", "INVALID_PRODUCT_ID", "MISSING_PRODUCT_UPDATE_FIELDS",
         "INVALID_PRODUCT_IMAGE_URL", "INVALID_PRODUCT_PRICE", "INVALID_PRODUCT_CURRENCY"},
      inventory |-> tenantCodes \cup {"INVALID_REQUEST", "INVALID_PRODUCT_ID"},
      status |-> tenantCodes \cup {"INVALID_REQUEST", "INVALID_PRODUCT_ID"},
      authentication |-> authenticationCodes,
      csrf |-> csrfCodes,
      ownership |-> csrfCodes \cup {"PRODUCT_FORBIDDEN"},
      notFound |-> {"PRODUCT_NOT_FOUND"},
      lifecycleConflict |->
        {"PRODUCT_STATUS_TRANSITION_INVALID", "PRODUCT_INVENTORY_REQUIRED",
         "PRODUCT_PRICE_REQUIRED"}]

cartErrorCodes ==
  [tenant |-> tenantCodes,
   itemRequest |-> tenantCodes \cup {"INVALID_REQUEST", "INVALID_RESOURCE_ID"},
   itemPath |-> tenantCodes \cup {"INVALID_RESOURCE_ID"},
   authentication |-> authenticationCodes,
   csrf |-> csrfCodes,
   productNotFound |-> {"PRODUCT_NOT_FOUND"},
   inventoryConflict |-> {"INSUFFICIENT_INVENTORY"}]

watchlistErrorCodes ==
  [tenant |-> tenantCodes,
   itemPath |-> tenantCodes \cup {"INVALID_RESOURCE_ID"},
   authentication |-> authenticationCodes,
   csrf |-> csrfCodes,
   productNotFound |-> {"PRODUCT_NOT_FOUND"}]

deliveryErrorCodes ==
  [request |->
     tenantCodes \cup
     {"INVALID_REQUEST", "MISSING_ADDRESS_FIELDS", "INVALID_ADDRESS",
      "INVALID_POSTAL_CODE"},
   path |-> tenantCodes \cup {"INVALID_RESOURCE_ID"},
   authentication |-> authenticationCodes,
   csrf |-> csrfCodes,
   notFound |-> {"DELIVERY_ADDRESS_NOT_FOUND"}]

reviewErrorCodes ==
  [listRequest |-> tenantCodes \cup {"INVALID_RESOURCE_ID", "INVALID_REQUEST"},
   createRequest |->
     tenantCodes \cup idempotencyCodes \cup {"INVALID_RESOURCE_ID", "INVALID_REQUEST"},
   authentication |-> authenticationCodes,
   authorization |-> csrfCodes \cup {"REVIEW_FORBIDDEN", "REVIEW_PURCHASE_REQUIRED"},
   productNotFound |-> {"PRODUCT_NOT_FOUND"},
   idempotencyConflict |-> {"IDEMPOTENCY_KEY_REUSED"}]

orderErrorCodes ==
  [listRequest |-> tenantCodes \cup {"INVALID_REQUEST"},
   checkoutRequest |->
     tenantCodes \cup idempotencyCodes \cup
     {"EMPTY_CART", "INVALID_REQUEST", "INVALID_DELIVERY_OPTION"},
   statusRequest |-> tenantCodes \cup {"INVALID_RESOURCE_ID", "INVALID_REQUEST"},
   authentication |-> authenticationCodes,
   csrf |-> csrfCodes,
   ownership |-> csrfCodes \cup {"ORDER_FORBIDDEN"},
   inventoryConflict |->
     {"INSUFFICIENT_INVENTORY", "PRODUCT_PRICE_REQUIRED", "ORDER_TOTAL_LIMIT_EXCEEDED",
      "CHECKOUT_QUOTE_CHANGED"},
   addressNotFound |-> {"DELIVERY_ADDRESS_NOT_FOUND"},
   notFound |-> {"ORDER_NOT_FOUND"},
   transitionConflict |-> {"ORDER_STATUS_TRANSITION_INVALID"}]

notificationErrorCodes ==
  [listRequest |-> tenantCodes \cup {"INVALID_REQUEST"},
   tenant |-> tenantCodes,
   updateRequest |-> tenantCodes \cup {"INVALID_RESOURCE_ID", "INVALID_REQUEST"},
   authentication |-> authenticationCodes,
   csrf |-> csrfCodes,
   notFound |-> {"NOTIFICATION_NOT_FOUND"}]

sellerOperationsErrorCodes ==
  [request |-> tenantCodes \cup {"INVALID_REQUEST"},
   authentication |-> authenticationCodes]

-----------------------------------------------------------------------------
(* The operations, in the order of the document. *)

systemPaths ==
  [getRoot |-> Success(200),
   getHealth |-> Success(200),
   getReady |-> Success(200) \cup {<<503, "NOT_READY">>}]

emailVerificationPaths ==
  LET c == accountSecurityErrorCodes
  IN [login |->
        Success(200) \cup appErrors(400, authErrorCodes.loginRequest)
        \cup appErrors(401, authErrorCodes.invalidCredentials)
        \cup appErrors(403, authErrorCodes.loginOrigin)
        \cup appErrors(429, authErrorCodes.loginRateLimit),
      requestEmailVerification |->
        Success(202) \cup appErrors(400, c.request) \cup appErrors(403, c.origin)
        \cup appErrors(429, c.emailVerificationRequestRateLimit)
        \cup appErrors(503, c.unavailable),
      confirmEmailVerification |->
        Success(204) \cup appErrors(400, c.tokenConfirmation) \cup appErrors(403, c.origin)
        \cup appErrors(429, c.emailVerificationConfirmationRateLimit)
        \cup appErrors(503, c.unavailable)]

passwordResetPaths ==
  LET c == accountSecurityErrorCodes
      m == accountManagementErrorCodes
  IN [requestPasswordReset |->
        Success(202) \cup appErrors(400, c.request) \cup appErrors(403, c.origin)
        \cup appErrors(429, c.passwordResetRequestRateLimit)
        \cup appErrors(503, c.unavailable),
      confirmPasswordReset |->
        Success(204) \cup appErrors(400, c.passwordResetConfirmation)
        \cup appErrors(403, c.origin)
        \cup appErrors(429, c.passwordResetConfirmationRateLimit)
        \cup appErrors(503, c.unavailable),
      confirmEmailChange |->
        Success(204) \cup appErrors(400, m.confirmation) \cup appErrors(403, m.origin)
        \cup appErrors(409, {"EMAIL_UNAVAILABLE"})
        \cup appErrors(429, m.emailChangeConfirmationRateLimit)
        \cup appErrors(503, m.unavailable)]

profilePaths ==
  LET m == accountManagementErrorCodes
  IN [updateProfile |->
        Success(200) \cup appErrors(400, m.profileRequest)
        \cup appErrors(401, m.authentication) \cup appErrors(403, m.csrf)
        \cup appErrors(409, m.profileConflict),
      changePassword |->
        Success(204) \cup appErrors(400, m.passwordRequest)
        \cup appErrors(401, m.authentication) \cup appErrors(403, m.reauthentication)
        \cup appErrors(409, m.profileConflict)
        \cup appErrors(429, m.passwordChangeRateLimit)]

accountChangePaths ==
  LET m == accountManagementErrorCodes
  IN [requestEmailChange |->
        Success(202) \cup appErrors(400, m.emailRequest)
        \cup appErrors(401, m.authentication) \cup appErrors(403, m.reauthentication)
        \cup appErrors(409, m.emailConflict)
        \cup appErrors(429, m.emailChangeRequestRateLimit)
        \cup appErrors(503, m.unavailable),
      deactivateAccount |->
        Success(204) \cup appErrors(400, m.deactivationRequest)
        \cup appErrors(401, m.authentication) \cup appErrors(403, m.reauthentication)
        \cup appErrors(409, m.deactivationConflict)
        \cup appErrors(429, m.deactivationRateLimit)]

sessionPaths ==
  LET a == authErrorCodes
  IN [session |->
        Success(200) \cup appErrors(400, a.tenant)
        \cup appErrors(401, a.sessionAuthentication),
      refresh |->
        Success(204) \cup appErrors(400, a.tenant)
        \cup appErrors(401, a.refreshAuthentication) \cup appErrors(403, a.csrf)
        \cup appErrors(409, a.refreshConflict),
      sessions |->
        Success(200) \cup appErrors(400, a.tenant) \cup appErrors(401, a.authentication),
      revokeSession |->
        Success(204) \cup appErrors(400, a.sessionId) \cup appErrors(401, a.authentication)
        \cup appErrors(403, a.csrf) \cup appErrors(404, a.sessionNotFound),
      logoutCurrent |->
        Success(204) \cup appErrors(400, a.tenant)
        \cup appErrors(401, a.sessionAuthentication) \cup appErrors(403, a.csrf),
      logout |->
        Success(204) \cup appErrors(400, a.tenant) \cup appErrors(401, a.authentication)
        \cup appErrors(403, a.csrf)]

userPaths ==
  [addUser |->
     Success(201) \cup appErrors(400, userErrorCodes.create)
     \cup appErrors(429, userErrorCodes.rateLimit),
   sellerProfile |->
     Success(200) \cup appErrors(400, userErrorCodes.sellerDetail)
     \cup appErrors(404, userErrorCodes.sellerNotFound),
   listBySeller |-> Success(200) \cup appErrors(400, productErrorCodes.sellerList)]

productPaths ==
  LET p == productErrorCodes
  IN [indexProducts |-> Success(200) \cup appErrors(400, p.list),
      addProduct |->
        Success(201) \cup appErrors(400, p.create) \cup appErrors(401, p.authentication)
        \cup appErrors(403, p.csrf) \cup appErrors(409, p.idempotencyConflict)]

productChangePaths ==
  LET p == productErrorCodes
      owned == appErrors(401, p.authentication) \cup appErrors(403, p.ownership)
               \cup appErrors(404, p.notFound)
  IN [productDetail |->
        Success(200) \cup appErrors(400, p.detail) \cup appErrors(404, p.notFound),
      updateProduct |-> Success(200) \cup appErrors(400, p.update) \cup owned,
      updateInventory |-> Success(200) \cup appErrors(400, p.inventory) \cup owned,
      updateStatus |->
        Success(200) \cup appErrors(400, p.status) \cup owned
        \cup appErrors(409, p.lifecycleConflict)]

addressPaths ==
  LET d == deliveryErrorCodes
      signed == appErrors(401, d.authentication) \cup appErrors(403, d.csrf)
  IN [getCart |->
        Success(200) \cup appErrors(400, cartErrorCodes.tenant)
        \cup appErrors(401, cartErrorCodes.authentication),
      listAddresses |->
        Success(200) \cup appErrors(400, tenantCodes) \cup appErrors(401, d.authentication),
      createAddress |-> Success(201) \cup appErrors(400, d.request) \cup signed,
      updateAddress |->
        Success(200) \cup appErrors(400, d.request) \cup signed
        \cup appErrors(404, d.notFound),
      deleteAddress |->
        Success(204) \cup appErrors(400, d.path) \cup signed
        \cup appErrors(404, d.notFound)]

cartItemPaths ==
  LET c == cartErrorCodes
      signed == appErrors(401, c.authentication) \cup appErrors(403, c.csrf)
  IN [setCartItem |->
        Success(200) \cup appErrors(400, c.itemRequest) \cup signed
        \cup appErrors(404, c.productNotFound) \cup appErrors(409, c.inventoryConflict),
      removeCartItem |-> Success(200) \cup appErrors(400, c.itemPath) \cup signed]

watchlistPaths ==
  LET w == watchlistErrorCodes
      signed == appErrors(401, w.authentication) \cup appErrors(403, w.csrf)
  IN [listWatchlist |->
        Success(200) \cup appErrors(400, w.tenant) \cup appErrors(401, w.authentication),
      addWatchlist |->
        Success(201) \cup appErrors(400, w.itemPath) \cup signed
        \cup appErrors(404, w.productNotFound),
      removeWatchlist |-> Success(204) \cup appErrors(400, w.itemPath) \cup signed]

orderPaths ==
  LET o == orderErrorCodes
      signed == appErrors(401, o.authentication) \cup appErrors(403, o.csrf)
  IN [listOrders |->
        Success(200) \cup appErrors(400, o.listRequest) \cup appErrors(401, o.authentication),
      createOrder |->
        Success(201) \cup appErrors(400, o.checkoutRequest) \cup signed
        \cup appErrors(404, o.addressNotFound) \cup appErrors(409, o.inventoryConflict),
      getCheckoutQuote |->
        Success(200)
        \cup appErrors(400, tenantCodes \cup
                            {"INVALID_REQUEST", "EMPTY_CART", "INVALID_DELIVERY_OPTION"})
        \cup signed \cup appErrors(404, o.addressNotFound)
        \cup appErrors(409, o.inventoryConflict \ {"CHECKOUT_QUOTE_CHANGED"})]

operationPaths ==
  LET s == sellerOperationsErrorCodes
      o == orderErrorCodes
  IN [getSellerOperations |->
        Success(200) \cup appErrors(400, s.request) \cup appErrors(401, s.authentication),
      updateOrderStatus |->
        Success(200) \cup appErrors(400, o.statusRequest)
        \cup appErrors(401, o.authentication) \cup appErrors(403, o.ownership)
        \cup appErrors(404, o.notFound) \cup appErrors(409, o.transitionConflict)]

reviewPaths ==
  LET r == reviewErrorCodes
  IN [listReviews |-> Success(200) \cup appErrors(400, r.listRequest),
      createReview |->
        Success(201) \cup appErrors(400, r.createRequest)
        \cup appErrors(401, r.authentication) \cup appErrors(403, r.authorization)
        \cup appErrors(404, r.productNotFound) \cup appErrors(409, r.idempotencyConflict)]

notificationPaths ==
  LET n == notificationErrorCodes
  IN [listNotifications |->
        Success(200) \cup appErrors(400, n.listRequest) \cup appErrors(401, n.authentication),
      countUnreadNotifications |->
        Success(200) \cup appErrors(400, n.tenant) \cup appErrors(401, n.authentication),
      updateNotificationRead |->
        Success(200) \cup appErrors(400, n.updateRequest)
        \cup appErrors(401, n.authentication) \cup appErrors(403, n.csrf)
        \cup appErrors(404, n.notFound)]

(* What the document is put together from; no operation is in two of these. *)
Paths ==
  {systemPaths, emailVerificationPaths, passwordResetPaths, profilePaths,
   accountChangePaths, sessionPaths, userPaths, productPaths, productChangePaths,
   addressPaths, cartItemPaths, watchlistPaths, orderPaths, operationPaths,
   reviewPaths, notificationPaths}

(* The answers the document announces for an operation. *)
Documented(operation) ==
  UNION {paths[operation] : paths \in {p \in Paths : operation \in DOMAIN p}}

=============================================================================
