------------------------------- MODULE Api -------------------------------
(***************************************************************************)
(* The HTTP pipeline of the marketplace and the cookies of one browser.    *)
(* A page clicks, the browser sends the request with the cookies it holds  *)
(* by then, the request passes the middleware of its route one stage after *)
(* the other (backend/src/routes.ts), a handler answers it, and the answer *)
(* reaches the browser, in any order with the answers to other requests.   *)
(*                                                                         *)
(* What is followed through is what the stages decide on: the tenant and   *)
(* the origin of a request, its cookies, the session and its user, the     *)
(* hits of the rate limiters.  The content of a body is not: a validator   *)
(* may find any of the faults it looks for, a handler may give any of the  *)
(* answers its service can give (the other modules say when).              *)
(***************************************************************************)
EXTENDS ApiContract, FiniteSets, Sequences

CONSTANTS
  Requests,     \* slots for requests under way, of one browser
  Sends,        \* the operations each slot may carry
  Tenants,      \* the configured tenants
  Users,        \* the accounts
  Home,         \* the tenant of each account
  Sessions,     \* the sessions that can be created
  Limit,        \* the configured limit of every rate limiter
  MaxClicks     \* bound on the requests each slot carries in a behaviour

Absent == "none"

(* What a client may put into X-Tenant-Id and into Origin or Referer. *)
TenantHeaders == Tenants \cup {"unknown", Absent}

Origins == {"allowed", "other", Absent}

-----------------------------------------------------------------------------
(* The faults each validator looks for; it reports the first. *)

Faults(codes) == appErrors(400, codes)

validateLoginPayload == Faults({"INVALID_REQUEST", "MISSING_CREDENTIALS"})

validateAccountRequest == Faults({"INVALID_REQUEST", "MISSING_EMAIL", "INVALID_EMAIL"})

validateAccountTokenConfirmation ==
  Faults({"INVALID_REQUEST", "INVALID_OR_EXPIRED_ACCOUNT_TOKEN"})

validatePasswordResetConfirmation ==
  Faults({"INVALID_REQUEST", "INVALID_OR_EXPIRED_ACCOUNT_TOKEN", "MISSING_PASSWORD_FIELDS",
          "PASSWORD_CONFIRMATION_MISMATCH", "WEAK_PASSWORD"})

validateProfileUpdate == Faults({"INVALID_REQUEST", "MISSING_PROFILE_UPDATE_FIELDS"})

validatePasswordChange ==
  Faults({"INVALID_REQUEST", "MISSING_PASSWORD_CHANGE_FIELDS",
          "PASSWORD_CONFIRMATION_MISMATCH", "WEAK_PASSWORD"})

validateEmailChangeRequest ==
  Faults({"INVALID_REQUEST", "MISSING_EMAIL_CHANGE_FIELDS", "INVALID_EMAIL"})

validateAccountDeactivation ==
  Faults({"INVALID_REQUEST", "DEACTIVATION_CONFIRMATION_MISMATCH"})

validateCreateUserPayload ==
  Faults({"INVALID_REQUEST", "MISSING_USER_FIELDS", "INVALID_EMAIL", "WEAK_PASSWORD"})

(* Money is checked wherever a body carries a price. *)
exactMoneyFaults ==
  Faults({"INVALID_REQUEST", "INVALID_PRODUCT_CURRENCY", "INVALID_PRODUCT_PRICE"})

validateCreateProductPayload ==
  exactMoneyFaults \cup
  Faults({"MISSING_PRODUCT_FIELDS", "INVALID_PRODUCT_INVENTORY", "INVALID_PRODUCT_STATUS",
          "INVALID_PRODUCT_STATUS_INVENTORY", "INVALID_PRODUCT_IMAGE_URL"})

validateUpdateProductPayload ==
  exactMoneyFaults \cup
  Faults({"INVALID_PRODUCT_IMAGE_URL", "MISSING_PRODUCT_UPDATE_FIELDS"})

validateProductFilters ==
  Faults({"INVALID_REQUEST", "INVALID_PRODUCT_STATUS_FILTER",
          "INVALID_PRODUCT_AVAILABILITY_FILTER", "INVALID_PRODUCT_SORT"})

\* Mutant: the identifier of a product fails with the code of other resources.
validateProductId_ResourceId == Faults({"INVALID_RESOURCE_ID"})

validateProductId == Faults({"INVALID_PRODUCT_ID"})

validateSellerId == Faults({"INVALID_SELLER_ID"})

validateResourceId == Faults({"INVALID_RESOURCE_ID"})

validateDeliveryAddress ==
  Faults({"INVALID_REQUEST", "MISSING_ADDRESS_FIELDS", "INVALID_ADDRESS",
          "INVALID_POSTAL_CODE"})

(* These bodies and queries are checked by their shape alone. *)
shapeFaults == Faults({"INVALID_REQUEST"})

(* What validateRequest checks of each operation: body, params and query. *)
validated ==
  [indexProducts |-> validateProductFilters,
   productDetail |-> validateProductId,
   sellerProfile |-> validateSellerId,
   listBySeller |-> validateSellerId \cup validateProductFilters,
   addUser |-> validateCreateUserPayload,
   login |-> validateLoginPayload,
   requestEmailVerification |-> validateAccountRequest,
   confirmEmailVerification |-> validateAccountTokenConfirmation,
   requestPasswordReset |-> validateAccountRequest,
   confirmPasswordReset |-> validatePasswordResetConfirmation,
   confirmEmailChange |-> validateAccountTokenConfirmation,
   revokeSession |-> validateResourceId,
   updateProfile |-> validateProfileUpdate,
   changePassword |-> validatePasswordChange,
   requestEmailChange |-> validateEmailChangeRequest,
   deactivateAccount |-> validateAccountDeactivation,
   addProduct |-> validateCreateProductPayload,
   updateProduct |-> validateProductId \cup validateUpdateProductPayload,
   updateStatus |-> validateProductId \cup shapeFaults,
   updateInventory |-> validateProductId \cup shapeFaults,
   createAddress |-> validateDeliveryAddress,
   updateAddress |-> validateResourceId \cup validateDeliveryAddress,
   deleteAddress |-> validateResourceId,
   setCartItem |-> validateResourceId \cup shapeFaults,
   removeCartItem |-> validateResourceId,
   addWatchlist |-> validateResourceId,
   removeWatchlist |-> validateResourceId,
   listOrders |-> shapeFaults,
   getCheckoutQuote |-> shapeFaults,
   createOrder |-> shapeFaults,
   getSellerOperations |-> shapeFaults,
   updateOrderStatus |-> validateResourceId \cup shapeFaults,
   listReviews |-> validateResourceId \cup shapeFaults,
   createReview |-> validateResourceId \cup shapeFaults,
   listNotifications |-> shapeFaults,
   updateNotificationRead |-> validateResourceId \cup shapeFaults]

-----------------------------------------------------------------------------
(* The stages of each route, in the order of routes.ts. *)

signed == <<"auth">>

signedQuery == <<"auth", "validate">>

guarded == <<"auth", "csrf">>

guardedChange == <<"auth", "csrf", "validate">>

keyedChange == <<"auth", "csrf", "idempotency", "validate">>

limitedChange == <<"auth", "csrf", "limit", "validate">>

publicRoutes ==
  [getRoot |-> <<>>, getHealth |-> <<>>, getReady |-> <<>>,
   indexProducts |-> <<"validate">>,
   productDetail |-> <<"validate">>,
   sellerProfile |-> <<"validate">>,
   listBySeller |-> <<"validate">>,
   addUser |-> <<"limit", "validate">>,
   login |-> <<"limit", "presentOrigin", "validate">>]

confirmationStages == <<"origin", "delivery", "limit", "validate">>

accountSecurityRoutes ==
  [requestEmailVerification |-> confirmationStages,
   confirmEmailVerification |-> confirmationStages,
   requestPasswordReset |-> confirmationStages,
   confirmPasswordReset |-> confirmationStages,
   confirmEmailChange |-> confirmationStages]

sessionRoutes ==
  [session |-> signed,
   refresh |-> <<"origin", "csrf">>,
   sessions |-> signed,
   revokeSession |-> <<"auth", "origin", "csrf", "validate">>,
   logoutCurrent |-> <<"auth", "origin", "csrf">>,
   logout |-> guarded]

accountRoutes ==
  [updateProfile |-> guardedChange,
   changePassword |-> limitedChange,
   requestEmailChange |-> <<"auth", "csrf", "delivery", "limit", "validate">>,
   deactivateAccount |-> limitedChange]

productRoutes ==
  [addProduct |-> keyedChange,
   updateProduct |-> guardedChange,
   updateStatus |-> guardedChange,
   updateInventory |-> guardedChange]

buyerRoutes ==
  [getCart |-> signed,
   listAddresses |-> signed,
   createAddress |-> guardedChange,
   updateAddress |-> guardedChange,
   deleteAddress |-> guardedChange,
   setCartItem |-> guardedChange,
   removeCartItem |-> guardedChange,
   listWatchlist |-> signed,
   addWatchlist |-> guardedChange,
   removeWatchlist |-> guardedChange]

orderRoutes ==
  [listOrders |-> signedQuery,
   getCheckoutQuote |-> guardedChange,
   createOrder |-> keyedChange,
   getSellerOperations |-> signedQuery,
   updateOrderStatus |-> guardedChange,
   listReviews |-> <<"validate">>,
   createReview |-> keyedChange,
   countUnreadNotifications |-> signed,
   listNotifications |-> signedQuery,
   updateNotificationRead |-> guardedChange]

Routes ==
  DOMAIN publicRoutes \cup DOMAIN accountSecurityRoutes \cup DOMAIN sessionRoutes
  \cup DOMAIN accountRoutes \cup DOMAIN productRoutes \cup DOMAIN buyerRoutes
  \cup DOMAIN orderRoutes

routed(r) ==
  CASE r \in DOMAIN publicRoutes -> publicRoutes[r]
    [] r \in DOMAIN accountSecurityRoutes -> accountSecurityRoutes[r]
    [] r \in DOMAIN sessionRoutes -> sessionRoutes[r]
    [] r \in DOMAIN accountRoutes -> accountRoutes[r]
    [] r \in DOMAIN productRoutes -> productRoutes[r]
    [] r \in DOMAIN buyerRoutes -> buyerRoutes[r]
    [] r \in DOMAIN orderRoutes -> orderRoutes[r]

(* createApp parses the body and resolves the tenant before any route. *)
Stages == [r \in Routes |-> <<"json", "tenant">> \o routed(r) \o <<"handle">>]

ASSUME ApiAssumption ==
  /\ IsFiniteSet(Requests)
  /\ Sends \in [Requests -> SUBSET Routes]
  /\ Home \in [Users -> Tenants]
  /\ Limit \in Nat \ {0}
  /\ MaxClicks \in [Requests -> Nat]
  /\ Absent \notin Tenants \cup Users
  /\ Sessions \cap {Absent, "keep", "clear"} = {}

rateLimitCodes ==
  [addUser |-> "REGISTER_RATE_LIMITED",
   login |-> "AUTH_RATE_LIMITED",
   requestEmailVerification |-> "EMAIL_VERIFICATION_REQUEST_RATE_LIMITED",
   confirmEmailVerification |-> "EMAIL_VERIFICATION_CONFIRMATION_RATE_LIMITED",
   requestPasswordReset |-> "PASSWORD_RESET_REQUEST_RATE_LIMITED",
   confirmPasswordReset |-> "PASSWORD_RESET_CONFIRMATION_RATE_LIMITED",
   changePassword |-> "PASSWORD_CHANGE_RATE_LIMITED",
   requestEmailChange |-> "EMAIL_CHANGE_REQUEST_RATE_LIMITED",
   confirmEmailChange |-> "EMAIL_CHANGE_CONFIRMATION_RATE_LIMITED",
   deactivateAccount |-> "ACCOUNT_DEACTIVATION_RATE_LIMITED"]

-----------------------------------------------------------------------------
(* What the services can refuse, whatever the session; and what success is. *)

accountRefusals ==
  [addUser |-> appErrors(400, {"USER_EXISTS"}),
   login |-> appErrors(401, {"INVALID_CREDENTIALS"}),
   sellerProfile |-> appErrors(404, {"SELLER_NOT_FOUND"}),
   confirmEmailVerification |-> appErrors(400, {"INVALID_OR_EXPIRED_ACCOUNT_TOKEN"}),
   confirmPasswordReset |-> appErrors(400, {"INVALID_OR_EXPIRED_ACCOUNT_TOKEN"}),
   confirmEmailChange |->
     appErrors(400, {"INVALID_OR_EXPIRED_ACCOUNT_TOKEN"})
     \cup appErrors(409, {"EMAIL_UNAVAILABLE"}),
   updateProfile |-> appErrors(409, {"ACCOUNT_STATE_CHANGED"}),
   changePassword |->
     appErrors(400, {"PASSWORD_REUSE_NOT_ALLOWED"})
     \cup appErrors(403, {"REAUTHENTICATION_FAILED"})
     \cup appErrors(409, {"ACCOUNT_STATE_CHANGED"}),
   requestEmailChange |->
     appErrors(400, {"EMAIL_UNCHANGED"}) \cup appErrors(403, {"REAUTHENTICATION_FAILED"})
     \cup appErrors(409, {"ACCOUNT_STATE_CHANGED", "EMAIL_UNAVAILABLE"}),
   deactivateAccount |->
     appErrors(403, {"REAUTHENTICATION_FAILED"})
     \cup appErrors(409, {"ACCOUNT_STATE_CHANGED",
                          "ACCOUNT_DEACTIVATION_BLOCKED_ACTIVE_ORDERS"}),
   logout |-> appErrors(401, {"INVALID_AUTH_TOKEN"}),
   session |-> appErrors(401, {"INVALID_AUTH_TOKEN"})]

ownedProduct ==
  appErrors(404, {"PRODUCT_NOT_FOUND"}) \cup appErrors(403, {"PRODUCT_FORBIDDEN"})

productRefusals ==
  [productDetail |-> appErrors(404, {"PRODUCT_NOT_FOUND"}),
   addProduct |->
     appErrors(400, {"INVALID_PRODUCT_CURRENCY"})
     \cup appErrors(409, {"IDEMPOTENCY_KEY_REUSED"}),
   updateProduct |-> ownedProduct \cup appErrors(400, {"INVALID_PRODUCT_CURRENCY"}),
   updateInventory |-> ownedProduct,
   updateStatus |->
     ownedProduct
     \cup appErrors(409, {"PRODUCT_STATUS_TRANSITION_INVALID",
                          "PRODUCT_INVENTORY_REQUIRED", "PRODUCT_PRICE_REQUIRED"})]

pricingRefusals ==
  appErrors(400, {"EMPTY_CART"}) \cup appErrors(404, {"DELIVERY_ADDRESS_NOT_FOUND"})
  \cup appErrors(409, {"INSUFFICIENT_INVENTORY", "PRODUCT_PRICE_REQUIRED",
                       "ORDER_TOTAL_LIMIT_EXCEEDED"})

commerceRefusals ==
  [setCartItem |->
     appErrors(404, {"PRODUCT_NOT_FOUND"}) \cup appErrors(409, {"INSUFFICIENT_INVENTORY"}),
   addWatchlist |-> appErrors(404, {"PRODUCT_NOT_FOUND"}),
   getCheckoutQuote |-> pricingRefusals,
   createOrder |-> pricingRefusals \cup appErrors(409, {"CHECKOUT_QUOTE_CHANGED"}),
   updateOrderStatus |->
     appErrors(404, {"ORDER_NOT_FOUND"}) \cup appErrors(403, {"ORDER_FORBIDDEN"})
     \cup appErrors(409, {"ORDER_STATUS_TRANSITION_INVALID"}),
   createReview |->
     appErrors(409, {"IDEMPOTENCY_KEY_REUSED"}) \cup appErrors(404, {"PRODUCT_NOT_FOUND"})
     \cup appErrors(403, {"REVIEW_FORBIDDEN", "REVIEW_PURCHASE_REQUIRED"}),
   updateNotificationRead |-> appErrors(404, {"NOTIFICATION_NOT_FOUND"}),
   updateAddress |-> appErrors(404, {"DELIVERY_ADDRESS_NOT_FOUND"}),
   deleteAddress |-> appErrors(404, {"DELIVERY_ADDRESS_NOT_FOUND"})]

refusals(r) ==
  CASE r \in DOMAIN accountRefusals -> accountRefusals[r]
    [] r \in DOMAIN productRefusals -> productRefusals[r]
    [] r \in DOMAIN commerceRefusals -> commerceRefusals[r]
    [] OTHER -> {}

created == {"addUser", "addProduct", "createAddress", "addWatchlist", "createOrder",
            "createReview"}

accepted == {"requestEmailVerification", "requestPasswordReset", "requestEmailChange"}

emptied ==
  {"confirmEmailVerification", "confirmPasswordReset", "confirmEmailChange",
   "changePassword", "deactivateAccount", "refresh", "revokeSession", "logoutCurrent",
   "logout", "removeWatchlist", "deleteAddress"}

successOf(r) ==
  IF r \in created THEN 201
  ELSE IF r \in accepted THEN 202
  ELSE IF r \in emptied THEN 204 ELSE 200

-----------------------------------------------------------------------------
VARIABLES
  jar,        \* the session each of the browser's three cookies belongs to
  requests,   \* the requests under way
  live,       \* the sessions neither revoked nor expired
  owner,      \* the user of each session
  closed,     \* the accounts deactivated
  hits,       \* what the limiters counted in the current window
  attempts,   \* the handlers behind a limiter that ran for one caller
  clicks      \* requests each slot carried so far

apiVars == <<jar, requests, live, owner, closed, hits, attempts, clicks>>

LimitedRoutes == DOMAIN rateLimitCodes

(* What the limiters count for, and what they should count for. *)
Budgets ==
  LimitedRoutes \X (Tenants \cup {Absent}) \X (Users \cup {Absent})

Callers == LimitedRoutes \X (Users \cup {Absent})

NoCookies == [access |-> Absent, refresh |-> Absent, csrf |-> Absent]

CookiesOf(s) == [access |-> s, refresh |-> s, csrf |-> s]

NoRequest == [route |-> Absent, stage |-> 0, cookies |-> NoCookies, header |-> Absent,
         tenant |-> Absent, session |-> Absent, answer |-> <<0, Absent>>, change |-> "keep"]

(* The browser starts signed in to some account, or to none. *)
ApiInit ==
  /\ \E s \in Sessions \cup {Absent}, u \in Users :
       /\ jar = CookiesOf(s)
       /\ live = {s} \ {Absent}
       /\ owner = [x \in Sessions |-> IF x = s THEN u ELSE Absent]
  /\ requests = [q \in Requests |-> NoRequest]
  /\ closed = {}
  /\ hits = [b \in Budgets |-> 0]
  /\ attempts = [c \in Callers |-> 0]
  /\ clicks = [q \in Requests |-> 0]

-----------------------------------------------------------------------------
(* A request at its stage: it passes to the next one, or is answered. *)

StageOf(q) == Stages[requests[q].route][requests[q].stage]

At(q, stage) ==
  /\ requests[q].stage > 0
  /\ requests[q].answer = NoRequest.answer
  /\ StageOf(q) = stage

Passing(q) == [requests[q] EXCEPT !.stage = @ + 1]

(* Of an answered request only the answer matters. *)
Answered(q, answer, change) ==
  [NoRequest EXCEPT !.route = requests[q].route, !.stage = requests[q].stage,
               !.answer = answer, !.change = change]

Become(q, request) == requests' = [requests EXCEPT ![q] = request]

Refuse(q, answers) == \E a \in answers : Become(q, Answered(q, a, "keep"))

(* The page reads its CSRF cookie to fill the header ... *)
Click(q) ==
  /\ requests[q] = NoRequest
  /\ clicks[q] < MaxClicks[q]
  /\ \E r \in Sends[q] : Become(q, [NoRequest EXCEPT !.route = r, !.header = jar.csrf])
  /\ clicks' = [clicks EXCEPT ![q] = @ + 1]
  /\ UNCHANGED <<jar, live, owner, closed, hits, attempts>>

(* ... and the browser adds the cookies it holds when the request leaves:  *)
(* the refresh cookie only goes to paths under /auth.                      *)
UnderAuth ==
  DOMAIN sessionRoutes \cup DOMAIN accountSecurityRoutes \cup {"login"}

Send(q) ==
  /\ requests[q].route # Absent
  /\ requests[q].stage = 0
  /\ Become(q, [requests[q] EXCEPT
       !.stage = 1,
       !.cookies = IF requests[q].route \in UnderAuth THEN jar ELSE [jar EXCEPT !.refresh = Absent]])
  /\ UNCHANGED <<jar, live, owner, closed, hits, attempts, clicks>>

ParseJson(q) ==
  /\ At(q, "json")
  /\ Become(q, Passing(q)) \/ Refuse(q, appErrors(400, {"INVALID_JSON_PAYLOAD"}))
  /\ UNCHANGED <<jar, live, owner, closed, hits, attempts, clicks>>

(* A request without the header is refused in production, and is the       *)
(* default tenant's elsewhere; here the header is required.                *)
tenantMiddleware(q) ==
  /\ At(q, "tenant")
  /\ \E t \in TenantHeaders :
       \/ /\ t \in Tenants
          /\ Become(q, [Passing(q) EXCEPT !.tenant = t])
       \/ t = Absent /\ Refuse(q, appErrors(400, {"TENANT_HEADER_REQUIRED"}))
       \/ t \notin Tenants \cup {Absent} /\ Refuse(q, appErrors(400, {"INVALID_TENANT"}))
  /\ UNCHANGED <<jar, live, owner, closed, hits, attempts, clicks>>

(* A login may come without an origin, other requests with cookies not. *)
AcceptedOrigins(q) ==
  IF StageOf(q) = "presentOrigin" THEN {"allowed", Absent} ELSE {"allowed"}

requireAllowedOrigin(q) ==
  /\ At(q, "origin") \/ At(q, "presentOrigin")
  /\ \E o \in Origins :
       \/ o \in AcceptedOrigins(q) /\ Become(q, Passing(q))
       \/ o \notin AcceptedOrigins(q) /\ Refuse(q, appErrors(403, {"INVALID_ORIGIN"}))
  /\ UNCHANGED <<jar, live, owner, closed, hits, attempts, clicks>>

(* The access token names its session, user and tenant.  The session and   *)
(* the user are looked up on each request; any failure is a 401 as well.   *)
\* Mutant: the tenant of the token is not compared with the request's.
authenticateCookie_AnyTenant(q) == requests[q].cookies.access \in live

authenticateCookie(q) ==
  /\ requests[q].cookies.access \in live
  /\ Home[owner[requests[q].cookies.access]] = requests[q].tenant

authMiddleware(q) ==
  /\ At(q, "auth")
  /\ LET access == requests[q].cookies.access
     IN \/ access = Absent /\ Refuse(q, appErrors(401, {"AUTH_TOKEN_REQUIRED"}))
        \/ access # Absent /\ Refuse(q, appErrors(401, {"INVALID_AUTH_TOKEN"}))
        \/ /\ authenticateCookie(q)
           /\ Become(q, [Passing(q) EXCEPT !.session = access])
  /\ UNCHANGED <<jar, live, owner, closed, hits, attempts, clicks>>

(* The session a request acts for: the authenticated one, or without one   *)
(* the session of the refresh token.                                       *)
ActingSession(q) ==
  IF requests[q].session # Absent THEN requests[q].session ELSE requests[q].cookies.refresh


(* The token in the header must be the one in the cookie, and be signed    *)
(* for the session acted for.  Tokens are told apart by their session      *)
(* only: two of one session differ too, so a refusal is always possible.   *)
\* Mutant: an allowed origin is enough.
csrfProof_OriginOnly(q) == ActingSession(q) # Absent

csrfProof(q) ==
  /\ ActingSession(q) # Absent
  /\ requests[q].cookies.csrf = requests[q].header
  /\ requests[q].header = ActingSession(q)

requireCsrf(q) ==
  /\ At(q, "csrf")
  /\ \/ Refuse(q, appErrors(403, csrfCodes))
     \/ csrfProof(q) /\ Become(q, Passing(q))
  /\ UNCHANGED <<jar, live, owner, closed, hits, attempts, clicks>>

requireIdempotencyKey(q) ==
  /\ At(q, "idempotency")
  /\ Become(q, Passing(q)) \/ Refuse(q, appErrors(400, idempotencyCodes))
  /\ UNCHANGED <<jar, live, owner, closed, hits, attempts, clicks>>

(* Messages to account holders are sent in some deployments only. *)
requireDelivery(q) ==
  /\ At(q, "delivery")
  /\ Become(q, Passing(q)) \/ Refuse(q, appErrors(503, {"ACCOUNT_DELIVERY_UNAVAILABLE"}))
  /\ UNCHANGED <<jar, live, owner, closed, hits, attempts, clicks>>

(* The limiters of signed-in operations count per tenant, user and         *)
(* address, the others per address; the requests here share one address.   *)
\* Mutant: every limiter counts per tenant.
rateLimitKey_PerTenant(q) == <<requests[q].route, requests[q].tenant, Absent>>

rateLimitKey(q) ==
  IF requests[q].session = Absent THEN <<requests[q].route, Absent, Absent>>
  ELSE <<requests[q].route, requests[q].tenant, owner[requests[q].session]>>

createRateLimiter(q) ==
  /\ At(q, "limit")
  /\ hits' = [hits EXCEPT ![rateLimitKey(q)] = @ + 1]
  /\ IF hits[rateLimitKey(q)] < Limit
     THEN Become(q, Passing(q))
     ELSE Refuse(q, {<<429, rateLimitCodes[requests[q].route]>>})
  /\ UNCHANGED <<jar, live, owner, closed, attempts, clicks>>

validateRequest(q) ==
  /\ At(q, "validate")
  /\ Become(q, Passing(q)) \/ Refuse(q, validated[requests[q].route])
  /\ UNCHANGED <<jar, live, owner, closed, hits, attempts, clicks>>

-----------------------------------------------------------------------------
(* The handlers. *)

Limited(q) == requests[q].route \in LimitedRoutes

(* Who a handler works for, as far as the limiters should tell. *)
Caller(q) == IF requests[q].session = Absent THEN Absent ELSE owner[requests[q].session]

Handles(q, names) ==
  /\ At(q, "handle")
  /\ requests[q].route \in names
  /\ attempts' = IF Limited(q)
                 THEN [attempts EXCEPT ![<<requests[q].route, Caller(q)>>] = @ + 1]
                 ELSE attempts
  /\ UNCHANGED <<jar, hits, clicks>>

Succeed(q, change) ==
  Become(q, Answered(q, <<successOf(requests[q].route), "OK">>, change))

SessionsOf(u) == {s \in live : owner[s] = u}

(* A service refuses, or fails: the transaction rolls back and the answer  *)
(* is an internal error.                                                   *)
Decline(q) ==
  /\ Handles(q, Routes)
  /\ \/ Refuse(q, refusals(requests[q].route))
     \/ Refuse(q, appErrors(500, {"INTERNAL_SERVER_ERROR"}))
     \/ requests[q].route = "getReady" /\ Refuse(q, appErrors(503, {"NOT_READY"}))
  /\ UNCHANGED <<live, owner, closed>>

(* Reads, and changes of something else than sessions. *)
Serve(q) ==
  /\ Handles(q, Routes \ {"login", "refresh", "revokeSession", "logoutCurrent", "logout",
                          "changePassword", "deactivateAccount", "confirmPasswordReset",
                          "confirmEmailChange"})
  /\ requests[q].route = "session" => requests[q].session \in live
  /\ Succeed(q, "keep")
  /\ UNCHANGED <<live, owner, closed>>

(* A login opens a session, for whatever account the credentials are of. *)
authenticate(q) ==
  /\ Handles(q, {"login"})
  /\ \E s \in Sessions, u \in Users \ closed :
       /\ owner[s] = Absent
       /\ Home[u] = requests[q].tenant
       /\ owner' = [owner EXCEPT ![s] = u]
       /\ live' = live \cup {s}
       /\ Succeed(q, s)
  /\ UNCHANGED closed

(* A refresh renews the three cookies, or removes them with a 401.  When   *)
(* the token is found to be an old one, the session is revoked as well.    *)
refreshSession(q) ==
  LET s == requests[q].cookies.refresh
  IN /\ Handles(q, {"refresh"})
     /\ \/ /\ s \in live
           /\ Home[owner[s]] = requests[q].tenant
           /\ \/ Succeed(q, s) /\ UNCHANGED live
              \/ Refuse(q, appErrors(409, {"REFRESH_ALREADY_ROTATED"})) /\ UNCHANGED live
              \/ /\ Become(q, Answered(q, <<401, "REFRESH_TOKEN_REUSED">>, "clear"))
                 /\ live' = live \ {s}
        \/ /\ s \notin live \/ Home[owner[s]] # requests[q].tenant
           /\ \E code \in {"INVALID_REFRESH_TOKEN", "SESSION_EXPIRED", "REFRESH_TOKEN_REUSED"} :
                Become(q, Answered(q, <<401, code>>, "clear"))
           /\ UNCHANGED live
     /\ UNCHANGED <<owner, closed>>

(* The page names one of the account's sessions as they were listed. *)
\* Mutant: the cookies are left, whichever session was revoked.
clearedBy_Never(q, s) == "keep"

clearedBy(q, s) == IF s = requests[q].session THEN "clear" ELSE "keep"

revokeSession(q) ==
  /\ Handles(q, {"revokeSession"})
  /\ \E s \in Sessions :
       /\ owner[s] = owner[requests[q].session]
       /\ IF s \in live
          THEN Succeed(q, clearedBy(q, s)) /\ live' = live \ {s}
          ELSE Refuse(q, appErrors(404, {"SESSION_NOT_FOUND"})) /\ UNCHANGED live
  /\ UNCHANGED <<owner, closed>>

logoutCurrent(q) ==
  LET s == requests[q].session
  IN /\ Handles(q, {"logoutCurrent"})
     /\ IF s \in live
        THEN Succeed(q, "clear") /\ live' = live \ {s}
        ELSE Refuse(q, appErrors(404, {"SESSION_NOT_FOUND"})) /\ UNCHANGED live
     /\ UNCHANGED <<owner, closed>>

(* A logout from everywhere, a new password and a deactivation end every   *)
(* session of the account.                                                 *)
endEverySession(q) ==
  LET u == owner[requests[q].session]
  IN /\ Handles(q, {"logout", "changePassword", "deactivateAccount"})
     /\ u \notin closed
     /\ Succeed(q, "clear")
     /\ live' = live \ SessionsOf(u)
     /\ closed' = IF requests[q].route = "deactivateAccount" THEN closed \cup {u} ELSE closed
     /\ UNCHANGED owner

(* A token from a message resets a password or proves a new address.  It   *)
(* ends every session of its account, which need not be the browser's, and *)
(* removes the browser's cookies.                                          *)
confirmForAccount(q) ==
  /\ Handles(q, {"confirmPasswordReset", "confirmEmailChange"})
  /\ \E u \in Users \ closed :
       /\ Home[u] = requests[q].tenant
       /\ live' = live \ SessionsOf(u)
  /\ Succeed(q, "clear")
  /\ UNCHANGED <<owner, closed>>

received(change) ==
  CASE change = "keep" -> jar
    [] change = "clear" -> NoCookies
    [] OTHER -> CookiesOf(change)

(* The browser takes the answer, and does what it says with the cookies. *)
Deliver(q) ==
  /\ requests[q].answer # NoRequest.answer
  /\ jar' = received(requests[q].change)
  /\ Become(q, NoRequest)
  /\ UNCHANGED <<live, owner, closed, hits, attempts, clicks>>

(* The access cookie lives shorter than the other two. *)
AccessCookieExpires ==
  /\ jar.access # Absent
  /\ jar' = [jar EXCEPT !.access = Absent]
  /\ UNCHANGED <<requests, live, owner, closed, hits, attempts, clicks>>

SessionExpires ==
  /\ \E s \in live : live' = live \ {s}
  /\ UNCHANGED <<jar, requests, owner, closed, hits, attempts, clicks>>

ApiNext ==
  \/ \E q \in Requests :
       \/ Click(q) \/ Send(q) \/ ParseJson(q) \/ tenantMiddleware(q)
       \/ requireAllowedOrigin(q) \/ authMiddleware(q) \/ requireCsrf(q)
       \/ requireIdempotencyKey(q) \/ requireDelivery(q) \/ createRateLimiter(q)
       \/ validateRequest(q) \/ Decline(q) \/ Serve(q) \/ authenticate(q)
       \/ refreshSession(q) \/ revokeSession(q) \/ logoutCurrent(q) \/ endEverySession(q)
       \/ confirmForAccount(q) \/ Deliver(q)
  \/ AccessCookieExpires
  \/ SessionExpires

ApiSpec == ApiInit /\ [][ApiNext]_apiVars

-----------------------------------------------------------------------------
(* Properties *)

Cookies == [{"access", "refresh", "csrf"} -> Sessions \cup {Absent}]

(* An answer carries a code the document has an example of, or one of the  *)
(* three that answer before or after every operation.                      *)
Answers ==
  (200..503) \X (AppErrorExampleCode \cup
                 {"OK", "INVALID_JSON_PAYLOAD", "INTERNAL_SERVER_ERROR", "NOT_READY"})

Request ==
  [route : Routes \cup {Absent}, stage : 0..12, tenant : Tenants \cup {Absent},
   cookies : Cookies, header : Sessions \cup {Absent}, session : Sessions \cup {Absent},
   answer : Answers \cup {NoRequest.answer}, change : Sessions \cup {"keep", "clear"}]

(* Every variable has the shape its comment gives, and only sessions that  *)
(* were opened are live.                                                   *)
ApiTypeOK ==
  /\ jar \in Cookies
  /\ jar.refresh = jar.csrf /\ jar.access \in {Absent, jar.csrf}
  /\ requests \in [Requests -> Request]
  /\ live \subseteq {s \in Sessions : owner[s] # Absent}
  /\ owner \in [Sessions -> Users \cup {Absent}]
  /\ closed \subseteq Users
  /\ hits \in [Budgets -> Nat]
  /\ attempts \in [Callers -> Nat]
  /\ clicks \in [Requests -> Nat]
  /\ \A q \in Requests : clicks[q] <= MaxClicks[q]

(* Answers the document does not announce.  A body that is no JSON and an  *)
(* internal error may answer any operation, a missing tenant the three     *)
(* system ones too.  An unchanged address is announced as a 409, the       *)
(* identifier of an address is checked unannounced, and a logout that      *)
(* comes after its session was revoked finds no session.                   *)
Unannounced ==
  (Routes \X {<<400, "INVALID_JSON_PAYLOAD">>, <<500, "INTERNAL_SERVER_ERROR">>})
  \cup ((DOMAIN systemPaths) \X appErrors(400, tenantCodes))
  \cup {<<"requestEmailChange", <<400, "EMAIL_UNCHANGED">>>>,
        <<"updateAddress", <<400, "INVALID_RESOURCE_ID">>>>,
        <<"logoutCurrent", <<404, "SESSION_NOT_FOUND">>>>}

(* Whatever stage of whatever operation answers, and however requests      *)
(* overtake each other, the answer is one the OpenAPI document announces   *)
(* for the operation, but for the listed exceptions.                       *)
AnswersDocumented ==
  \A q \in Requests :
    requests[q].answer # NoRequest.answer =>
      \/ requests[q].answer \in Documented(requests[q].route)
      \/ <<requests[q].route, requests[q].answer>> \in Unannounced

(* When another page of the browser signs in to another account, a change  *)
(* that a page sent for the first session is never made for the second:    *)
(* the CSRF token the page read is of the session the handler acts for.    *)
ChangesForPageSession ==
  \A q \in Requests :
    /\ At(q, "handle")
    /\ \E i \in 1..Len(Stages[requests[q].route]) : Stages[requests[q].route][i] = "csrf"
    => ActingSession(q) # Absent /\ ActingSession(q) = requests[q].header

(* A handler behind authentication acts in the tenant its account belongs  *)
(* to, whatever tenant the request names.                                  *)
ActsInOwnTenant ==
  \A q \in Requests :
    At(q, "handle") /\ requests[q].session # Absent =>
      Home[owner[requests[q].session]] = requests[q].tenant

(* The types, with handlers that act in the tenant of their account.       *)
ApiInv == ApiTypeOK /\ ActsInOwnTenant

(* In one window a caller reaches the handlers behind a limiter no more    *)
(* often than the limit allows, however many sessions the caller opens.    *)
AttemptsLimited == \A c \in Callers : attempts[c] <= Limit

(* The cookies of a signed-in request and its session end together: the    *)
(* answer to a request that ended its own session removes the cookies, and *)
(* no answer removes them while the session is still live.                 *)
CookiesEndWithSession ==
  [][\A q \in Requests :
       LET s == requests[q].session
       IN s # Absent /\ requests[q].answer = NoRequest.answer /\ requests'[q].answer # NoRequest.answer
            => /\ s \in live \ live' => requests'[q].change = "clear"
               /\ requests'[q].change = "clear" => s \notin live']_apiVars

=============================================================================
