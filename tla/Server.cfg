CONSTANTS
  None = None
  x1 = x1 x2 = x2 x3 = x3 y1 = y1 y2 = y2 z1 = z1 z2 = z2 v1 = v1
  Customers = {c1}
  Variants = {v1, z1, z2}
  CartRequests = {y1, y2}
  Asked = {3}
  Stocks = {1}
  Price <- MCPrice
  OfferStock <- MCOfferStock
  Discount <- MCDiscount
  Conditions = {"unavailable", "replaced", "deleted"}
  MaxCalls = 5
  MaxSellerEdits = 1
  Products = {y1, y2}
  Offers = {x1, x2, x3}
  OfferRequests = {r1}
  Rates = {1, 2}
  MaxOfferCrashes = 1
  AccountRequests = {x1, x2, x3}
  Emails = {e1}
  Phones = {p1}
  Names = {y1, y2}
  Codes = {z1, z2}
  MaxAccountEdits = 1
  MaxAccountCrashes = 1
  Users = {u1, u2}
  Mailed = {u1}
  ResetRequests = {x1, x2, x3}
  Tokens = {z1, z2}
  Lifetime = 2
  MaxActive = 2
  MaxDeletes = 1
SPECIFICATION Spec
CHECK_DEADLOCK FALSE
INVARIANTS OneItemPerVariant OneLiveOffer ContactSharedByRaceOnly PasswordByIssuedCode OnlyLatestCodeWorks
PROPERTIES NothingLost WritesHitTheirItem BookSpec VerifiedForGood ResetByCurrentCode
SYMMETRY Symmetry
