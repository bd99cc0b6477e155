\* Two connections and four calls, with eight events about two orders; a sale earns the bonus.
CONSTANTS
  Requests = {r1, r2}
  Orders = {shoe, hat}
  Events = {page, shop, returned, withdrawn, session, intent, firstBack, allBack}
  Says <- Reported
  Amount = 3
  Threshold = 1
  MaxCalls = 4
  MaxInvites = 2
  Null = Null
  shoe = shoe
  hat = hat
  page = page
  shop = shop
  returned = returned
  withdrawn = withdrawn
  session = session
  intent = intent
  firstBack = firstBack
  allBack = allBack
SPECIFICATION Spec
SYMMETRY Symmetric
INVARIANTS
  OneSalePerOrder
  LoggedIsDone
  BonusRight
PROPERTIES
  RefundFindsSale
\* All calls are made.
CHECK_DEADLOCK FALSE
