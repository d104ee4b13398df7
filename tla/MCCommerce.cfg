CONSTANTS
  NoOrder = NoOrder
  Carts = {k1, k2}
  MaxStock = 2
  Quantity = {1}
  Plain = {k2}
  Upload = {u1, u2}
  Picture = {"p"}
  GalleryRoom = 1
  Application = {a1, a2}
  Attempt = {t1, t2}
  Payment = {p}
  MaxVersion = 3
SPECIFICATION Spec
INVARIANTS StockIsAccounted MoneyIsHonoured ChargesAreSound SaleIsSettled
  ShownFilesOpen
PROPERTY WorkersCatchUp
CHECK_DEADLOCK FALSE
