CONSTANTS
  t1 = t1
  t2 = t2
  NoProduct = NoProduct
  NoTitle = NoTitle
  Products = {p1, p2}
  Titles = {t1, t2}
  MaxImages = 3
  Handlers = {h1, h2}
SPECIFICATION Spec
SYMMETRY Symmetry
CHECK_DEADLOCK FALSE
INVARIANTS CatalogueInv PictureOutlivesRaces
