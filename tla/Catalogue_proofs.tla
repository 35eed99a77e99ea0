---------------------------- MODULE Catalogue_proofs ----------------------------
(***************************************************************************)
(* The checks of the catalogue fail in races only, for any products,       *)
(* titles, files and number of requests: CatalogueInv is inductive.        *)
(***************************************************************************)
EXTENDS Catalogue, TLAPS

(* A step of one request leaves the others as they are.                     *)
LEMMA BecomeOthers ==
  ASSUME req \in [Handlers -> Requests], NEW h \in Handlers, NEW r \in Requests, Become(h, r)
  PROVE  /\ req' \in [Handlers -> Requests]
         /\ req'[h] = r
         /\ \A g \in Handlers : g # h => req'[g] = req[g]
BY DEF Become

(* A handler without a request                                              *)
LEMMA IdleIsRequest == Idle \in Requests /\ Idle.at = "idle"
BY CatalogueAssumption DEF Idle, Requests, Request

(* The values a row may have                                                *)
LEMMA NoneIsNoProduct == None \notin Product
BY CatalogueAssumption DEF None, Product

(* The typing of a request whose step is not the last                       *)
LEMMA RequestFields ==
  ASSUME TypeOK, NEW h \in Handlers
  PROVE  /\ req[h] \in Requests
         /\ req[h].product \in Products \cup {NoProduct}
         /\ req[h].title \in Titles \cup {NoTitle}
         /\ req[h].image \in 0..MaxImages /\ req[h].old \in 0..MaxImages
         /\ req[h].at \notin {"idle", "create"} =>
               req[h].product \in Products /\ product[req[h].product] \in Product
<1>1. req[h] \in Requests
  BY DEF TypeOK
<1>2. /\ req[h].product \in Products \cup {NoProduct}
      /\ req[h].title \in Titles \cup {NoTitle}
      /\ req[h].image \in 0..MaxImages /\ req[h].old \in 0..MaxImages
  BY <1>1 DEF Requests
<1> QED BY <1>1, <1>2 DEF TypeOK, Exists

(* Nothing is there at first.                                               *)
LEMMA InitInv == Init => CatalogueInv
<1> SUFFICES ASSUME Init PROVE CatalogueInv
  OBVIOUS
<1>1. \A h \in Handlers : req[h] \in Requests /\ req[h].at = "idle"
  BY IdleIsRequest DEF Init
<1>2. TypeOK
  <2>1. req \in [Handlers -> Requests]
    BY IdleIsRequest DEF Init
  <2> QED BY <1>1, <2>1, CatalogueAssumption DEF Init, TypeOK, Exists
<1>3. \A p \in Products : product[p] = None
  BY DEF Init
<1>4. ChecksFailOnlyInRaces
  BY <1>3 DEF Init, ChecksFailOnlyInRaces, Exists
<1>5. ChecksHoldOrRaced
  BY <1>1 DEF ChecksHoldOrRaced, Creating, Deleting
<1> QED BY <1>2, <1>4, <1>5 DEF CatalogueInv

(* A request that ends, and changes nothing but what was spoilt             *)
LEMMA EndsInv ==
  ASSUME CatalogueInv, NEW h \in Handlers, Done(h), spoilt' \subseteq Images,
         UNCHANGED <<product, sold, uploads, files, raced, clashed>>
  PROVE  CatalogueInv'
<1> USE DEF CatalogueInv
<1>1. /\ req' \in [Handlers -> Requests]
      /\ req'[h].at = "idle"
      /\ \A g \in Handlers : g # h => req'[g] = req[g]
  BY BecomeOthers, IdleIsRequest DEF Done, TypeOK
<1>2. TypeOK'
  BY <1>1 DEF TypeOK, Exists
<1>3. ChecksFailOnlyInRaces'
  BY DEF ChecksFailOnlyInRaces, Exists
<1>4. ChecksHoldOrRaced'
  BY <1>1 DEF ChecksHoldOrRaced, Creating, Deleting, TitleInUse
<1> QED BY <1>2, <1>3, <1>4

(* What a failed request had removed was an image.                          *)
LEMMA FailsInv ==
  ASSUME CatalogueInv, NEW h \in Handlers, Fails(h)
  PROVE  CatalogueInv'
<1>1. req[h].old \in 0..MaxImages
  BY RequestFields DEF CatalogueInv
<1>2. spoilt' \subseteq Images
  <2>1. Unlinked(req[h]) \subseteq 0..MaxImages \ {0}
    BY <1>1 DEF Unlinked
  <2>2. 0..MaxImages \ {0} \subseteq Images
    BY CatalogueAssumption DEF Images
  <2> QED BY <2>1, <2>2 DEF Fails, CatalogueInv, TypeOK
<1> QED BY <1>2, EndsInv DEF Fails

(* A new file has a name of its own.                                        *)
LEMMA UploadType ==
  ASSUME TypeOK, Upload
  PROVE  uploads' \in Images /\ uploads' = uploads + 1 /\ uploads' \in 0..MaxImages /\ files' \subseteq Images
BY CatalogueAssumption DEF TypeOK, Upload, Images

(* createProduct refuses the title or starts a request for a new one.       *)
LEMMA CreateReadInv ==
  ASSUME CatalogueInv, NEW h \in Handlers, NEW t \in Titles, CreateRead(h, t)
  PROVE  CatalogueInv'
<1> USE DEF CatalogueInv
<1>1. uploads + 1 \in Images /\ uploads' \in 0..MaxImages /\ files' \subseteq Images
  BY UploadType DEF CreateRead
<1>2. CASE TitleInUse(t)
  <2>1. UNCHANGED <<product, sold, req, spoilt, raced, clashed>>
    BY <1>2 DEF CreateRead
  <2>2. TypeOK'
    BY <1>1, <2>1 DEF TypeOK, Exists
  <2>3. ChecksFailOnlyInRaces' /\ ChecksHoldOrRaced'
    BY <2>1 DEF ChecksFailOnlyInRaces, ChecksHoldOrRaced, Exists, Creating, TitleInUse
  <2> QED BY <2>2, <2>3
<1>3. CASE ~TitleInUse(t)
  <2> DEFINE r == Request("create", NoProduct, 0, t, uploads + 1)
  <2>1. r \in Requests /\ r.at = "create" /\ r.title = t /\ r.image \in Images
    BY <1>1, CatalogueAssumption DEF Requests, Request, Images
  <2>2. Become(h, r)
    BY <1>3 DEF CreateRead
  <2> HIDE DEF r
  <2>3. /\ req' \in [Handlers -> Requests] /\ req'[h] = r
        /\ \A g \in Handlers : g # h => req'[g] = req[g]
    BY <2>1, <2>2, BecomeOthers DEF TypeOK
  <2>4. /\ clashed \subseteq clashed' /\ clashed' \subseteq clashed \cup {t}
        /\ (\E g \in Creating : req[g].title = t) => t \in clashed'
        /\ UNCHANGED <<product, sold, spoilt, raced>>
    BY <1>3 DEF CreateRead
  <2>5. TypeOK'
    BY <1>1, <2>1, <2>3, <2>4 DEF TypeOK, Exists
  <2>6. ChecksFailOnlyInRaces'
    BY <2>4 DEF ChecksFailOnlyInRaces, Exists
  <2>7. Creating' = Creating \cup {h} /\ h \notin Creating
    BY <2>1, <2>3, IdleIsRequest DEF Creating, CreateRead
  <2>8. \A g \in Creating' : TitleInUse(req[g].title)' => req'[g].title \in clashed'
    BY <1>3, <2>1, <2>3, <2>4, <2>7 DEF ChecksHoldOrRaced, TitleInUse, Creating
  <2>9. \A g, k \in Creating' : g # k /\ req'[g].title = req'[k].title => req'[k].title \in clashed'
    BY <2>1, <2>3, <2>4, <2>7 DEF ChecksHoldOrRaced, Creating
  <2>10. ChecksHoldOrRaced'
    BY <2>1, <2>3, <2>4, <2>8, <2>9 DEF ChecksHoldOrRaced, Deleting
  <2> QED BY <2>5, <2>6, <2>10
<1> QED BY <1>2, <1>3

(* The new row's title is one that only its own request was about, or one   *)
(* that clashed.                                                            *)
LEMMA CreateCommitInv ==
  ASSUME CatalogueInv, NEW h \in Handlers, CreateCommit(h)
  PROVE  CatalogueInv'
<1> USE DEF CatalogueInv
<1>1. req[h].at = "create" /\ req[h].title \in Titles /\ req[h].image \in Images /\ h \in Creating
  BY DEF CreateCommit, TypeOK, Creating
<1> DEFINE row == [title |-> req[h].title, image |-> req[h].image, deleted |-> FALSE]
<1>2. row \in Product /\ row.title = req[h].title /\ ~row.deleted /\ row # None
  <2>1. row \in Product
    BY <1>1 DEF Product
  <2> QED BY <2>1, NoneIsNoProduct
<1>3. PICK p \in Products : ~Exists(p) /\ product' = [product EXCEPT ![p] = row]
  BY DEF CreateCommit
<1> HIDE DEF row
<1>4. /\ product' \in [Products -> Product \cup {None}] /\ product'[p] = row
      /\ \A q \in Products : q # p => product'[q] = product[q]
  BY <1>2, <1>3 DEF TypeOK
<1>5. /\ req' \in [Handlers -> Requests] /\ req'[h].at = "idle"
      /\ \A g \in Handlers : g # h => req'[g] = req[g]
  BY BecomeOthers, IdleIsRequest DEF CreateCommit, Done, TypeOK
<1>6. UNCHANGED <<sold, uploads, files, spoilt, raced, clashed>>
  BY DEF CreateCommit
<1>7. \A q \in Products : product[q] # None => q # p /\ product'[q] = product[q]
  BY <1>3, <1>4 DEF Exists
<1>8. TypeOK'
  BY <1>2, <1>4, <1>5, <1>6, <1>7 DEF TypeOK, Exists
<1>9. \A q \in Products : q # p /\ product[q].title = row.title => row.title \in clashed
  BY <1>1, <1>2 DEF ChecksHoldOrRaced, TitleInUse
<1>10. ChecksFailOnlyInRaces'
  <2>1. \A q \in sold' : product'[q].deleted => q \in raced'
    BY <1>2, <1>4, <1>6 DEF ChecksFailOnlyInRaces, TypeOK
  <2>2. \A q, s \in Products : q # s /\ product'[q] # None /\ product'[q].title = product'[s].title
                                 => product'[q].title \in clashed'
    BY <1>4, <1>6, <1>9 DEF ChecksFailOnlyInRaces, Exists
  <2> QED BY <2>1, <2>2 DEF ChecksFailOnlyInRaces, Exists
<1>11. ChecksHoldOrRaced'
  <2>1. Creating' \subseteq Creating \ {h}
    BY <1>5 DEF Creating
  <2>2. \A g \in Creating' : TitleInUse(req[g].title)' => req'[g].title \in clashed'
    <3> SUFFICES ASSUME NEW g \in Creating', NEW q \in Products, product'[q].title = req'[g].title
                 PROVE  req'[g].title \in clashed'
      BY DEF TitleInUse
    <3>1. g \in Creating /\ g # h /\ req'[g] = req[g]
      BY <1>5, <2>1 DEF Creating
    <3>2. CASE q = p
      BY <1>1, <1>2, <1>4, <1>6, <3>1, <3>2 DEF ChecksHoldOrRaced
    <3>3. CASE q # p
      BY <1>4, <1>6, <3>1, <3>3 DEF ChecksHoldOrRaced, TitleInUse
    <3> QED BY <3>2, <3>3
  <2>3. \A g, k \in Creating' : g # k /\ req'[g].title = req'[k].title => req'[k].title \in clashed'
    BY <1>5, <1>6, <2>1 DEF ChecksHoldOrRaced, Creating
  <2>4. \A g \in Handlers : req'[g].at = "buy" /\ product'[req'[g].product].deleted
                              => req'[g].product \in raced'
    BY <1>5, <1>6, <1>7 DEF ChecksHoldOrRaced, TypeOK, Exists
  <2> QED BY <1>5, <1>6, <2>2, <2>3, <2>4 DEF ChecksHoldOrRaced, Deleting
<1> QED BY <1>8, <1>10, <1>11

(* A request that starts, about one product, with nothing written           *)
LEMMA UpdateReadInv ==
  ASSUME CatalogueInv, NEW h \in Handlers, NEW p \in Products, NEW t \in Titles \cup {NoTitle},
         NEW withImage \in BOOLEAN, UpdateRead(h, p, t, withImage)
  PROVE  CatalogueInv'
<1> USE DEF CatalogueInv
<1> DEFINE r == IF withImage THEN Request("update_unlink", p, product[p].image, t, uploads + 1)
                ELSE Request("update", p, 0, t, 0)
<1>1. /\ req[h].at = "idle" /\ product[p] \in Product /\ Exists(p)
      /\ uploads' \in 0..MaxImages /\ files' \subseteq Images
      /\ withImage => uploads + 1 \in Images
  BY UploadType, IdleIsRequest DEF UpdateRead, TypeOK, Exists
<1>2. r \in Requests /\ r.at \in {"update_unlink", "update"} /\ r.product = p /\ r.title = t
  BY <1>1, CatalogueAssumption DEF Requests, Request, Images, Product
<1>3. Become(h, r)
  BY DEF UpdateRead
<1> HIDE DEF r
<1>4. /\ req' \in [Handlers -> Requests] /\ req'[h] = r
      /\ \A g \in Handlers : g # h => req'[g] = req[g]
  BY <1>2, <1>3, BecomeOthers DEF TypeOK
<1>5. UNCHANGED <<product, sold, spoilt, raced>> /\ clashed' = clashed \cup ({t} \cap Titles)
  BY DEF UpdateRead
<1>6. TypeOK'
  BY <1>1, <1>2, <1>4, <1>5 DEF TypeOK, Exists
<1>7. ChecksFailOnlyInRaces'
  BY <1>5 DEF ChecksFailOnlyInRaces, Exists
<1>8. ChecksHoldOrRaced'
  BY <1>2, <1>4, <1>5 DEF ChecksHoldOrRaced, Creating, Deleting, TitleInUse
<1> QED BY <1>6, <1>7, <1>8

(* Removing a file concerns no check.                                       *)
LEMMA UnlinkInv ==
  ASSUME CatalogueInv, NEW h \in Handlers, Unlink(h)
  PROVE  CatalogueInv'
<1> USE DEF CatalogueInv
<1> DEFINE r == Request(IF req[h].at = "update_unlink" THEN "update" ELSE "delete",
                        req[h].product, req[h].old, req[h].title, req[h].image)
<1>1. /\ r \in Requests /\ r.product = req[h].product /\ r.title = req[h].title
      /\ \/ req[h].at = "update_unlink" /\ r.at = "update"
         \/ req[h].at = "delete_unlink" /\ r.at = "delete"
  BY RequestFields DEF Unlink, Requests, Request
<1>2. Become(h, r)
  BY DEF Unlink
<1> HIDE DEF r
<1>3. /\ req' \in [Handlers -> Requests] /\ req'[h] = r
      /\ \A g \in Handlers : g # h => req'[g] = req[g]
  BY <1>1, <1>2, BecomeOthers DEF TypeOK
<1>4. UNCHANGED <<product, sold, uploads, spoilt, raced, clashed>> /\ files' \subseteq files
  BY DEF Unlink
<1>5. TypeOK'
  BY <1>1, <1>3, <1>4 DEF TypeOK, Exists
<1>6. ChecksFailOnlyInRaces'
  BY <1>4 DEF ChecksFailOnlyInRaces, Exists
<1>7. ChecksHoldOrRaced'
  BY <1>1, <1>3, <1>4 DEF ChecksHoldOrRaced, Creating, Deleting, TitleInUse
<1> QED BY <1>5, <1>6, <1>7

(* A row keeps its title and its deletion, or gets a title that clashed.    *)
LEMMA UpdateWriteInv ==
  ASSUME CatalogueInv, NEW h \in Handlers, UpdateWrite(h)
  PROVE  CatalogueInv'
<1> USE DEF CatalogueInv
<1> DEFINE p == req[h].product
           row == Written(product[p], req[h])
<1>1. p \in Products /\ product[p] \in Product /\ req[h].at = "update"
  BY DEF UpdateWrite, TypeOK, Exists
<1>2. req[h].title \in Titles \cup {NoTitle} /\ req[h].image \in 0..MaxImages
  BY RequestFields
<1>3. /\ row \in Product /\ row.deleted = product[p].deleted
      /\ row.title = product[p].title \/ row.title \in clashed
  <2>1. row.title = IF req[h].title = NoTitle THEN product[p].title ELSE req[h].title
    BY DEF Written
  <2>2. row.title \in Titles
    BY <1>1, <1>2, <2>1 DEF Product
  <2>3. (IF req[h].image = 0 THEN product[p].image ELSE req[h].image) \in Images
    BY <1>1, <1>2, CatalogueAssumption DEF Product, Images
  <2>4. product[p].deleted \in BOOLEAN
    BY <1>1 DEF Product
  <2>5. row \in Product
    BY <1>1, <1>2, <2>2, <2>3, <2>4 DEF Written, Product
  <2>6. req[h].title \in clashed \cup {NoTitle}
    BY <1>1 DEF ChecksHoldOrRaced
  <2> QED BY <2>1, <2>5, <2>6 DEF Written
<1>4. product' = [product EXCEPT ![p] = row]
  BY DEF UpdateWrite
<1>5. row # None
  BY <1>3, NoneIsNoProduct
<1> HIDE DEF row
<1>6. /\ product' \in [Products -> Product \cup {None}] /\ product'[p] = row
      /\ \A q \in Products : q # p => product'[q] = product[q]
  BY <1>1, <1>3, <1>4 DEF TypeOK
<1>7. /\ req' \in [Handlers -> Requests] /\ req'[h].at = "idle"
      /\ \A g \in Handlers : g # h => req'[g] = req[g]
  BY BecomeOthers, IdleIsRequest DEF UpdateWrite, Done, TypeOK
<1>8. UNCHANGED <<sold, uploads, files, spoilt, raced, clashed>>
  BY DEF UpdateWrite
<1>9. \A q \in Products : /\ product'[q] = None <=> product[q] = None
                          /\ product'[q].deleted = product[q].deleted
                          /\ product'[q].title = product[q].title \/ product'[q].title \in clashed
  BY <1>1, <1>3, <1>5, <1>6, NoneIsNoProduct
<1> HIDE DEF p
<1>10. TypeOK'
  BY <1>6, <1>7, <1>8, <1>9 DEF TypeOK, Exists
<1>11. ChecksFailOnlyInRaces'
  BY <1>8, <1>9 DEF ChecksFailOnlyInRaces, Exists, TypeOK
<1>12. ChecksHoldOrRaced'
  <2>1. \A g \in Handlers : req'[g].at = "buy" /\ product'[req'[g].product].deleted
                              => req'[g].product \in raced'
    BY <1>7, <1>8, <1>9 DEF ChecksHoldOrRaced, TypeOK
  <2>2. \A g \in Creating' : TitleInUse(req[g].title)' => req'[g].title \in clashed'
    BY <1>7, <1>8, <1>9 DEF ChecksHoldOrRaced, Creating, TitleInUse
  <2> QED BY <1>7, <1>8, <2>1, <2>2 DEF ChecksHoldOrRaced, Creating, Deleting
<1> QED BY <1>10, <1>11, <1>12

(* A product that has a buyer is not about to be deleted, unless the buyer  *)
(* is still buying: then they raced.                                        *)
LEMMA DeleteReadInv ==
  ASSUME CatalogueInv, NEW h \in Handlers, NEW p \in Products, DeleteRead(h, p)
  PROVE  CatalogueInv'
<1> USE DEF CatalogueInv
<1> DEFINE r == Request("delete_unlink", p, product[p].image, NoTitle, 0)
<1>1. req[h].at = "idle" /\ Exists(p) /\ p \notin sold /\ product[p] \in Product
  BY IdleIsRequest DEF DeleteRead, Deletable, TypeOK, Exists
<1>2. r \in Requests /\ r.at = "delete_unlink" /\ r.product = p
  BY <1>1, CatalogueAssumption DEF Requests, Request, Images, Product
<1>3. Become(h, r)
  BY DEF DeleteRead
<1> HIDE DEF r
<1>4. /\ req' \in [Handlers -> Requests] /\ req'[h] = r
      /\ \A g \in Handlers : g # h => req'[g] = req[g]
  BY <1>2, <1>3, BecomeOthers DEF TypeOK
<1>5. /\ UNCHANGED <<product, sold, uploads, files, spoilt, clashed>>
      /\ raced \subseteq raced' /\ raced' \subseteq Products
      /\ \A g \in Handlers : req[g].at = "buy" /\ req[g].product = p => p \in raced'
  BY DEF DeleteRead, Busy, TypeOK
<1>6. TypeOK'
  BY <1>1, <1>2, <1>4, <1>5 DEF TypeOK, Exists
<1>7. ChecksFailOnlyInRaces'
  BY <1>5 DEF ChecksFailOnlyInRaces, Exists
<1>8. ChecksHoldOrRaced'
  BY <1>1, <1>2, <1>4, <1>5 DEF ChecksHoldOrRaced, Creating, Deleting, TitleInUse
<1> QED BY <1>6, <1>7, <1>8

(* Who is buying the product that is deleted has raced with the deletion.   *)
LEMMA DeleteWriteInv ==
  ASSUME CatalogueInv, NEW h \in Handlers, DeleteWrite(h)
  PROVE  CatalogueInv'
<1> USE DEF CatalogueInv
<1> DEFINE p == req[h].product
           row == Deleted(product[p])
<1>1. p \in Products /\ product[p] \in Product /\ req[h].at = "delete"
  BY DEF DeleteWrite, TypeOK, Exists
<1>2. row \in Product /\ row.title = product[p].title /\ row # None
  <2>1. row \in Product
    BY <1>1 DEF Deleted, Product
  <2> QED BY <2>1, NoneIsNoProduct DEF Deleted
<1>3. product' = [product EXCEPT ![p] = row]
  BY DEF DeleteWrite
<1> HIDE DEF row
<1>4. /\ product' \in [Products -> Product \cup {None}] /\ product'[p] = row
      /\ \A q \in Products : q # p => product'[q] = product[q]
  BY <1>1, <1>2, <1>3 DEF TypeOK
<1>5. /\ req' \in [Handlers -> Requests] /\ req'[h].at = "idle"
      /\ \A g \in Handlers : g # h => req'[g] = req[g]
  BY BecomeOthers, IdleIsRequest DEF DeleteWrite, Done, TypeOK
<1>6. UNCHANGED <<sold, uploads, files, spoilt, raced, clashed>>
  BY DEF DeleteWrite
<1>7. \A q \in Products : /\ product'[q] = None <=> product[q] = None
                          /\ product'[q].title = product[q].title
  BY <1>1, <1>2, <1>4, NoneIsNoProduct
<1>8. /\ p \in sold => p \in raced
      /\ \A g \in Handlers : req[g].at = "buy" /\ req[g].product = p => p \in raced
  BY <1>1 DEF ChecksHoldOrRaced, Deleting
<1> HIDE DEF p
<1>9. TypeOK'
  BY <1>4, <1>5, <1>6, <1>7 DEF TypeOK, Exists
<1>10. ChecksFailOnlyInRaces'
  BY <1>4, <1>6, <1>7, <1>8 DEF ChecksFailOnlyInRaces, Exists, TypeOK
<1>11. ChecksHoldOrRaced'
  <2>1. \A g \in Handlers : req'[g].at = "buy" /\ product'[req'[g].product].deleted
                              => req'[g].product \in raced'
    BY <1>4, <1>5, <1>6, <1>8 DEF ChecksHoldOrRaced, TypeOK
  <2>2. \A g \in Creating' : TitleInUse(req[g].title)' => req'[g].title \in clashed'
    BY <1>5, <1>6, <1>7 DEF ChecksHoldOrRaced, Creating, TitleInUse
  <2> QED BY <1>5, <1>6, <2>1, <2>2 DEF ChecksHoldOrRaced, Creating, Deleting
<1> QED BY <1>9, <1>10, <1>11

(* A product that is deleted is not bought, unless the deletion is still    *)
(* under way: then they raced.                                              *)
LEMMA BuyReadInv ==
  ASSUME CatalogueInv, NEW h \in Handlers, NEW p \in Products, BuyRead(h, p)
  PROVE  CatalogueInv'
<1> USE DEF CatalogueInv
<1> DEFINE r == Request("buy", p, 0, NoTitle, 0)
<1>1. req[h].at = "idle" /\ Exists(p) /\ ~product[p].deleted
  BY IdleIsRequest DEF BuyRead
<1>2. r \in Requests /\ r.at = "buy" /\ r.product = p
  BY CatalogueAssumption DEF Requests, Request
<1>3. Become(h, r)
  BY DEF BuyRead
<1> HIDE DEF r
<1>4. /\ req' \in [Handlers -> Requests] /\ req'[h] = r
      /\ \A g \in Handlers : g # h => req'[g] = req[g]
  BY <1>2, <1>3, BecomeOthers DEF TypeOK
<1>5. /\ UNCHANGED <<product, sold, uploads, files, spoilt, clashed>>
      /\ raced \subseteq raced' /\ raced' \subseteq Products
      /\ \A g \in Handlers : req[g].at \in Deleting /\ req[g].product = p => p \in raced'
  BY DEF BuyRead, Busy, TypeOK
<1>6. TypeOK'
  BY <1>1, <1>2, <1>4, <1>5 DEF TypeOK, Exists
<1>7. ChecksFailOnlyInRaces'
  BY <1>5 DEF ChecksFailOnlyInRaces, Exists
<1>8. ChecksHoldOrRaced'
  BY <1>1, <1>2, <1>4, <1>5 DEF ChecksHoldOrRaced, Creating, Deleting, TitleInUse
<1> QED BY <1>6, <1>7, <1>8

(* Who is deleting the product that is sold has raced with the purchase.    *)
LEMMA BuyCommitInv ==
  ASSUME CatalogueInv, NEW h \in Handlers, BuyCommit(h)
  PROVE  CatalogueInv'
<1> USE DEF CatalogueInv
<1> DEFINE p == req[h].product
<1>1. p \in Products /\ req[h].at = "buy"
  BY DEF BuyCommit, TypeOK
<1>2. /\ req' \in [Handlers -> Requests] /\ req'[h].at = "idle"
      /\ \A g \in Handlers : g # h => req'[g] = req[g]
  BY BecomeOthers, IdleIsRequest DEF BuyCommit, Done, TypeOK
<1>3. sold' = sold \cup {p} /\ UNCHANGED <<product, uploads, files, spoilt, raced, clashed>>
  BY DEF BuyCommit
<1>4. /\ product[p].deleted => p \in raced
      /\ \A g \in Handlers : req[g].at \in Deleting /\ req[g].product = p => p \in raced
  BY <1>1 DEF ChecksHoldOrRaced
<1> HIDE DEF p
<1>5. TypeOK'
  BY <1>1, <1>2, <1>3 DEF TypeOK, Exists
<1>6. ChecksFailOnlyInRaces'
  BY <1>3, <1>4 DEF ChecksFailOnlyInRaces, Exists
<1>7. ChecksHoldOrRaced'
  BY <1>2, <1>3, <1>4 DEF ChecksHoldOrRaced, Creating, TitleInUse, Deleting
<1> QED BY <1>5, <1>6, <1>7

-----------------------------------------------------------------------------
(* The checks of createProduct, deleteProduct and buyProduct fail in races  *)
(* only, however many requests overlap (product.service.ts lines 39, 103    *)
(* and 249).                                                                *)
THEOREM CatalogueChecks == Spec => []CatalogueInv
<1>1. CatalogueInv /\ [Next]_vars => CatalogueInv'
  <2> SUFFICES ASSUME CatalogueInv, [Next]_vars PROVE CatalogueInv'
    OBVIOUS
  <2>1. CASE UNCHANGED vars
    BY <2>1 DEF vars, CatalogueInv, TypeOK, ChecksFailOnlyInRaces, ChecksHoldOrRaced, Exists,
                Creating, Deleting, TitleInUse
  <2>2. CASE Next
    <3>1. PICK h \in Handlers : Step(h)
      BY <2>2 DEF Next
    <3>2. CASE \E t \in Titles : CreateRead(h, t)
      BY <3>2, CreateReadInv
    <3>3. CASE \E p \in Products : \E t \in Titles \cup {NoTitle}, withImage \in BOOLEAN :
                 UpdateRead(h, p, t, withImage)
      BY <3>3, UpdateReadInv
    <3>4. CASE \E p \in Products : DeleteRead(h, p) \/ BuyRead(h, p)
      BY <3>4, DeleteReadInv, BuyReadInv
    <3>5. CASE CreateCommit(h)
      BY <3>5, CreateCommitInv
    <3>6. CASE UpdateWrite(h)
      BY <3>6, UpdateWriteInv
    <3>7. CASE DeleteWrite(h)
      BY <3>7, DeleteWriteInv
    <3>8. CASE BuyCommit(h)
      BY <3>8, BuyCommitInv
    <3>9. CASE Unlink(h)
      BY <3>9, UnlinkInv
    <3>10. CASE Fails(h)
      BY <3>10, FailsInv
    <3> QED BY <3>1, <3>2, <3>3, <3>4, <3>5, <3>6, <3>7, <3>8, <3>9, <3>10 DEF Step
  <2> QED BY <2>1, <2>2
<1> QED BY <1>1, InitInv, PTL DEF Spec

-----------------------------------------------------------------------------
(* Pictures.  The strengthening of PictureOutlivesRaces: a file belongs to  *)
(* one row or one upload under way, which has it on disk, and a request     *)
(* removes no file but one that its own product had.                        *)
Rows == {p \in Products : Exists(p)}
RowsDiffer == /\ \A p \in Rows : product[p].image \in 1..uploads
              /\ \A p, q \in Rows : product[p].image = product[q].image => p = q
UploadsWait == \A h \in Handlers : req[h].image # 0 =>
  /\ req[h].image \in files /\ req[h].image \in 1..uploads
  /\ \A p \in Rows : product[p].image # req[h].image
  /\ \A g \in Handlers : /\ req[g].old # req[h].image
                         /\ g # h => req[g].image # req[h].image
OldIsOwn == \A h \in Handlers :
  /\ req[h].old \in 0..uploads
  /\ req[h].at = "update" /\ req[h].old # 0 => req[h].image # 0
  /\ req[h].at = "update_unlink" => req[h].image # 0
  /\ \A p \in Rows : product[p].image = req[h].old => p = req[h].product
PictureInv == RowsDiffer /\ UploadsWait /\ OldIsOwn /\ PictureOutlivesRaces

(* The types of what pictures are about                                     *)
LEMMA PictureFields ==
  ASSUME CatalogueInv
  PROVE  /\ uploads \in Nat /\ 0 \notin Images /\ Rows \subseteq Products
         /\ \A p \in Rows : product[p] \in Product /\ product[p].image \in Images
         /\ \A h \in Handlers : req[h].old \in Nat /\ req[h].image \in Nat
         /\ \A h \in Handlers : req[h].at \notin {"idle", "create"} => req[h].product \in Rows
<1>1. uploads \in Nat /\ 0 \notin Images
  BY CatalogueAssumption DEF CatalogueInv, TypeOK, Images
<1>2. \A p \in Rows : product[p] \in Product
  BY DEF CatalogueInv, TypeOK, Rows, Exists
<1>3. \A h \in Handlers : req[h].old \in Nat /\ req[h].image \in Nat
  BY RequestFields, CatalogueAssumption DEF CatalogueInv
<1>4. \A h \in Handlers : req[h].at \notin {"idle", "create"} => req[h].product \in Rows
  BY DEF CatalogueInv, TypeOK, Rows
<1> QED BY <1>1, <1>2, <1>3, <1>4 DEF Rows, Product

(* A request that is done has no upload and no old file.                    *)
LEMMA IdleFields == Idle.at = "idle" /\ Idle.old = 0 /\ Idle.image = 0
BY DEF Idle, Request

(* What updateProduct writes is a row.                                      *)
LEMMA WrittenIsRow ==
  ASSUME CatalogueInv, NEW h \in Handlers, req[h].at = "update"
  PROVE  Written(product[req[h].product], req[h]) # None
<1>1. product[req[h].product].title \in Titles /\ req[h].title \in Titles \cup {NoTitle}
  BY RequestFields DEF CatalogueInv, Product
<1>2. Written(product[req[h].product], req[h]).title \in Titles /\ None.title \notin Titles
  BY <1>1, CatalogueAssumption DEF Written, None
<1> QED BY <1>2

(* A request that starts without an upload, ends without a write, or fails  *)
LEMMA QuietPicture ==
  ASSUME CatalogueInv, PictureInv, NEW h \in Handlers, NEW r \in Requests, Become(h, r),
         UNCHANGED <<product, uploads, files>>, spoilt \subseteq spoilt',
         r.image = 0, r.at # "update_unlink",
         \/ r.old = 0
         \/ r.at # "update" /\ r.product \in Rows /\ r.old = product[r.product].image,
         req[h].at \in {"update", "delete"} => \/ req[h].old = 0
                                               \/ req[h].old \in files
                                               \/ req[h].old \in spoilt'
                                               \/ req[h].product \in Rows /\ product[req[h].product].deleted
  PROVE  PictureInv'
<1> USE DEF PictureInv
<1>1. /\ req'[h] = r /\ \A g \in Handlers : g # h => req'[g] = req[g]
  BY BecomeOthers DEF CatalogueInv, TypeOK
<1>2. Rows' = Rows /\ RowsDiffer'
  BY DEF Rows, Exists, RowsDiffer
<1>3. \A p \in Rows : product[p].image \in 1..uploads /\ uploads \in Nat
  BY PictureFields DEF RowsDiffer
<1>4. UploadsWait'
  <2>1. \A g, k \in Handlers : req[k].image # 0 => req[g].old # req[k].image
    BY DEF UploadsWait
  <2>2. \A k \in Handlers : req[k].image # 0 => r.old # req[k].image
    BY DEF UploadsWait
  <2> QED BY <1>1, <1>2, <2>1, <2>2 DEF UploadsWait
<1>5. OldIsOwn'
  <2>1. r.old \in 0..uploads /\ \A p \in Rows : product[p].image = r.old => p = r.product
    BY <1>3, PictureFields DEF RowsDiffer
  <2> QED BY <1>1, <1>2, <2>1 DEF OldIsOwn
<1>6. PictureOutlivesRaces'
  <2> SUFFICES ASSUME NEW p \in Rows, ~product[p].deleted, product[p].image \notin files,
                      product[p].image \notin spoilt'
               PROVE  \E g \in Handlers : /\ req'[g].at \in {"update", "delete"}
                                          /\ req'[g].product = p /\ req'[g].old = product[p].image
    BY DEF PictureOutlivesRaces, Rows, Exists
  <2>1. PICK g \in Handlers : /\ req[g].at \in {"update", "delete"}
                              /\ req[g].product = p /\ req[g].old = product[p].image
    BY DEF PictureOutlivesRaces, Rows
  <2>2. product[p].image # 0
    BY <1>3
  <2>3. g # h
    BY <2>1, <2>2
  <2> QED BY <1>1, <2>1, <2>3
<1> QED BY <1>2, <1>4, <1>5, <1>6

(* An upload comes with a request to use it, or is left behind.             *)
LEMMA UploadPicture ==
  ASSUME CatalogueInv, PictureInv, NEW h \in Handlers, NEW r \in Requests, Become(h, r), Upload,
         UNCHANGED <<product, spoilt>>, req[h].at = "idle",
         r.image \in {0, uploads + 1},
         r.at = "update_unlink" => r.image # 0,
         \/ r.old = 0
         \/ r.at # "update" /\ r.product \in Rows /\ r.old = product[r.product].image
  PROVE  PictureInv'
<1> USE DEF PictureInv
<1>1. /\ req'[h] = r /\ \A g \in Handlers : g # h => req'[g] = req[g]
  BY BecomeOthers DEF CatalogueInv, TypeOK
<1>2. /\ uploads' = uploads + 1 /\ files' = files \cup {uploads + 1} /\ uploads \in Nat
      /\ uploads + 1 \notin 1..uploads /\ uploads + 1 \notin 0..uploads
      /\ 1..uploads \subseteq 1..(uploads + 1) /\ 0..uploads \subseteq 0..(uploads + 1)
      /\ uploads + 1 \in 1..(uploads + 1)
  BY PictureFields DEF Upload
<1>3. Rows' = Rows
  BY DEF Rows, Exists
<1>4. RowsDiffer'
  BY <1>2, <1>3 DEF RowsDiffer
<1>5. r.old \in 0..uploads /\ \A p \in Rows : product[p].image = r.old => p = r.product
  <2>1. \A p \in Rows : product[p].image \in 1..uploads
    BY DEF RowsDiffer
  <2> QED BY <1>2, <2>1 DEF RowsDiffer
<1>6. UploadsWait'
  <2>1. \A g, k \in Handlers : req[k].image # 0 => req[g].old # req[k].image
    BY DEF UploadsWait
  <2>2. \A k \in Handlers : req[k].image # 0 => r.old # req[k].image
    BY DEF UploadsWait
  <2>3. \A k \in Handlers : req[k].image # uploads + 1 /\ req[k].old # uploads + 1
    <3>1. \A k \in Handlers : req[k].old \in 0..uploads
      BY DEF OldIsOwn
    <3>2. \A k \in Handlers : req[k].image = 0 \/ req[k].image \in 1..uploads
      BY DEF UploadsWait
    <3> QED BY <1>2, <3>1, <3>2
  <2>4. \A p \in Rows : product[p].image # uploads + 1
    BY <1>2 DEF RowsDiffer
  <2>5. r.old # uploads + 1
    BY <1>2, <1>5
  <2> SUFFICES ASSUME NEW k \in Handlers, req'[k].image # 0
               PROVE  /\ req'[k].image \in files' /\ req'[k].image \in 1..(uploads + 1)
                      /\ \A p \in Rows : product[p].image # req'[k].image
                      /\ \A g \in Handlers : /\ req'[g].old # req'[k].image
                                             /\ g # k => req'[g].image # req'[k].image
    BY <1>2, <1>3 DEF UploadsWait
  <2>6. CASE k = h
    BY <1>1, <1>2, <2>3, <2>4, <2>5, <2>6
  <2>7. CASE k # h
    <3>1. /\ req[k].image \in files /\ req[k].image \in 1..uploads
          /\ \A p \in Rows : product[p].image # req[k].image
          /\ \A g \in Handlers : g # k => req[g].image # req[k].image
      BY <1>1, <2>7 DEF UploadsWait
    <3>2. r.image # req[k].image
      BY <1>1, <2>3, <2>7
    <3> QED BY <1>1, <1>2, <2>1, <2>2, <2>7, <3>1, <3>2
  <2> QED BY <2>6, <2>7
<1>7. OldIsOwn'
  BY <1>1, <1>2, <1>3, <1>5 DEF OldIsOwn
<1>8. PictureOutlivesRaces'
  <2> SUFFICES ASSUME NEW p \in Rows, ~product[p].deleted, product[p].image \notin files,
                      product[p].image \notin spoilt
               PROVE  \E g \in Handlers : /\ req'[g].at \in {"update", "delete"}
                                          /\ req'[g].product = p /\ req'[g].old = product[p].image
    BY <1>2 DEF PictureOutlivesRaces, Rows, Exists
  <2>1. PICK g \in Handlers : /\ req[g].at \in {"update", "delete"}
                              /\ req[g].product = p /\ req[g].old = product[p].image
    BY DEF PictureOutlivesRaces, Rows
  <2> QED BY <1>1, <2>1
<1> QED BY <1>4, <1>6, <1>7, <1>8

(* The file removed is of no other product, and of no upload.               *)
LEMMA UnlinkPicture ==
  ASSUME CatalogueInv, PictureInv, NEW h \in Handlers, Unlink(h)
  PROVE  PictureInv'
<1> USE DEF PictureInv
<1> DEFINE r == Request(IF req[h].at = "update_unlink" THEN "update" ELSE "delete",
                        req[h].product, req[h].old, req[h].title, req[h].image)
<1>1. /\ r \in Requests /\ r.product = req[h].product /\ r.old = req[h].old /\ r.image = req[h].image
      /\ \/ req[h].at = "update_unlink" /\ r.at = "update"
         \/ req[h].at = "delete_unlink" /\ r.at = "delete"
  BY RequestFields DEF CatalogueInv, Unlink, Requests, Request
<1>2. Become(h, r)
  BY DEF Unlink
<1> HIDE DEF r
<1>3. /\ req'[h] = r /\ \A g \in Handlers : g # h => req'[g] = req[g]
  BY <1>1, <1>2, BecomeOthers DEF CatalogueInv, TypeOK
<1>4. UNCHANGED <<product, uploads, spoilt>> /\ files' = files \ {req[h].old}
  BY DEF Unlink
<1>5. Rows' = Rows /\ RowsDiffer'
  BY <1>4 DEF Rows, Exists, RowsDiffer
<1>6. \A g \in Handlers : req'[g].old = req[g].old /\ req'[g].image = req[g].image /\ req'[g].product = req[g].product
  BY <1>1, <1>3
<1>7. UploadsWait'
  BY <1>4, <1>5, <1>6 DEF UploadsWait
<1>8. OldIsOwn'
  <2>1. \A g \in Handlers : /\ req'[g].at = "update" /\ req'[g].old # 0 => req'[g].image # 0
                            /\ req'[g].at = "update_unlink" => req'[g].image # 0
    BY <1>1, <1>3, <1>6 DEF OldIsOwn
  <2> QED BY <1>4, <1>5, <1>6, <2>1 DEF OldIsOwn
<1>9. PictureOutlivesRaces'
  <2> SUFFICES ASSUME NEW p \in Rows, ~product[p].deleted, product[p].image \notin files',
                      product[p].image \notin spoilt
               PROVE  \E g \in Handlers : /\ req'[g].at \in {"update", "delete"}
                                          /\ req'[g].product = p /\ req'[g].old = product[p].image
    BY <1>4 DEF PictureOutlivesRaces, Rows, Exists
  <2>1. CASE product[p].image = req[h].old
    <3>1. req[h].product = p
      BY <2>1 DEF OldIsOwn
    <3> QED BY <1>1, <1>3, <2>1, <3>1
  <2>2. CASE product[p].image # req[h].old
    <3>1. PICK g \in Handlers : /\ req[g].at \in {"update", "delete"}
                                /\ req[g].product = p /\ req[g].old = product[p].image
      BY <1>4, <2>2 DEF PictureOutlivesRaces, Rows
    <3> QED BY <1>3, <2>2, <3>1
  <2> QED BY <2>1, <2>2
<1> QED BY <1>5, <1>7, <1>8, <1>9

(* A new row has the file that waited for it.                               *)
LEMMA CreatePicture ==
  ASSUME CatalogueInv, PictureInv, NEW h \in Handlers, CreateCommit(h)
  PROVE  PictureInv'
<1> USE DEF PictureInv
<1>1. req[h].at = "create" /\ req[h].title \in Titles /\ req[h].image \in Images
  BY DEF CatalogueInv, CreateCommit, TypeOK
<1> DEFINE row == [title |-> req[h].title, image |-> req[h].image, deleted |-> FALSE]
<1>2. row \in Product /\ row.image = req[h].image /\ row # None
  <2>1. row \in Product
    BY <1>1 DEF Product
  <2> QED BY <2>1, NoneIsNoProduct
<1>3. PICK p \in Products : ~Exists(p) /\ product' = [product EXCEPT ![p] = row]
  BY DEF CreateCommit
<1> HIDE DEF row
<1>4. /\ product'[p] = row /\ \A q \in Products : q # p => product'[q] = product[q]
  BY <1>3 DEF CatalogueInv, TypeOK
<1>5. /\ req'[h] = Idle /\ \A g \in Handlers : g # h => req'[g] = req[g]
  BY BecomeOthers, IdleIsRequest DEF CreateCommit, Done, CatalogueInv, TypeOK
<1>6. UNCHANGED <<uploads, files, spoilt>>
  BY DEF CreateCommit
<1>7. Rows' = Rows \cup {p} /\ p \notin Rows
  BY <1>2, <1>3, <1>4 DEF Rows, Exists
<1>8. \A q \in Rows : product'[q] = product[q]
  BY <1>4, <1>7 DEF Rows
<1>9. /\ req[h].image # 0 /\ req[h].image \in files /\ req[h].image \in 1..uploads
      /\ \A q \in Rows : product[q].image # req[h].image
      /\ \A g \in Handlers : /\ req[g].old # req[h].image
                             /\ g # h => req[g].image # req[h].image
  BY <1>1, PictureFields DEF UploadsWait
<1>10. product'[p].image = req[h].image
  BY <1>2, <1>4
<1>11. RowsDiffer'
  BY <1>6, <1>7, <1>8, <1>9, <1>10 DEF RowsDiffer
<1>12. UploadsWait'
  <2>1. \A g \in Handlers : req'[g].image # 0 => g # h
    BY <1>5, IdleFields
  <2>2. \A g \in Handlers, q \in Rows' : req'[g].image # 0 => product'[q].image # req'[g].image
    BY <1>5, <1>7, <1>8, <1>9, <1>10, <2>1 DEF UploadsWait
  <2>3. \A g, k \in Handlers : req'[k].image # 0 =>
          req'[g].old # req'[k].image /\ (g # k => req'[g].image # req'[k].image)
    BY <1>5, <2>1, IdleFields DEF UploadsWait
  <2> QED BY <1>5, <1>6, <2>1, <2>2, <2>3 DEF UploadsWait
<1>13. OldIsOwn'
  <2>1. \A g \in Handlers, q \in Rows' : product'[q].image = req'[g].old => q = req'[g].product
    <3> SUFFICES ASSUME NEW g \in Handlers, NEW q \in Rows', product'[q].image = req'[g].old
                 PROVE  q = req'[g].product
      OBVIOUS
    <3>1. product'[q].image # 0
      BY <1>7, <1>8, <1>9, <1>10, PictureFields
    <3>2. g # h
      BY <1>5, <3>1, IdleFields
    <3> QED BY <1>5, <1>7, <1>8, <1>9, <1>10, <3>2 DEF OldIsOwn
  <2>2. 0 \in 0..uploads
    BY PictureFields
  <2> QED BY <1>5, <1>6, <2>1, <2>2, IdleFields DEF OldIsOwn
<1>14. PictureOutlivesRaces'
  <2> SUFFICES ASSUME NEW q \in Rows', ~product'[q].deleted, product'[q].image \notin files,
                      product'[q].image \notin spoilt
               PROVE  \E g \in Handlers : /\ req'[g].at \in {"update", "delete"}
                                          /\ req'[g].product = q /\ req'[g].old = product'[q].image
    BY <1>6 DEF PictureOutlivesRaces, Rows, Exists
  <2>1. q \in Rows /\ product'[q] = product[q]
    BY <1>7, <1>8, <1>9, <1>10
  <2>2. PICK g \in Handlers : /\ req[g].at \in {"update", "delete"}
                              /\ req[g].product = q /\ req[g].old = product[q].image
    BY <2>1 DEF PictureOutlivesRaces, Rows
  <2>3. g # h
    BY <1>1, <2>2
  <2> QED BY <1>5, <2>1, <2>2, <2>3
<1> QED BY <1>11, <1>12, <1>13, <1>14

(* A row that is written has the file that waited for it, or the one it had. *)
LEMMA UpdatePicture ==
  ASSUME CatalogueInv, CatalogueInv', PictureInv, NEW h \in Handlers, UpdateWrite(h)
  PROVE  PictureInv'
<1> USE DEF PictureInv
<1> DEFINE p == req[h].product
           row == Written(product[p], req[h])
<1>1. p \in Products /\ p \in Rows /\ req[h].at = "update"
  BY PictureFields DEF UpdateWrite, Rows
<1>2. /\ row.image = (IF req[h].image = 0 THEN product[p].image ELSE req[h].image)
      /\ row.deleted = product[p].deleted
  BY DEF Written
<1>3. product' = [product EXCEPT ![p] = row]
  BY DEF UpdateWrite
<1> HIDE DEF row
<1>4. product'[p] = row /\ \A q \in Products : q # p => product'[q] = product[q]
  BY <1>1, <1>3 DEF CatalogueInv, TypeOK
<1>5. /\ req'[h] = Idle /\ \A g \in Handlers : g # h => req'[g] = req[g]
  BY BecomeOthers, IdleIsRequest DEF UpdateWrite, Done, CatalogueInv, TypeOK
<1>6. UNCHANGED <<uploads, files, spoilt>>
  BY DEF UpdateWrite
<1>7. Rows' = Rows
  <2>1. row # None
    BY <1>1, WrittenIsRow DEF row
  <2> QED BY <1>1, <1>4, <2>1 DEF Rows, Exists
<1>8. \A q \in Rows : product'[q].deleted = product[q].deleted
  BY <1>2, <1>4 DEF Rows
<1>9. CASE req[h].image = 0
  <2>1. \A q \in Rows : product'[q].image = product[q].image
    BY <1>2, <1>4, <1>9 DEF Rows
  <2>2. req[h].old = 0
    BY <1>1, <1>9 DEF OldIsOwn
  <2>3. RowsDiffer'
    BY <1>6, <1>7, <2>1 DEF RowsDiffer
  <2>4. UploadsWait'
    BY <1>5, <1>6, <1>7, <2>1, IdleFields DEF UploadsWait
  <2>5. OldIsOwn'
    <3>1. \A q \in Rows : product[q].image # 0
      BY PictureFields
    <3>2. 0 \in 0..uploads
      BY PictureFields
    <3> QED BY <1>5, <1>6, <1>7, <2>1, <3>1, <3>2, IdleFields DEF OldIsOwn
  <2>6. PictureOutlivesRaces'
    <3> SUFFICES ASSUME NEW q \in Rows, ~product[q].deleted, product[q].image \notin files,
                        product[q].image \notin spoilt
                 PROVE  \E g \in Handlers : /\ req'[g].at \in {"update", "delete"}
                                            /\ req'[g].product = q /\ req'[g].old = product[q].image
      BY <1>6, <1>7, <1>8, <2>1 DEF PictureOutlivesRaces, Rows, Exists
    <3>1. PICK g \in Handlers : /\ req[g].at \in {"update", "delete"}
                                /\ req[g].product = q /\ req[g].old = product[q].image
      BY DEF PictureOutlivesRaces, Rows
    <3>2. g # h
      BY <2>2, <3>1, PictureFields
    <3> QED BY <1>5, <3>1, <3>2
  <2> QED BY <2>3, <2>4, <2>5, <2>6
<1>10. CASE req[h].image # 0
  <2>1. product'[p].image = req[h].image /\ \A q \in Rows : q # p => product'[q] = product[q]
    BY <1>2, <1>4, <1>10 DEF Rows
  <2>2. /\ req[h].image \in files /\ req[h].image \in 1..uploads
        /\ \A q \in Rows : product[q].image # req[h].image
        /\ \A g \in Handlers : /\ req[g].old # req[h].image
                               /\ g # h => req[g].image # req[h].image
    BY <1>10 DEF UploadsWait
  <2> HIDE DEF p
  <2>3. RowsDiffer'
    BY <1>6, <1>7, <2>1, <2>2 DEF RowsDiffer
  <2>4. UploadsWait'
    <3>1. \A g \in Handlers : req'[g].image # 0 => g # h
      BY <1>5, IdleFields
    <3>2. \A g \in Handlers, q \in Rows : req'[g].image # 0 => product'[q].image # req'[g].image
      BY <1>5, <2>1, <2>2, <3>1 DEF UploadsWait
    <3>3. \A g, k \in Handlers : req'[k].image # 0 =>
            req'[g].old # req'[k].image /\ (g # k => req'[g].image # req'[k].image)
      BY <1>5, <3>1, IdleFields DEF UploadsWait
    <3> QED BY <1>5, <1>6, <1>7, <3>1, <3>2, <3>3 DEF UploadsWait
  <2>5. OldIsOwn'
    <3>1. \A g \in Handlers, q \in Rows : product'[q].image = req'[g].old => q = req'[g].product
      <4> SUFFICES ASSUME NEW g \in Handlers, NEW q \in Rows, product'[q].image = req'[g].old
                   PROVE  q = req'[g].product
        OBVIOUS
      <4>1. product'[q].image # 0
        BY <1>10, <2>1, PictureFields
      <4>2. g # h
        BY <1>5, <4>1, IdleFields
      <4> QED BY <1>5, <2>1, <2>2, <4>2 DEF OldIsOwn
    <3>2. 0 \in 0..uploads
      BY PictureFields
    <3> QED BY <1>5, <1>6, <1>7, <3>1, <3>2, IdleFields DEF OldIsOwn
  <2>6. PictureOutlivesRaces'
    <3> SUFFICES ASSUME NEW q \in Rows, ~product'[q].deleted, product'[q].image \notin files,
                        product'[q].image \notin spoilt
                 PROVE  \E g \in Handlers : /\ req'[g].at \in {"update", "delete"}
                                            /\ req'[g].product = q /\ req'[g].old = product'[q].image
      BY <1>6, <1>7 DEF PictureOutlivesRaces, Rows, Exists
    <3>1. q # p /\ product'[q] = product[q]
      BY <2>1, <2>2
    <3>2. PICK g \in Handlers : /\ req[g].at \in {"update", "delete"}
                                /\ req[g].product = q /\ req[g].old = product[q].image
      BY <3>1 DEF PictureOutlivesRaces, Rows
    <3>3. g # h
      BY <3>1, <3>2 DEF p
    <3> QED BY <1>5, <3>1, <3>2, <3>3
  <2> QED BY <2>3, <2>4, <2>5, <2>6
<1> QED BY <1>9, <1>10

(* A product that is deleted needs no picture.                              *)
LEMMA DeletePicture ==
  ASSUME CatalogueInv, PictureInv, NEW h \in Handlers, DeleteWrite(h)
  PROVE  PictureInv'
<1> USE DEF PictureInv
<1> DEFINE p == req[h].product
           row == Deleted(product[p])
<1>1. p \in Products /\ p \in Rows /\ product[p] \in Product
  BY PictureFields DEF DeleteWrite, Rows
<1>2. row \in Product /\ row.image = product[p].image /\ row.deleted /\ row # None
  <2>1. row \in Product
    BY <1>1 DEF Deleted, Product
  <2> QED BY <2>1, NoneIsNoProduct DEF Deleted
<1>3. product' = [product EXCEPT ![p] = row]
  BY DEF DeleteWrite
<1> HIDE DEF row
<1>4. product'[p] = row /\ \A q \in Products : q # p => product'[q] = product[q]
  BY <1>1, <1>3 DEF CatalogueInv, TypeOK
<1>5. /\ req'[h] = Idle /\ \A g \in Handlers : g # h => req'[g] = req[g]
  BY BecomeOthers, IdleIsRequest DEF DeleteWrite, Done, CatalogueInv, TypeOK
<1>6. UNCHANGED <<uploads, files, spoilt>>
  BY DEF DeleteWrite
<1>7. Rows' = Rows /\ \A q \in Rows : product'[q].image = product[q].image
  BY <1>1, <1>2, <1>4 DEF Rows, Exists
<1>8. RowsDiffer'
  BY <1>6, <1>7 DEF RowsDiffer
<1>9. UploadsWait'
  BY <1>5, <1>6, <1>7, IdleFields DEF UploadsWait
<1>10. OldIsOwn'
  <2>1. 0 \in 0..uploads /\ \A q \in Rows : product[q].image # 0
    BY PictureFields
  <2> QED BY <1>5, <1>6, <1>7, <2>1, IdleFields DEF OldIsOwn
<1>11. PictureOutlivesRaces'
  <2> SUFFICES ASSUME NEW q \in Rows, ~product'[q].deleted, product'[q].image \notin files,
                      product'[q].image \notin spoilt
               PROVE  \E g \in Handlers : /\ req'[g].at \in {"update", "delete"}
                                          /\ req'[g].product = q /\ req'[g].old = product'[q].image
    BY <1>6, <1>7 DEF PictureOutlivesRaces, Rows, Exists
  <2>1. q # p /\ product'[q] = product[q]
    BY <1>2, <1>4 DEF Rows
  <2>2. PICK g \in Handlers : /\ req[g].at \in {"update", "delete"}
                              /\ req[g].product = q /\ req[g].old = product[q].image
    BY <2>1 DEF PictureOutlivesRaces, Rows
  <2>3. g # h
    BY <2>1, <2>2
  <2> QED BY <1>5, <2>1, <2>2, <2>3
<1> QED BY <1>8, <1>9, <1>10, <1>11

(* Every step keeps the pictures.                                           *)
LEMMA PictureStep == CatalogueInv /\ CatalogueInv' /\ PictureInv /\ [Next]_vars => PictureInv'
<1> SUFFICES ASSUME CatalogueInv, CatalogueInv', PictureInv, [Next]_vars PROVE PictureInv'
  OBVIOUS
<1>1. CASE UNCHANGED vars
  BY <1>1 DEF vars, PictureInv, Rows, Exists, RowsDiffer, UploadsWait, OldIsOwn, PictureOutlivesRaces
<1>2. ASSUME NEW h \in Handlers, NEW t \in Titles, CreateRead(h, t)
      PROVE  PictureInv'
  <2> DEFINE r == Request("create", NoProduct, 0, t, uploads + 1)
  <2>1. /\ Upload /\ UNCHANGED <<product, spoilt>> /\ req[h] = Idle
        /\ IF TitleInUse(t) THEN req' = req ELSE Become(h, r)
    BY <1>2 DEF CreateRead
  <2>2. CASE ~TitleInUse(t)
    <3>1. r \in Requests /\ r.at = "create" /\ r.image = uploads + 1 /\ r.old = 0
      BY <2>1, UploadType, CatalogueAssumption DEF Request, Requests, Images, CatalogueInv
    <3>2. Become(h, r)
      BY <2>1, <2>2
    <3> HIDE DEF r
    <3> QED BY <2>1, <3>1, <3>2, IdleFields, UploadPicture
  <2>3. CASE TitleInUse(t)
    <3>1. Become(h, Idle)
      BY <2>1, <2>3 DEF Become, CatalogueInv, TypeOK
    <3> QED BY <2>1, <3>1, IdleFields, IdleIsRequest, UploadPicture
  <2> QED BY <2>2, <2>3
<1>3. ASSUME NEW h \in Handlers, NEW p \in Products, NEW t \in Titles \cup {NoTitle},
             NEW withImage \in BOOLEAN, UpdateRead(h, p, t, withImage)
      PROVE  PictureInv'
  <2>1. /\ req[h] = Idle /\ p \in Rows /\ product[p] \in Product /\ UNCHANGED <<product, spoilt>>
    BY <1>3, PictureFields DEF UpdateRead, Rows
  <2>2. CASE withImage
    <3> DEFINE r == Request("update_unlink", p, product[p].image, t, uploads + 1)
    <3>1. Upload /\ Become(h, r)
      BY <1>3, <2>2 DEF UpdateRead
    <3>2. /\ r \in Requests /\ r.at = "update_unlink" /\ r.image = uploads + 1
          /\ r.old = product[p].image /\ r.product = p
      BY <2>1, <3>1, UploadType, CatalogueAssumption DEF Request, Requests, Images, Product, CatalogueInv
    <3>3. uploads + 1 # 0
      BY PictureFields
    <3> HIDE DEF r
    <3> QED BY <2>1, <3>1, <3>2, <3>3, IdleFields, UploadPicture
  <2>3. CASE ~withImage
    <3> DEFINE r == Request("update", p, 0, t, 0)
    <3>1. UNCHANGED <<uploads, files>> /\ Become(h, r)
      BY <1>3, <2>3 DEF UpdateRead
    <3>2. r \in Requests /\ r.at = "update" /\ r.image = 0 /\ r.old = 0
      BY CatalogueAssumption DEF Request, Requests
    <3> HIDE DEF r
    <3> QED BY <2>1, <3>1, <3>2, IdleFields, QuietPicture
  <2> QED BY <2>2, <2>3
<1>4. ASSUME NEW h \in Handlers, NEW p \in Products, DeleteRead(h, p)
      PROVE  PictureInv'
  <2> DEFINE r == Request("delete_unlink", p, product[p].image, NoTitle, 0)
  <2>1. /\ req[h] = Idle /\ p \in Rows /\ product[p] \in Product /\ Become(h, r)
        /\ UNCHANGED <<product, uploads, files, spoilt>>
    BY <1>4, PictureFields DEF DeleteRead, Deletable, Rows
  <2>2. /\ r \in Requests /\ r.at = "delete_unlink" /\ r.image = 0
        /\ r.old = product[p].image /\ r.product = p
    BY <2>1, CatalogueAssumption DEF Request, Requests, Images, Product
  <2> HIDE DEF r
  <2> QED BY <2>1, <2>2, IdleFields, QuietPicture
<1>5. ASSUME NEW h \in Handlers, NEW p \in Products, BuyRead(h, p)
      PROVE  PictureInv'
  <2> DEFINE r == Request("buy", p, 0, NoTitle, 0)
  <2>1. req[h] = Idle /\ Become(h, r) /\ UNCHANGED <<product, uploads, files, spoilt>>
    BY <1>5 DEF BuyRead
  <2>2. r \in Requests /\ r.at = "buy" /\ r.image = 0 /\ r.old = 0
    BY CatalogueAssumption DEF Request, Requests
  <2> HIDE DEF r
  <2> QED BY <2>1, <2>2, IdleFields, QuietPicture
<1>6. ASSUME NEW h \in Handlers, BuyCommit(h)
      PROVE  PictureInv'
  BY <1>6, IdleFields, IdleIsRequest, QuietPicture DEF BuyCommit, Done
<1>7. ASSUME NEW h \in Handlers, Fails(h)
      PROVE  PictureInv'
  <2>1. Become(h, Idle) /\ UNCHANGED <<product, uploads, files>> /\ spoilt' = spoilt \cup Unlinked(req[h])
    BY <1>7 DEF Fails, Done
  <2>2. req[h].old = 0 \/ req[h].old \in files \/ req[h].old \in spoilt'
    BY <2>1 DEF Unlinked
  <2> QED BY <2>1, <2>2, IdleFields, IdleIsRequest, QuietPicture
<1>8. ASSUME NEW h \in Handlers, Step(h)
      PROVE  PictureInv'
  <2>1. CASE \E t \in Titles : CreateRead(h, t)
    BY <1>2, <2>1
  <2>2. CASE \E p \in Products : \E t \in Titles \cup {NoTitle}, withImage \in BOOLEAN :
               UpdateRead(h, p, t, withImage)
    BY <1>3, <2>2
  <2>3. CASE \E p \in Products : DeleteRead(h, p) \/ BuyRead(h, p)
    BY <1>4, <1>5, <2>3
  <2>4. CASE Fails(h) \/ BuyCommit(h)
    BY <1>6, <1>7, <2>4
  <2>5. CASE CreateCommit(h) \/ UpdateWrite(h) \/ DeleteWrite(h) \/ Unlink(h)
    BY <2>5, CreatePicture, UpdatePicture, DeletePicture, UnlinkPicture
  <2> QED BY <1>8, <2>1, <2>2, <2>3, <2>4, <2>5 DEF Step
<1> QED BY <1>1, <1>8 DEF Next

(* A product on sale keeps its picture however updates and deletions of it  *)
(* overlap, unless one of them fails between removing the old file and      *)
(* writing the row (product.service.ts, updateProduct and deleteProduct).   *)
THEOREM PicturesOutliveRaces == Spec => []PictureOutlivesRaces
<1>1. Init => PictureInv
  <2> SUFFICES ASSUME Init PROVE PictureInv
    OBVIOUS
  <2>1. Rows = {} /\ \A h \in Handlers : req[h] = Idle
    BY DEF Init, Rows, Exists
  <2>2. uploads = 0 /\ 0 \in 0..0
    BY DEF Init
  <2> QED BY <2>1, <2>2, IdleFields DEF PictureInv, RowsDiffer, UploadsWait, OldIsOwn, PictureOutlivesRaces, Rows
<1>2. PictureInv => PictureOutlivesRaces
  BY DEF PictureInv
<1> QED BY <1>1, <1>2, PictureStep, CatalogueChecks, PTL DEF Spec
==============================================================================
