------------------------------- MODULE Catalogue -------------------------------
(***************************************************************************)
(* The administrator's side of product.service.ts against purchases.       *)
(*                                                                         *)
(* createProduct, updateProduct and deleteProduct read the product, may    *)
(* remove the file of its old image, and write the row later, with no      *)
(* transaction; a purchase checks that the product is not deleted before   *)
(* its transaction.  The money and the levels of a purchase are in         *)
(* Machines; here it only matters which product is bought.  An uploaded    *)
(* image gets a file name of its own.                                      *)
(***************************************************************************)
EXTENDS Integers, FiniteSets

CONSTANTS Products,   \* rows that may come to exist
          NoProduct,
          NoTitle,
          Titles,
          MaxImages,  \* bounds the files uploaded
          Handlers    \* requests that may be in flight at once

ASSUME CatalogueAssumption == MaxImages \in Nat /\ NoProduct \notin Products /\ NoTitle \notin Titles

VARIABLES product,  \* Product table
          sold,     \* the products that some UserProduct row refers to
          uploads,  \* the files uploaded so far are 1..uploads
          files,    \* those that are there
          req,      \* the requests in flight
          spoilt,   \* files removed by a request that then failed
          raced,    \* products bought while being deleted, or deleted while being bought
          clashed   \* titles set unchecked, or by two requests at once

vars == <<product, sold, uploads, files, req, spoilt, raced, clashed>>

Images == 1..MaxImages
None == [title |-> NoTitle, image |-> 0, deleted |-> FALSE]
Product == [title : Titles, image : Images, deleted : BOOLEAN]

Exists(p) == product[p] # None
Busy(p, steps) == \E h \in Handlers : req[h].at \in steps /\ req[h].product = p
Deleting == {"delete_unlink", "delete"}

(* A request under way, the product it is about, the image that the product *)
(* had when it was read, and the title and image to write (0: none).        *)
Request(at, p, old, title, image) ==
  [at |-> at, product |-> p, old |-> old, title |-> title, image |-> image]
Idle == Request("idle", NoProduct, 0, NoTitle, 0)
Requests == [at : {"idle", "create", "update_unlink", "update", "delete_unlink", "delete", "buy"},
             product : Products \cup {NoProduct}, old : 0..MaxImages,
             title : Titles \cup {NoTitle}, image : 0..MaxImages]
Become(h, r) == req' = [req EXCEPT ![h] = r]
Done(h) == Become(h, Idle)

(* The upload is stored before the handler runs.                            *)
Upload == /\ uploads < MaxImages
          /\ uploads' = uploads + 1
          /\ files' = files \cup {uploads + 1}

Init == /\ product = [p \in Products |-> None]
        /\ sold = {} /\ uploads = 0 /\ files = {} /\ spoilt = {} /\ raced = {} /\ clashed = {}
        /\ req = [h \in Handlers |-> Idle]

-----------------------------------------------------------------------------
(* createProduct refuses a title that any product has, deleted or not ...   *)
TitleInUse(t) == \E p \in Products : product[p].title = t

Creating == {h \in Handlers : req[h].at = "create"}

CreateRead(h, t) ==
  /\ req[h] = Idle
  /\ Cardinality(Creating) < Cardinality({p \in Products : ~Exists(p)})
  /\ Upload
  /\ IF TitleInUse(t) THEN UNCHANGED <<req, clashed>>
     ELSE /\ Become(h, Request("create", NoProduct, 0, t, uploads + 1))
          /\ clashed' = IF \E g \in Creating : req[g].title = t THEN clashed \cup {t} ELSE clashed
  /\ UNCHANGED <<product, sold, spoilt, raced>>

(* ... and creates a row.                                                   *)
CreateCommit(h) ==
  /\ req[h].at = "create"
  /\ \E p \in Products :
       /\ ~Exists(p)
       /\ product' = [product EXCEPT ![p] = [title |-> req[h].title, image |-> req[h].image,
                                             deleted |-> FALSE]]
  /\ Done(h)
  /\ UNCHANGED <<sold, uploads, files, spoilt, raced, clashed>>

(* updateProduct: a product, deleted or not, gets a title, which nobody     *)
(* checks, or an image in place of the one read here, or both.              *)
UpdateRead(h, p, t, withImage) ==
  /\ req[h] = Idle /\ Exists(p)
  /\ IF withImage
     THEN /\ Upload
          /\ Become(h, Request("update_unlink", p, product[p].image, t, uploads + 1))
     ELSE /\ UNCHANGED <<uploads, files>>
          /\ Become(h, Request("update", p, 0, t, 0))
  /\ clashed' = clashed \cup ({t} \cap Titles)
  /\ UNCHANGED <<product, sold, spoilt, raced>>

(* The old file is removed before the row is written; a file that is not    *)
(* there is ignored.                                                        *)
Unlink(h) ==
  /\ req[h].at \in {"update_unlink", "delete_unlink"}
  /\ files' = files \ {req[h].old}
  /\ LET r == req[h]
     IN Become(h, Request(IF r.at = "update_unlink" THEN "update" ELSE "delete",
                          r.product, r.old, r.title, r.image))
  /\ UNCHANGED <<product, sold, uploads, spoilt, raced, clashed>>

(* The row is written without looking at what it has become meanwhile.      *)
WrittenButImage(row, r) ==
  [title |-> IF r.title = NoTitle THEN row.title ELSE r.title,
   image |-> row.image, deleted |-> row.deleted]
Written(row, r) ==
  [title |-> IF r.title = NoTitle THEN row.title ELSE r.title,
   image |-> IF r.image = 0 THEN row.image ELSE r.image,
   deleted |-> row.deleted]
UpdateWrite(h) ==
  /\ req[h].at = "update"
  /\ product' = [product EXCEPT ![req[h].product] = Written(product[req[h].product], req[h])]
  /\ Done(h)
  /\ UNCHANGED <<sold, uploads, files, spoilt, raced, clashed>>

(* deleteProduct refuses a product that somebody has bought.                *)
DeleteAnyway(p) == Exists(p)
Deletable(p) == Exists(p) /\ p \notin sold
DeleteRead(h, p) ==
  /\ req[h] = Idle
  /\ Deletable(p)
  /\ Become(h, Request("delete_unlink", p, product[p].image, NoTitle, 0))
  /\ raced' = IF Busy(p, {"buy"}) THEN raced \cup {p} ELSE raced
  /\ UNCHANGED <<product, sold, uploads, files, spoilt, clashed>>

Deleted(row) == [title |-> row.title, image |-> row.image, deleted |-> TRUE]
DeleteWrite(h) ==
  /\ req[h].at = "delete"
  /\ product' = [product EXCEPT ![req[h].product] = Deleted(product[req[h].product])]
  /\ Done(h)
  /\ UNCHANGED <<sold, uploads, files, spoilt, raced, clashed>>

(* buyProduct: the product is not deleted when it is read ...               *)
BuyRead(h, p) ==
  /\ req[h] = Idle
  /\ Exists(p) /\ ~product[p].deleted
  /\ Become(h, Request("buy", p, 0, NoTitle, 0))
  /\ raced' = IF Busy(p, Deleting) THEN raced \cup {p} ELSE raced
  /\ UNCHANGED <<product, sold, uploads, files, spoilt, clashed>>

(* ... and nobody looks again when the machine is created.                  *)
BuyCommit(h) ==
  /\ req[h].at = "buy"
  /\ sold' = sold \cup {req[h].product}
  /\ Done(h)
  /\ UNCHANGED <<product, uploads, files, spoilt, raced, clashed>>

(* A request fails or the server stops.                                     *)
Unlinked(r) == {r.old} \ (files \cup {0})
Fails(h) ==
  /\ req[h] # Idle
  /\ spoilt' = spoilt \cup Unlinked(req[h])
  /\ Done(h)
  /\ UNCHANGED <<product, sold, uploads, files, raced, clashed>>

Step(h) == \/ \E t \in Titles : CreateRead(h, t)
           \/ \E p \in Products :
                \/ \E t \in Titles \cup {NoTitle}, withImage \in BOOLEAN : UpdateRead(h, p, t, withImage)
                \/ DeleteRead(h, p) \/ BuyRead(h, p)
           \/ CreateCommit(h) \/ UpdateWrite(h) \/ DeleteWrite(h) \/ BuyCommit(h)
           \/ Unlink(h) \/ Fails(h)

Next == \E h \in Handlers : Step(h)

Spec == Init /\ [][Next]_vars

-----------------------------------------------------------------------------
TypeOK == /\ product \in [Products -> Product \cup {None}]
          /\ sold \subseteq Products /\ uploads \in 0..MaxImages
          /\ files \subseteq Images /\ spoilt \subseteq Images
          /\ raced \subseteq Products /\ clashed \subseteq Titles
          /\ req \in [Handlers -> Requests]
          /\ \A h \in Handlers : req[h].at \notin {"idle", "create"} =>
               req[h].product \in Products /\ Exists(req[h].product)
          /\ \A h \in Handlers : req[h].at = "create" => req[h].title \in Titles /\ req[h].image \in Images

(* A product on sale keeps its picture through every overlap of updates and *)
(* deletions: its file is gone only while the request that removed it has   *)
(* not written the row, or if a request failed in between.                  *)
PictureOutlivesRaces == \A p \in Products :
  Exists(p) /\ ~product[p].deleted /\ product[p].image \notin files =>
    \/ product[p].image \in spoilt
    \/ \E h \in Handlers : /\ req[h].at \in {"update", "delete"}
                           /\ req[h].product = p /\ req[h].old = product[p].image

(* A product that somebody owns is deleted only if the purchase and the     *)
(* deletion overlapped, and two products have one title only if it was set  *)
(* by updateProduct, which checks nothing, or by two requests at once.      *)
ChecksFailOnlyInRaces ==
  /\ \A p \in sold : product[p].deleted => p \in raced
  /\ \A p, q \in Products : p # q /\ Exists(p) /\ product[p].title = product[q].title
                              => product[p].title \in clashed

(* ... because requests that have passed their check are either right still *)
(* or have been overtaken by another that was under way with them.          *)
ChecksHoldOrRaced ==
  /\ \A h \in Handlers : req[h].at \in Deleting /\ req[h].product \in sold => req[h].product \in raced
  /\ \A h \in Handlers : req[h].at = "buy" /\ product[req[h].product].deleted => req[h].product \in raced
  /\ \A g, h \in Handlers : /\ req[g].at \in Deleting /\ req[h].at = "buy"
                             /\ req[g].product = req[h].product => req[h].product \in raced
  /\ \A h \in Creating : TitleInUse(req[h].title) => req[h].title \in clashed
  /\ \A g, h \in Creating : g # h /\ req[g].title = req[h].title => req[h].title \in clashed
  /\ \A h \in Handlers : req[h].at \in {"update_unlink", "update"} =>
                             req[h].title \in clashed \cup {NoTitle}

CatalogueInv == TypeOK /\ ChecksFailOnlyInRaces /\ ChecksHoldOrRaced
==============================================================================
