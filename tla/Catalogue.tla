----------------------------- MODULE Catalogue -----------------------------
(***************************************************************************)
(* How the agent grounds a Product (domain/inventory.py, barcode.py): it   *)
(* may only use a product_id that a search, a barcode or a photo the Owner *)
(* confirmed has given it.  A table of Products is a sequence by           *)
(* product_id; a similarity is in thousandths.                             *)
(***************************************************************************)
EXTENDS Integers, FiniteSetsExt, SequencesExt

CONSTANTS
  Similarity,   \* pg_trgm's similarity(lower(label), lower(query)), by label and query
  Collation,    \* the place of a name in ORDER BY name
  NoLabel       \* a NULL brand or barcode

MaxSimilarity       == 1000
MinMatchScore       == 250
AmbiguityScoreDelta == 80

\* Aliases and barcodes come with the seeded Products only.
NewProduct(name, brand) == [name |-> name, brand |-> brand, barcode |-> NoLabel, aliases |-> {}]

Labels(product) == {product.name, product.brand} \cup product.aliases

\* A brand that is NULL is compared as the empty string and scores nothing.
MatchScore(product, query) ==
  Max({0} \cup {Similarity[label][query] : label \in Labels(product) \ {NoLabel}})

Matching(products, query) ==
  {id \in DOMAIN products : MatchScore(products[id], query) >= MinMatchScore}

\* ORDER BY match_score DESC, name: Products of one name come in any order.
Ranked(products, query) ==
  LET score(id) == MatchScore(products[id], query)
      name(id)  == Collation[products[id].name]
  IN  {ids \in SetToSeqs(Matching(products, query)) :
         \A i, j \in DOMAIN ids : i < j =>
           \/ score(ids[i]) > score(ids[j])
           \/ score(ids[i]) = score(ids[j]) /\ name(ids[i]) <= name(ids[j])}

\* (mutant) Only equal scores are ambiguous.
AmbiguousIfEqual(scores) == Len(scores) > 1 /\ scores[1] = scores[2]

IsAmbiguous(scores) == Len(scores) > 1 /\ scores[1] - scores[2] <= AmbiguityScoreDelta

Refused == [status |-> "refused", candidates |-> <<>>]

\* The answers find_product may give.
FindProduct(products, query) ==
  LET answer(ids) == [status |-> IF IsAmbiguous([i \in DOMAIN ids |-> MatchScore(products[ids[i]], query)])
                                 THEN "ambiguous" ELSE "ok",
                      candidates |-> ids]
  IN  {IF ids = <<>> THEN Refused ELSE answer(ids) : ids \in Ranked(products, query)}

FindByBarcode(products, barcode) ==
  LET found == {id \in DOMAIN products : products[id].barcode = barcode}
  IN  IF found = {} THEN Refused ELSE [status |-> "ok", candidates |-> SetToSeq(found)]

\* NoLabel is a photo that is missing or has no barcode pyzbar can read.
ScanBarcode(products, barcode) ==
  IF barcode = NoLabel THEN Refused ELSE FindByBarcode(products, barcode)

PreparePhoto(products, id, confirm) ==
  IF id \notin DOMAIN products THEN Refused
  ELSE [status |-> IF confirm THEN "ok" ELSE "requires_confirmation", candidates |-> <<id>>]
=============================================================================
