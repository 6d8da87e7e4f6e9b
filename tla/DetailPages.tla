---------------------------- MODULE DetailPages ----------------------------
(***************************************************************************)
(* The parser of detail pages (nettiauto.ts), and the upgrade of stored    *)
(* pages that were parsed before some of their fields had a column         *)
(* (upgradeStoredNettiautoDetailToV4): which text of a page becomes the    *)
(* value of a field.                                                       *)
(*                                                                         *)
(* A behaviour composes a page of boxes.  The texts are a few whose        *)
(* meaning the parser tells apart; three fields stand for the others that  *)
(* are read in their ways: a bounded number, a number that JSON-LD has     *)
(* too, and the VIN.                                                       *)
(***************************************************************************)
EXTENDS Integers, Sequences, SequencesExt

CONSTANTS
  Texts,          \* what a half of a box, or JSON-LD, may say
  KnownLabels,    \* function: texts that are labels, to their canonical ones
  Numbers,        \* function: texts that have digits, to parseInteger of them
  ValidVins,      \* texts that are VINs
  LeastOwners, MostOwners,  \* bounds of the number of owners, 0 and 100
  PageBoxes       \* bounds the boxes of a page

ASSUME PageConstants == LeastOwners \in Nat /\ MostOwners \in Nat /\ PageBoxes \in Nat
                        /\ DOMAIN KnownLabels \subseteq Texts /\ ValidVins \subseteq Texts

VARIABLES
  boxes,  \* .vehicle-info-box: the info and the det half of each
  jsonLd  \* vehicleIdentificationNumber and vehicleModelDate of the JSON-LD

pageVars == <<boxes, jsonLd>>

NoText == "null"
NoNumber == -1
Halves == [info : Texts, det : Texts]
LdValues == {t \in Texts : t # "" /\ t \notin DOMAIN KnownLabels} \cup {NoText}

PageTypeOK == /\ boxes \in Seq(Halves) /\ Len(boxes) <= PageBoxes
              /\ jsonLd \in [vin : LdValues, year : LdValues]

PageInit == boxes = <<>> /\ jsonLd = [vin |-> NoText, year |-> NoText]

AddBox(box) ==
  /\ Len(boxes) < PageBoxes
  /\ boxes' = Append(boxes, box) /\ UNCHANGED jsonLd

AddJsonLd(vin, year) ==
  /\ jsonLd = [vin |-> NoText, year |-> NoText]
  /\ jsonLd' = [vin |-> vin, year |-> year] /\ UNCHANGED boxes

PageNext == (\E box \in Halves : AddBox(box)) \/ (\E vin, year \in LdValues : AddJsonLd(vin, year))
PageSpec == PageInit /\ [][PageNext]_pageVars

-----------------------------------------------------------------------------
(* isKnownDetailFieldLabel, canonicalDetailFieldLabel                      *)
IsLabel(text) == text \in DOMAIN KnownLabels
Canonical(text) == IF IsLabel(text) THEN KnownLabels[text] ELSE text

(* pushField *)
Field(label, value) == [label |-> Canonical(label), value |-> value]

(* Either half may be the label: the classes of older pages are reversed.  *)
FieldOf(box) == IF IsLabel(box.det) /\ ~IsLabel(box.info) THEN Field(box.det, box.info)
                ELSE Field(box.info, box.det)

(* extractDetailFields, uniqueDetailFields: halves that are empty or the   *)
(* same are left out, and repetitions.                                     *)
Tells(f) == f.label # f.value /\ f.label # "" /\ f.value # ""
Fields(page) ==
  LET fields[i \in 0 .. Len(page)] ==
        IF i = 0 THEN <<>>
        ELSE LET f == FieldOf(page[i])
             IN IF Tells(f) /\ ~Contains(fields[i - 1], f) THEN Append(fields[i - 1], f) ELSE fields[i - 1]
  IN fields[Len(page)]

(* detailFieldValue: the first field of the label.                         *)
FieldValue(fields, label) ==
  LET first == SelectInSeq(fields, LAMBDA f : f.label = label)
  IN IF first = 0 THEN NoText ELSE fields[first].value

(* parseInteger, boundedNumber, normalizeVin                               *)
NumberIn(text) == IF text \in DOMAIN Numbers THEN Numbers[text] ELSE NoNumber
Bounded(n, least, most) == IF n # NoNumber /\ least <= n /\ n <= most THEN n ELSE NoNumber
Vin(text) == IF text \in ValidVins THEN text ELSE NoText
Either(a, b, none) == IF a # none THEN a ELSE b

Owners(fields) == Bounded(NumberIn(FieldValue(fields, "owners")), LeastOwners, MostOwners)

(* normalizeNettiautoDetailData *)
Normalized(fields, ld) ==
  [vin |-> Vin(Either(FieldValue(fields, "vin"), ld.vin, NoText)),
   year |-> Either(NumberIn(ld.year), NumberIn(FieldValue(fields, "year")), NoNumber),
   owners |-> Owners(fields)]

(* parseNettiautoDetailPage: what is stored of a page.                     *)
Stored(page, ld) == LET fields == Fields(page) IN
  [fields |-> fields, normalized |-> Normalized(fields, ld)]

(* upgradeStoredNettiautoDetailToV4: the fields, then the additional       *)
(* source fields of a page parsed by v2; the rest is kept as it was.       *)
UpgradeOfFieldsOnly(stored, additional) ==
  [stored.normalized EXCEPT !.vin = Vin(@), !.owners = Owners(stored.fields)]
Upgrade(stored, additional) ==
  [stored.normalized EXCEPT !.vin = Vin(@), !.owners = Owners(stored.fields \o additional)]

-----------------------------------------------------------------------------
OneLabel(box) == IsLabel(box.info) # IsLabel(box.det)
Reversed(page) == [i \in DOMAIN page |-> IF OneLabel(page[i])
                                         THEN [info |-> page[i].det, det |-> page[i].info] ELSE page[i]]

(* The fields of some labels, or of the others, in their order.            *)
Half(fields, labels, in) ==
  LET half[i \in 0 .. Len(fields)] ==
        IF i = 0 THEN <<>>
        ELSE IF (fields[i].label \in labels) = in THEN Append(half[i - 1], fields[i]) ELSE half[i - 1]
  IN half[Len(fields)]

(* The same page parsed today, read with its older classes, or stored by   *)
(* v2 - which had fields without a column in a list of their own - and     *)
(* upgraded gives the same values, with the same bounds and the same       *)
(* choice among repeated labels (normalizeNettiautoDetailData and          *)
(* upgradeStoredNettiautoDetailToV4 list the fields twice).                *)
ParsersAgree ==
  LET today == Stored(boxes, jsonLd)
  IN /\ Stored(Reversed(boxes), jsonLd) = today
     /\ \A labels \in SUBSET {today.fields[i].label : i \in DOMAIN today.fields} :
          Upgrade([fields |-> Half(today.fields, labels, FALSE),
                   normalized |-> [today.normalized EXCEPT !.owners = NoNumber]],
                  Half(today.fields, labels, TRUE)) = today.normalized
=============================================================================
