--------------------------- MODULE CanonicalImport ---------------------------
(***************************************************************************)
(* What the three import services make of one file: the error that stops   *)
(* it (in the order the services look), or the rows its canonical write    *)
(* inserts and updates.  Bookings are kept per source and record, a labor  *)
(* snapshot per source and local date, an invoice per hotel, supplier and  *)
(* number.                                                                 *)
(***************************************************************************)
EXTENDS Naturals, FiniteSets, SequencesExt

CONSTANTS
  None,        \* no value
  Similar,     \* the pairs of names at or above the fuzzy threshold
  MaxReviews   \* reviews opened for one new supplier (3 in the code)

ASSUME MaxReviewsAssumption == MaxReviews \in Nat

\* Why an import fails (error_code).
ErrorCode ==
  {"MAPPING_REQUIRED", "SOURCE_SCHEMA_CHANGED", "UNSUPPORTED_TYPE", "AMBIGUOUS_FORMAT",
   "VALIDATION_FAILED", "EMPTY_FILE", "SUPPLIER_NAME_AMBIGUOUS", "SUPPLIER_IDENTITY_CONFLICT",
   "SNAPSHOT_CONFLICT", "DOCUMENT_CONFLICT", "CANONICALIZATION_FAILED", "INTERNAL_ERROR"}

ASSUME NoneAssumption == None \notin ErrorCode

-----------------------------------------------------------------------------
(***************************************************************************)
(* SupplierResolver.plan: from what the invoices of one file say about     *)
(* their suppliers to one supplier each, decided in memory on the registry *)
(* as it was read.  Stable identifiers outrank the name; two of them that  *)
(* disagree stop the import; a similar name only opens a review.           *)
(***************************************************************************)
\* VAT number and tax code are single-valued; an entity may have several IBANs.
SingleValued == {"VAT_NUMBER", "TAX_CODE"}

ValueOf(e, kind) == IF kind = "VAT_NUMBER" THEN e.vat ELSE e.tax

\* SupplierEvidence.identifiers: what the document says, as kind and value.
Identifiers(e) ==
  {<<k, ValueOf(e, k)>> : k \in {k \in SingleValued : ValueOf(e, k) # None}}
    \cup {<<"IBAN_SHA256", digest>> : digest \in e.ibans}

EmptyRegistry == [suppliers |-> {}, identifiers |-> {}, aliases |-> {}, reviews |-> {}]

OwnerOf(registry, identifier) ==
  {o.supplier : o \in {o \in registry.identifiers : o.identifier = identifier}}

Has(registry, s, kind) ==
  \E o \in registry.identifiers : o.supplier = s /\ o.identifier[1] = kind

PrimaryOf(registry, name) == {s.id : s \in {s \in registry.suppliers : s.name = name}}

\* by_name: the suppliers whose legal name or one of whose aliases it is.
Named(registry, name) ==
  PrimaryOf(registry, name)
    \cup {a.supplier : a \in {a \in registry.aliases : a.name = name}}

\* The evidence carries a VAT number or tax code where the supplier has one.
Contradicts(registry, s, e) ==
  \E kind \in SingleValued : ValueOf(e, kind) # None /\ Has(registry, s, kind)

\* A single-valued identifier that is not the one the matched supplier has.
ContradictsMatched(registry, s, e) ==
  \E kind \in SingleValued :
     /\ ValueOf(e, kind) # None
     /\ s \notin OwnerOf(registry, <<kind, ValueOf(e, kind)>>)
     /\ Has(registry, s, kind)

\* _enrich: the identifiers nobody owns yet become the supplier's.
Enrich(registry, s, e) ==
  [registry EXCEPT !.identifiers = @ \cup
     {[supplier |-> s, identifier |-> i] :
        i \in {i \in Identifiers(e) : OwnerOf(registry, i) = {}}}]

AddAlias(registry, s, e) ==
  IF s \in Named(registry, e.name) THEN registry
  ELSE [registry EXCEPT !.aliases = @ \cup {[supplier |-> s, name |-> e.name]}]

\* Plausible duplicates: a similar name and no identifier that tells them apart.
FuzzyCandidates(registry, e, skip) ==
  {s \in {s.id : s \in registry.suppliers} \ skip :
     /\ ~Contradicts(registry, s, e)
     /\ \E n \in {a.name : a \in {a \in registry.aliases : a.supplier = s}} :
          <<e.name, n>> \in Similar}

FirstOf(candidates, n) ==
  IF Cardinality(candidates) <= n THEN candidates
  ELSE CHOOSE c \in SUBSET candidates : Cardinality(c) = n

\* _create: a new supplier with its alias and identifiers, and what a person
\* should look at: the same name with another identity first, then look-alikes.
Create(registry, new, e, conflicting) ==
  LET same  == FirstOf(conflicting, MaxReviews)
      alike == FirstOf(FuzzyCandidates(registry, e, same),
                       MaxReviews - Cardinality(same))
  IN [suppliers   |-> registry.suppliers \cup {[id |-> new, name |-> e.name]},
      identifiers |-> registry.identifiers
                        \cup {[supplier |-> new, identifier |-> i] : i \in Identifiers(e)},
      aliases     |-> registry.aliases \cup {[supplier |-> new, name |-> e.name]},
      reviews     |-> registry.reviews \cup {<<new, c>> : c \in same \cup alike}]

Resolved(registry, s) == [registry |-> registry, supplier |-> s, error |-> None]
Refused(registry, error) == [registry |-> registry, supplier |-> None, error |-> error]

\* _by_name: nobody, one compatible supplier, several, or only other entities.
ByName(registry, new, e) ==
  LET candidates == Named(registry, e.name)
      compatible == {s \in candidates : ~Contradicts(registry, s, e)}
      only       == CHOOSE s \in compatible : TRUE
  IN IF compatible = {} THEN Resolved(Create(registry, new, e, candidates), new)
     ELSE IF Cardinality(compatible) = 1 THEN Resolved(Enrich(registry, only, e), only)
     ELSE Refused(registry, "SUPPLIER_NAME_AMBIGUOUS")

\* _plan_one; `new` is the id a new supplier would get.
PlanOne(registry, new, e) ==
  LET owners == UNION {OwnerOf(registry, i) : i \in Identifiers(e)}
      s      == CHOOSE s \in owners : TRUE
  IN IF owners = {} THEN ByName(registry, new, e)
     ELSE IF Cardinality(owners) > 1 \/ ContradictsMatched(registry, s, e)
     THEN Refused(registry, "SUPPLIER_IDENTITY_CONFLICT")
     ELSE Resolved(AddAlias(Enrich(registry, s, e), s, e), s)

\* One more evidence of the file, unless it is known or the plan has failed.
AndThen(done, job, e) ==
  LET one == PlanOne(done.registry, <<job, Cardinality(DOMAIN done.supplierOf)>>, e)
  IN IF done.error # None \/ e \in DOMAIN done.supplierOf THEN done
     ELSE [registry   |-> one.registry,
           error      |-> one.error,
           supplierOf |-> [x \in DOMAIN done.supplierOf \cup {e} |->
                             IF x = e THEN one.supplier ELSE done.supplierOf[x]]]

\* plan: every distinct evidence once, in order, on the registry as it grows.
Plan(registry, job, evidences) ==
  LET after[n \in 0 .. Len(evidences)] ==
        IF n = 0 THEN [registry |-> registry, error |-> None, supplierOf |-> <<>>]
        ELSE AndThen(after[n - 1], job, evidences[n])
  IN after[Len(evidences)]

\* apply: the inserts of the plan, on the tables as they are when it is written.
Applied(registry, before, planned) ==
  [table \in DOMAIN registry |-> registry[table] \cup (planned[table] \ before[table])]

\* uq_supplier_identifiers: one owner for a kind and value in the workspace.
OneOwnerEach(registry) ==
  \A o, p \in registry.identifiers : o.identifier = p.identifier => o.supplier = p.supplier

-----------------------------------------------------------------------------
\* A stored row: its unique key, its business content (that of every entry, for
\* a labor snapshot), the job that inserted it and the job that wrote it last.
BookingRow(s, row, job) ==
  [key |-> <<"booking", s, row.id>>, content |-> {row.content}, first |-> job, last |-> job]

LaborRow(s, day, rows, job) ==
  [key |-> <<"labor", s, day>>, content |-> {r.content : r \in ToSet(rows)},
   first |-> job, last |-> job]

InvoiceRow(property, supplier, row, job) ==
  [key |-> <<"invoice", property, supplier, row.id>>, content |-> {row.content},
   first |-> job, last |-> job]

\* A label is a word one of the matching's documents gives a meaning to: a word
\* is the document and the text.  What a person teaches now wins over what was
\* taught before.
Words(labels) == {l.word : l \in labels}

Taught(preserved, new) == new \cup {l \in preserved : l.word \notin Words(new)}

\* An unknown status or category makes its row unusable; a role without meaning
\* is unclassified, a channel stays as it is written.
Required == {"status_mapping", "category_mapping"}

Needed(row) == {word \in row.words : word[1] \in Required}

\* A row as it is read: an invoice's content does not say its categories.
ReadRow(domain, row, labels) ==
  [row EXCEPT
     !.valid = row.valid /\ Needed(row) \subseteq Words(labels),
     !.content = <<row.content, {l \in labels : domain # "COSTS" /\ l.word \in row.words}>>]

Reading(domain, file, labels) ==
  [format |-> file.format, layout |-> file.layout, ambiguous |-> file.ambiguous,
   rows |-> [k \in DOMAIN file.rows |-> ReadRow(domain, file.rows[k], labels)]]

\* The layout a file is read with: the caller's own, or the saved one.  From
\* here on a file is one that has been read: its rows know their words or not.
SchemaError(file, layout) ==
  IF layout = None THEN "MAPPING_REQUIRED"
  ELSE IF layout # file.layout THEN "SOURCE_SCHEMA_CHANGED"
  ELSE None

\* Rows that cannot be used: malformed, or one source record given twice.
InvalidRows(rows) ==
  {k \in DOMAIN rows :
     ~rows[k].valid \/ \E j \in DOMAIN rows \ {k} : rows[j].id = rows[k].id}

Malformed(rows) == {k \in DOMAIN rows : ~rows[k].valid}

\* BookingImportService._run: type, mapping, columns, formats, rows.
BookingsError(file, layout) ==
  IF file.format = "xml" THEN "UNSUPPORTED_TYPE"
  ELSE IF SchemaError(file, layout) # None THEN SchemaError(file, layout)
  ELSE IF file.ambiguous THEN "AMBIGUOUS_FORMAT"
  ELSE IF InvalidRows(file.rows) # {} THEN "VALIDATION_FAILED"
  ELSE None

\* LaborImportService._run: the mapping before the file is opened, and the
\* emptiness of the file before its formats.
LaborError(file, layout) ==
  IF layout = None THEN "MAPPING_REQUIRED"
  ELSE IF file.format = "xml" THEN "UNSUPPORTED_TYPE"
  ELSE IF SchemaError(file, layout) # None THEN SchemaError(file, layout)
  ELSE IF file.rows = <<>> THEN "EMPTY_FILE"
  ELSE IF file.ambiguous THEN "AMBIGUOUS_FORMAT"
  ELSE IF Malformed(file.rows) # {} THEN "VALIDATION_FAILED"
  ELSE None

\* InvoiceImportService._run: FatturaPA needs no mapping and has no columns.
InvoicesError(file, layout) ==
  IF file.format # "xml" /\ SchemaError(file, layout) # None THEN SchemaError(file, layout)
  ELSE IF file.format # "xml" /\ file.ambiguous THEN "AMBIGUOUS_FORMAT"
  ELSE IF file.rows = <<>> THEN "EMPTY_FILE"
  ELSE IF Malformed(file.rows) # {} THEN "VALIDATION_FAILED"
  ELSE None

FileError(domain, file, layout) ==
  CASE domain = "BOOKINGS" -> BookingsError(file, layout)
    [] domain = "LABOR"    -> LaborError(file, layout)
    [] domain = "COSTS"    -> InvoicesError(file, layout)

\* The dry runs: the file judged as an import would judge it, and nothing written.
\* The columns are those of the person's own matching, so no saved layout plays a
\* part; the words are, like an import's, those taught now and those its source was
\* taught before, and `file` is what they make of it (Reading).
BookingsDryRun(file) ==
  IF file.format = "xml" THEN "UNSUPPORTED_TYPE"
  ELSE IF file.ambiguous THEN "AMBIGUOUS_FORMAT"
  ELSE IF InvalidRows(file.rows) # {} THEN "VALIDATION_FAILED"
  ELSE None

LaborDryRun(file) ==
  IF file.format = "xml" THEN "UNSUPPORTED_TYPE"
  ELSE IF file.rows = <<>> THEN "EMPTY_FILE"
  ELSE IF file.ambiguous THEN "AMBIGUOUS_FORMAT"
  ELSE IF Malformed(file.rows) # {} THEN "VALIDATION_FAILED"
  ELSE None

InvoicesDryRun(file) ==
  IF file.rows = <<>> THEN "EMPTY_FILE"
  ELSE IF file.ambiguous THEN "AMBIGUOUS_FORMAT"
  ELSE IF Malformed(file.rows) # {} THEN "VALIDATION_FAILED"
  ELSE None

DryRun(domain, file) ==
  CASE domain = "BOOKINGS" -> BookingsDryRun(file)
    [] domain = "LABOR"    -> LaborDryRun(file)
    [] domain = "COSTS"    -> InvoicesDryRun(file)

-----------------------------------------------------------------------------
(* The canonical write, decided on the tables as they were read.            *)

Stored(canonical, key) == {r \in canonical : r.key = key}

Change(insert, update, registry, error) ==
  [insert |-> insert, update |-> update, registry |-> registry, error |-> error]

\* upsert_from_import: unknown records inserted, changed ones updated in place,
\* identical ones left completely alone.
BookingsChange(canonical, registry, s, job, file) ==
  LET rows == {BookingRow(s, r, job) : r \in ToSet(file.rows)}
      known(row) == Stored(canonical, row.key)
  IN Change({row \in rows : known(row) = {}},
            {[row EXCEPT !.first = (CHOOSE k \in known(row) : TRUE).first] :
               row \in {row \in rows : \E k \in known(row) : k.content # row.content}},
            registry, None)

\* LaborImportService._canonicalize: one snapshot a date, reused or refused.
LaborChange(canonical, registry, s, job, file, day) ==
  LET row   == LaborRow(s, day, file.rows, job)
      known == Stored(canonical, row.key)
  IN IF known = {} THEN Change({row}, {}, registry, None)
     ELSE IF \E k \in known : k.content # row.content
     THEN Change({}, {}, registry, "SNAPSHOT_CONFLICT")
     ELSE Change({}, {}, registry, None)

\* InvoiceImportService._canonicalize: suppliers first, then identities; an
\* invoice that exists is unchanged or a conflict, never updated.
InvoicesChange(canonical, registry, property, job, file) ==
  LET plan  == Plan(registry, job, [k \in DOMAIN file.rows |-> file.rows[k].supplier])
      rowOf == [k \in DOMAIN file.rows |->
                  InvoiceRow(property, plan.supplierOf[file.rows[k].supplier],
                             file.rows[k], job)]
      rows  == ToSet(rowOf)
      twice == \E j, k \in DOMAIN rowOf : j # k /\ rowOf[j].key = rowOf[k].key
      conflict == \E row \in rows : \E k \in Stored(canonical, row.key) :
                     k.content # row.content
  IN IF plan.error # None THEN Change({}, {}, registry, plan.error)
     ELSE IF twice \/ conflict THEN Change({}, {}, registry, "DOCUMENT_CONFLICT")
     ELSE Change({row \in rows : Stored(canonical, row.key) = {}}, {}, plan.registry, None)

ChangeOf(canonical, registry, s, source, job, file, day) ==
  CASE source.domain = "BOOKINGS" -> BookingsChange(canonical, registry, s, job, file)
    [] source.domain = "LABOR" -> LaborChange(canonical, registry, s, job, file, day)
    [] source.domain = "COSTS" ->
         InvoicesChange(canonical, registry, source.property, job, file)

\* The rows as they are after the change is written.
Written(canonical, change) ==
  {r \in canonical : \A u \in change.update : u.key # r.key}
    \cup change.insert \cup change.update

\* The unique keys of the tables: an insert of a key that is there is rejected.
Rejected(canonical, registry, before, change) ==
  \/ \E r \in canonical, n \in change.insert : r.key = n.key
  \/ ~OneOwnerEach(Applied(registry, before, change.registry))
=============================================================================
