------------------------------ MODULE CsvImport ------------------------------
(***************************************************************************)
(* The pure part of an import (csv-import.ts, generic.adapter.ts): a line   *)
(* is split into cells, the cells of a row are normalized, and the adapter  *)
(* picks the columns of a lead.  Characters, headers and cells are values.  *)
(***************************************************************************)
EXTENDS Integers, Sequences, SequencesExt

CONSTANTS QUOTE, COMMA,   \* the characters that are not plain
          UNSET           \* undefined

ASSUME CsvAssumption == QUOTE # COMMA

-----------------------------------------------------------------------------
(* parseCsvLine *)

Scan0 == [columns |-> <<>>, current |-> <<>>, inQuotes |-> FALSE, escape |-> FALSE]

\* A slip: two quotes in a row close and open again, and leave no quote.
ScanPlain(state, char) ==
  IF char = QUOTE THEN [state EXCEPT !.inQuotes = ~@]
  ELSE IF char = COMMA /\ ~state.inQuotes
       THEN [state EXCEPT !.columns = Append(@, state.current), !.current = <<>>]
       ELSE [state EXCEPT !.current = Append(@, char)]

\* One character. A quote within quotes ends them, unless another one follows:
\* then it is the escape of that one.
Scan(state, char) ==
  LET s == [state EXCEPT !.escape = FALSE] IN
  IF char = QUOTE
  THEN IF state.escape
       THEN [s EXCEPT !.current = Append(@, QUOTE), !.inQuotes = TRUE]
       ELSE [s EXCEPT !.inQuotes = ~@, !.escape = state.inQuotes]
  ELSE IF char = COMMA /\ ~s.inQuotes
       THEN [s EXCEPT !.columns = Append(@, s.current), !.current = <<>>]
       ELSE [s EXCEPT !.current = Append(@, char)]

\* What has been read when the line is through, character by character.
Scanned(line) ==
  LET state[n \in 0 .. Len(line)] == IF n = 0 THEN Scan0 ELSE Scan(state[n - 1], line[n])
  IN state[Len(line)]

\* The cells of a line, or UNSET for a quoted field that does not end.
ParseCsvLine(line) ==
  LET end == Scanned(line) IN
  IF end.inQuotes THEN UNSET ELSE Append(end.columns, end.current)

\* The usual way to write a line: a cell with a quote or a comma in it is
\* quoted, and its quotes are doubled.
Doubled(cell) ==
  LET out[n \in 0 .. Len(cell)] ==
        IF n = 0 THEN <<>>
        ELSE IF cell[n] = QUOTE THEN out[n - 1] \o <<QUOTE, QUOTE>> ELSE Append(out[n - 1], cell[n])
  IN out[Len(cell)]

Encode(cell) ==
  IF {QUOTE, COMMA} \cap ToSet(cell) = {} THEN cell
  ELSE <<QUOTE>> \o Doubled(cell) \o <<QUOTE>>

EncodeLine(cells) ==
  LET out[n \in 1 .. Len(cells)] ==
        IF n = 1 THEN Encode(cells[1]) ELSE out[n - 1] \o <<COMMA>> \o Encode(cells[n])
  IN out[Len(cells)]

-----------------------------------------------------------------------------
(* normalizeCsvRow; a row is a sequence of cells with their headers *)

HEADER_ALIASES ==
  [firstname |-> "firstName", first_name |-> "firstName",
   lastname |-> "lastName", last_name |-> "lastName",
   email |-> "email", emailaddress |-> "email", email_address |-> "email",
   phone |-> "phone", phonenumber |-> "phone", phone_number |-> "phone", mobile |-> "phone",
   vehicleinterest |-> "vehicleInterest", vehicle_interest |-> "vehicleInterest",
   vehicle |-> "vehicleInterest",
   source |-> "source", leadsource |-> "source", lead_source |-> "source",
   provider |-> "source",
   leadtype |-> "leadType", lead_type |-> "leadType", status |-> "status"]

\* A header as it is spelt, and without blanks, hyphens and capitals.
CanonicalHeader(h) == h.canonical

Mapped(h) == IF CanonicalHeader(h) \in DOMAIN HEADER_ALIASES
             THEN HEADER_ALIASES[CanonicalHeader(h)] ELSE UNSET

\* A cell is blank, words, an address or a number of somebody in one of its
\* spellings, or the name of a status or of a type.
NormalizeCell(c) == IF c = UNSET \/ c.is = "blank" THEN UNSET ELSE c
LowerCase(c) == IF c # UNSET /\ c.is = "email" THEN [c EXCEPT !.form = "lower"] ELSE c
NormalizePhone(c) == IF c # UNSET /\ c.is = "phone" THEN [c EXCEPT !.form = "digits"] ELSE UNSET

Or(c, default) == IF c = UNSET THEN default ELSE c   \* c ?? default

\* Of the columns that are mapped to one field the last one counts, blank or not.
Canonical(row, field) ==
  LET at == {i \in DOMAIN row : Mapped(row[i].header) = field} IN
  IF at = {} THEN UNSET ELSE row[CHOOSE i \in at : \A j \in at : j <= i].cell

Normalized(row) ==
  [firstName |-> NormalizeCell(Canonical(row, "firstName")),
   lastName |-> NormalizeCell(Canonical(row, "lastName")),
   email |-> LowerCase(NormalizeCell(Canonical(row, "email"))),
   phone |-> NormalizePhone(Canonical(row, "phone")),
   vehicleInterest |-> NormalizeCell(Canonical(row, "vehicleInterest")),
   source |-> NormalizeCell(Canonical(row, "source")),
   leadType |-> Or(NormalizeCell(Canonical(row, "leadType")), [is |-> "leadType", of |-> "GENERAL"]),
   status |-> Or(NormalizeCell(Canonical(row, "status")), [is |-> "status", of |-> "NEW"])]

\* What is neither blank nor one of the known types or statuses is refused.
Errors(row) ==
  LET n == Normalized(row) IN
  {f \in {"leadType", "status"} : n[f].is # f}
    \cup (IF n.email = UNSET /\ n.phone = UNSET THEN {"email|phone"} ELSE {})

\* parseCsvRows: there are rows, every column has a name, one is for a contact,
\* and every row has as many cells as there are headers.
HasContact(headers) == \E i \in DOMAIN headers : Mapped(headers[i]) \in {"email", "phone"}

WellFormed(file) ==
  /\ file.rows # <<>>
  /\ \A i \in DOMAIN file.headers : file.headers[i].spelt # ""
  /\ HasContact(file.headers)
  /\ \A i \in DOMAIN file.rows : Len(file.rows[i]) = Len(file.headers)

RowOf(file, n) == [i \in DOMAIN file.headers |->
                     [header |-> file.headers[i], cell |-> file.rows[n][i]]]

-----------------------------------------------------------------------------
(* GenericAdapter.parseInbound; an object is a function of its keys *)

AdapterKeys ==
  [source |-> <<"source", "leadSource", "provider">>,
   firstName |-> <<"firstName", "first_name", "fname">>,
   lastName |-> <<"lastName", "last_name", "lname">>,
   email |-> <<"email", "emailAddress", "email_address">>,
   phone |-> <<"phone", "phoneNumber", "phone_number", "mobile">>,
   vehicleInterest |-> <<"vehicleInterest", "vehicle_interest", "vehicle", "stock", "vin">>]

\* The first of the keys that holds a string which is not blank.
FirstOf(obj, keys) ==
  LET usable == {i \in DOMAIN keys : keys[i] \in DOMAIN obj
                                     /\ NormalizeCell(obj[keys[i]]) # UNSET} IN
  IF usable = {} THEN UNSET ELSE obj[keys[CHOOSE i \in usable : \A j \in usable : i <= j]]

ParseInbound(obj) == [f \in DOMAIN AdapterKeys |-> FirstOf(obj, AdapterKeys[f])]

\* No contact at all is an error.
Acceptable(inbound) == inbound.email # UNSET \/ inbound.phone # UNSET

\* What importCsv hands to the adapter: the cells under the headers as they are
\* spelt, and over them the normalized fields, those that are undefined too.
RowObject(row, defaultSource) ==
  LET n == Normalized(row)
      spelt == {row[i].header.spelt : i \in DOMAIN row}
      raw(k) == row[CHOOSE i \in DOMAIN row : row[i].header.spelt = k
                     /\ \A j \in DOMAIN row : row[j].header.spelt = k => j <= i].cell
  IN [k \in spelt \cup DOMAIN n |->
        IF k = "source" THEN Or(n.source, defaultSource)
        ELSE IF k \in DOMAIN n THEN n[k] ELSE raw(k)]
=============================================================================
