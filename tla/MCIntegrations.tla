--------------------------- MODULE MCIntegrations ---------------------------
(***************************************************************************)
(* Small files and payloads for TLC: rows that repeat a contact, rows with  *)
(* errors, headers that are aliases of one another, malformed files.        *)
(***************************************************************************)
EXTENDS Integrations, TLC

CONSTANTS LETTER

MCKeys == Provider \X Sender

H(spelt, canonical) == [spelt |-> spelt, canonical |-> canonical]

Blank == [is |-> "blank"]
Words == [is |-> "words", of |-> "none"]
Mail(who, form) == [is |-> "email", of |-> who, form |-> form]
Number(who, form) == [is |-> "phone", of |-> who, form |-> form]
Sold == [is |-> "status", of |-> "SOLD"]

\* The second row has the address of the first in another spelling, and in the
\* third file its number.
MCFiles ==
  {[headers |-> <<H("Email", "email"), H("phone", "phone")>>,
    rows |-> <<<<Mail("ann", "mixed"), Number("ann", "spaced")>>,
               <<Mail("ann", "lower"), Blank>>>>],
   [headers |-> <<H("mobile", "mobile"), H("email", "email"), H("status", "status")>>,
    rows |-> <<<<Words, Mail("bob", "lower"), Sold>>, <<Words, Mail("cat", "lower"), Words>>>>],
   [headers |-> <<H("phone", "phone"), H("email", "email"), H("email_address", "email_address")>>,
    rows |-> <<<<Number("ann", "digits"), Mail("dan", "lower"), Blank>>,
               <<Blank, Mail("eve", "lower"), Blank>>>>],
   [headers |-> <<H("phone", "phone")>>, rows |-> <<<<Blank>>, <<Blank>>, <<Blank>>>>]}

MCPayloads ==
  {[phone |-> Number("ann", "digits"), provider |-> Words],
   [email |-> Blank, vin |-> Words]}

\* Nothing is connected yet, or a provider that several dealerships use.
MCConnected ==
  {{}, [dealership : Dealership, name : Name, provider : Provider, secret : Secret,
        isActive : {TRUE}]}

MCLeads ==
  {{}, {[id |-> <<"earlier", 1>>, dealership |-> d, email |-> Mail("bob", "mixed"),
         phone |-> UNSET, source |-> UNSET, status |-> UNSET] : d \in Dealership}}

RequestSymmetry == Permutations(Request)

-----------------------------------------------------------------------------
\* Beside the requests, every line of two short cells is written and read once.
VARIABLE cells

Char == {QUOTE, COMMA, LETTER}
ShortCell == UNION {[1 .. n -> Char] : n \in 0 .. 3}

MCInit ==
  /\ Init
  /\ \/ cells = <<>>
     \/ integrations = {} /\ leads = {} /\ cells \in ShortCell \X ShortCell

MCNext == cells = <<>> /\ Next /\ UNCHANGED cells

MCSpec == MCInit /\ [][MCNext]_<<vars, cells>>

\* parseCsvLine: what the usual way of quoting writes is read back, cell by cell.
RoundTrip == cells # <<>> => ParseCsvLine(EncodeLine(cells)) = cells
=============================================================================
