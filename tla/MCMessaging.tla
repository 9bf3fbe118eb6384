----------------------------- MODULE MCMessaging -----------------------------
(***************************************************************************)
(* A few leads and telephone numbers for TLC.                              *)
(***************************************************************************)
EXTENDS Messaging, TLC

CONSTANTS l1, l2, l3, phone, scribble, r1, r2

Known(p, e) == [phone |-> p, email |-> e]

\* One lead who can be texted and written to; the other one is not there yet,
\* or can only be written to.
MCContacts ==
  {[l \in Lead |-> CASE l = l1 -> Known(phone, TRUE) [] l = l2 -> c [] OTHER -> NULL] :
      c \in {NULL, Known(NULL, TRUE)}}
MCBulk == {Lead}

\* One request sends, alone or in bulk, while the other one logs a call or
\* brings a text.
MCOpsOf == (r1 :> {"sms", "message", "bulk"}) @@ (r2 :> {"call", "inbound"})

MCTextOnly == [r \in Request |-> IF r = r1 THEN {"sms"} ELSE {}]
=============================================================================
