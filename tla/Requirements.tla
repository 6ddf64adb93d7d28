---------------------------- MODULE Requirements ----------------------------
(***************************************************************************)
(* The two dynamic-form flows.  Before CreateTransfer a consumer asks      *)
(* which details the corridor requires (ValidateTransferRequirements),     *)
(* fills them in with MissingTransferDetails for a guide, and asks again   *)
(* after changing a field flagged RefreshRequirementsOnChange; before      *)
(* CreateRecipient it does the same with GetQuoteAccountRequirements and   *)
(* RefreshQuoteAccountRequirements.  The keys of the details are spelt in  *)
(* three places of the code, and the form is only as good as the details   *)
(* it was computed from.  Wise's rules and the consumer are external.      *)
(***************************************************************************)
EXTENDS FiniteSets

CONSTANTS
  Keys,         \* the keys a form may hold
  DetailKeys,   \* the keys of TransferRequirementsDetails
  RequestKeys,  \* those of them CreateTransferRequest has a field for
  Values,       \* what a field may be filled in with
  Rules,        \* the corridors considered: what Wise asks for, key by key
  Empty,        \* a field left blank
  NoKey         \* no key

ASSUME KeysAssumption == RequestKeys \subseteq DetailKeys /\ DetailKeys \subseteq Keys
ASSUME BlankAssumption == Empty \notin Values /\ NoKey \notin Keys

\* A key is asked for from the start, or once its parent has the trigger value;
\* an empty set of allowed values is a free text.
RulesOfWise ==
  [required : BOOLEAN, allowed : SUBSET Values, parent : Keys \cup {NoKey}, trigger : Values]

ASSUME RulesAssumption == Rules \subseteq [Keys -> RulesOfWise]

VARIABLES
  rules,     \* of the corridor
  request,   \* what the details are for: "transfer" or "recipient"
  draft,     \* the details filled in so far
  form,      \* the fields of the last answer
  stale,     \* a field that asks for a refresh changed since
  sent       \* the details block of the create call, [made |-> FALSE] before it

vars == <<rules, request, draft, form, stale, sent>>

Blank == [k \in Keys |-> Empty]
NotSent == [made |-> FALSE]

\* The keys of d that a block with the keys ks renders; the others stay out.
Render(d, ks) == [k \in Keys |-> IF k \in ks THEN d[k] ELSE Empty]

Init ==
  /\ rules \in Rules
  /\ request \in {"transfer", "recipient"}
  /\ draft = Blank
  /\ form = {}
  /\ stale = TRUE
  /\ sent = NotSent

(***************************************************************************)
(* Wise: what it asks for, given the details it sees.                      *)
(***************************************************************************)
Asked(details) ==
  {k \in Keys : \/ rules[k].parent = NoKey
                \/ details[rules[k].parent] = rules[k].trigger}

Refreshes(k) == \E c \in Keys : rules[c].parent = k

Field(k) ==
  [key |-> k, required |-> rules[k].required, allowed |-> rules[k].allowed,
   refresh |-> Refreshes(k)]

Fields == {Field(k) : k \in Keys}

FormFor(details) == {Field(k) : k \in Asked(details)}

(***************************************************************************)
(* The details blocks of the code.                                         *)
(***************************************************************************)

\* TransferRequirementsDetails.toWire, with all its fields; a recipient's
\* details are a free map.
ToWire(d) == Render(d, IF request = "transfer" THEN DetailKeys ELSE Keys)

\* Mutants: the requirements-only keys are sent too; a key is left out.
DetailsWireAll(d) == ToWire(d)
DetailsWireFewer(d) == Render(d, IF request = "transfer" THEN {} ELSE Keys)

\* CreateTransferRequest has no field for the requirements-only keys.
DetailsWire(d) == Render(d, IF request = "transfer" THEN RequestKeys ELSE Keys)

SelectValueAllowed(field, value) == field.allowed = {} \/ value \in field.allowed

\* Does the create request have a field for the key?
TransferRequestDetailValue(k) == k \in (IF request = "transfer" THEN RequestKeys ELSE Keys)

\* Mutant: optional fields are reported as well.
MissingDetailsAll ==
  {f \in form : ~TransferRequestDetailValue(f.key) \/ draft[f.key] = Empty
                \/ ~SelectValueAllowed(f, draft[f.key])}

\* MissingTransferDetails; for a recipient the consumer's own reading of the form.
MissingDetails ==
  {f \in form :
    /\ f.required
    /\ \/ ~TransferRequestDetailValue(f.key)
       \/ draft[f.key] = Empty
       \/ ~SelectValueAllowed(f, draft[f.key])}

(***************************************************************************)
(* The calls.                                                              *)
(***************************************************************************)
ValidateTransferRequirements ==
  /\ request = "transfer"
  /\ form' = FormFor(ToWire(draft))
  /\ stale' = FALSE

\* The GET has no details: its form is that of a blank recipient.
GetQuoteAccountRequirements ==
  /\ request = "recipient"
  /\ form' = FormFor(Blank)
  /\ stale' = (draft # Blank)

\* The POST is rejected before it is sent while there are no details.
RefreshQuoteAccountRequirements ==
  /\ request = "recipient"
  /\ draft # Blank
  /\ form' = FormFor(ToWire(draft))
  /\ stale' = FALSE

Ask ==
  /\ ~sent.made
  /\ \/ ValidateTransferRequirements
     \/ GetQuoteAccountRequirements
     \/ RefreshQuoteAccountRequirements
  /\ UNCHANGED <<rules, request, draft, sent>>

\* The consumer fills in, corrects or clears a field of the form; the flag says
\* whether the form must be asked for again.
Populate ==
  /\ ~sent.made
  /\ \E f \in form, v \in Values \cup {Empty} :
       /\ draft' = [draft EXCEPT ![f.key] = v]
       /\ stale' = (stale \/ f.refresh)
  /\ UNCHANGED <<rules, request, form, sent>>

\* CreateTransfer or CreateRecipient, by a consumer that follows the two docs:
\* nothing missing, nothing to refresh.  A recipient without details is rejected.
Create ==
  /\ ~sent.made
  /\ ~stale
  /\ MissingDetails = {}
  /\ request = "recipient" => draft # Blank
  /\ sent' = [made |-> TRUE, details |-> DetailsWire(draft)]
  /\ UNCHANGED <<rules, request, draft, form, stale>>

Next == Ask \/ Populate \/ Create

Spec == Init /\ [][Next]_vars

-----------------------------------------------------------------------------
Details == [Keys -> Values \cup {Empty}]

\* Every variable keeps to its type, and the create call to the keys its schema
\* accepts (transfers.go:199-204).
TypeOK ==
  /\ rules \in Rules
  /\ request \in {"transfer", "recipient"}
  /\ draft \in Details
  /\ form \subseteq Fields
  /\ stale \in BOOLEAN
  /\ \/ sent = NotSent
     \/ /\ sent \in [made : {TRUE}, details : Details]
        /\ request = "transfer" => \A k \in Keys \ RequestKeys : sent.details[k] = Empty

Satisfies(details, k) ==
  details[k] # Empty /\ (rules[k].allowed = {} \/ details[k] \in rules[k].allowed)

\* A create call of a consumer that follows the flow carries every detail Wise
\* requires of that very call: the three spellings of the keys agree, a select
\* field has an allowed value, a key the request has no field for stopped the
\* consumer before, and what was filled in since the form was computed cannot
\* have revealed anything (transfer_requirements.go:43-54).
CreatedIsComplete ==
  sent.made =>
    \A k \in Asked(sent.details) : rules[k].required => Satisfies(sent.details, k)

\* Nobody is stopped for nothing: what MissingTransferDetails reports of a fresh
\* form is required, and the request as it stands would not satisfy it.
NoFalseAlarm ==
  \A f \in MissingDetails :
    rules[f.key].required /\ ~Satisfies(DetailsWire(draft), f.key)

\* A required key the request has no field for keeps the consumer from creating
\* the transfer for good (transfer_requirements.go:50-53).
UnmodelledStops ==
  request = "transfer" /\ (\E k \in Keys \ RequestKeys :
                             rules[k].required /\ rules[k].parent = NoKey)
    => ~sent.made

=============================================================================
