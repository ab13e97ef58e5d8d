----------------------------- MODULE Converter -----------------------------
(***************************************************************************)
(* The messages of the two protocols and the pure functions of             *)
(* proxy/Converter.cpp between them.                                        *)
(*                                                                          *)
(* A GSUP message type is a procedure and a direction, as the encoding in   *)
(* gsup/GsupTypes.hpp has it (bits 7:2 and bits 1:0).  A function that      *)
(* throws ConversionError is modelled by the set of arguments it accepts    *)
(* and by its value on that set.  Payload fields the routing never looks at *)
(* (vectors, numbers, causes) are abstracted to one bit, "fits": whether    *)
(* every one of them fits in a GSUP information element of 255 bytes.       *)
(***************************************************************************)

EXTENDS Integers

CONSTANTS Imsi,      \* subscriber identities a message can carry
          LongImsi,  \* those of more than 15 digits: decoded, never encoded
          NoImsi     \* the empty string of a message without one; in Imsi, if
                     \* messages without an IMSI are among those considered

ASSUME ImsiAssumption == LongImsi \subseteq Imsi /\ NoImsi \notin LongImsi

-----------------------------------------------------------------------------
(* Vocabulary.                                                              *)

Procedure == {"SendAuthInfo", "UpdateLocation", "LocationCancel",
              "InsertData", "DeleteData", "PurgeMs", "Unknown"}

Direction == {"Request", "Result", "Error"}

MessageType == [proc : Procedure, dir : Direction]

(* "Other" stands for the operation codes the proxy has no case for.        *)
MapOperation == {"SendAuthenticationInfo", "UpdateGprsLocation",
                 "CancelLocation", "InsertSubscriberData",
                 "DeleteSubscriberData", "PurgeMS", "Other", "Unknown"}

Component == {"Invoke", "ReturnResult", "ReturnError"}

(* Which MAP operation carries a GSUP procedure, in every switch of the     *)
(* converter.                                                               *)
OperationOf ==
    [SendAuthInfo   |-> "SendAuthenticationInfo",
     UpdateLocation |-> "UpdateGprsLocation",
     LocationCancel |-> "CancelLocation",
     InsertData     |-> "InsertSubscriberData",
     DeleteData     |-> "DeleteSubscriberData",
     PurgeMs        |-> "PurgeMS",
     Unknown        |-> "Unknown"]

-----------------------------------------------------------------------------
(* SGSN-initiated direction.                                                *)

(* The requests gsupToMap has a case for; DeleteDataRequest is not one.     *)
GsupToMapTypes == [proc : {"SendAuthInfo", "UpdateLocation",
                           "LocationCancel", "InsertData", "PurgeMs"},
                   dir : {"Request"}]

gsupToMap(type) == OperationOf[type.proc]

(* The procedures for which mapToGsup has a case, in both of its switches.  *)
MapToGsupProcs == {"SendAuthInfo", "UpdateLocation", "LocationCancel",
                   "InsertData", "PurgeMs"}

mapToGsupAccepts(operation) ==
    \E p \in MapToGsupProcs : OperationOf[p] = operation

(* Mutant: the PurgeMS case has the type of CancelLocation.                *)
mapToGsupPurgeAsCancel(operation, component) ==
    [proc |-> IF operation = "PurgeMS" THEN "LocationCancel"
              ELSE CHOOSE p \in MapToGsupProcs : OperationOf[p] = operation,
     dir  |-> IF component = "ReturnError" THEN "Error" ELSE "Result"]

mapToGsup(operation, component) ==
    [proc |-> CHOOSE p \in MapToGsupProcs : OperationOf[p] = operation,
     dir  |-> IF component = "ReturnError" THEN "Error" ELSE "Result"]

expectedGsupResult(type) == [proc |-> type.proc, dir |-> "Result"]

expectedGsupError(type) == [proc |-> type.proc, dir |-> "Error"]

-----------------------------------------------------------------------------
(* HLR-initiated direction.                                                 *)

(* The procedures the HLR may start: mapInvokeToGsup's cases.               *)
MapInvokeProcs == {"InsertData", "LocationCancel", "DeleteData", "PurgeMs"}

mapInvokeToGsup(operation) ==
    [proc |-> CHOOSE p \in MapInvokeProcs : OperationOf[p] = operation,
     dir  |-> "Request"]

isHlrInitiatedGsupType(type) ==
    type.proc \in MapInvokeProcs /\ type.dir \in {"Result", "Error"}

gsupToMapResult(type) ==
    [operation |-> OperationOf[type.proc],
     component |-> IF type.dir = "Error" THEN "ReturnError"
                                         ELSE "ReturnResult"]

-----------------------------------------------------------------------------
(* What the codecs leave of a message.                                      *)

(* Whether every field of a decoded MAP message fits in a GSUP element:     *)
(* only vectors, the HLR number and the MSISDN have no length of their own. *)
FitChoices(component, operation) ==
    IF <<component, operation>> \in
          {<<"ReturnResult", "SendAuthenticationInfo">>,
           <<"ReturnResult", "UpdateGprsLocation">>,
           <<"Invoke", "InsertSubscriberData">>}
      THEN BOOLEAN ELSE {TRUE}

(* gsup::encode throws for an IMSI of more than 15 digits and for a field   *)
(* of more than 255 bytes.  No IMSI at all is encoded without complaint.    *)
gsupEncodes(imsi, fits) == imsi \notin LongImsi /\ fits

(* map::decode merges the components of a TCAP message into one message:    *)
(* the last one gives the component, and what it does not carry is left as  *)
(* the ones in front of it set it, or as in Alone when there is none.       *)
Alone == [imsi |-> NoImsi, operation |-> "Unknown"]

(* The operation of an answer: TCAP ReturnError carries none.               *)
decodedOperation(component, operation, front) ==
    IF component = "ReturnError" THEN front.operation ELSE operation

(* The invoke id of an Invoke of the HLR, a signed octet in TCAP, is cast   *)
(* to eight bits without a sign, and encoded in the answer as it is then.   *)
decodedInvokeId(id) == id % 256

DecodedInvokeId == 0 .. 255
=============================================================================
