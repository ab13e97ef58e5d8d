-------------------------- MODULE MessageConverter --------------------------
(***************************************************************************)
(* proxy/Converter on whole messages.  Which types it converts, and into    *)
(* which, is module Converter's; here are the fields it copies.             *)
(***************************************************************************)
EXTENDS Octets

Gsup == INSTANCE GsupCodec
Map == INSTANCE MapCodec
Switch == INSTANCE Converter WITH Imsi <- {}, LongImsi <- {}, NoImsi <- <<>>

gsupToMap(g, tid, invokeId) ==
    LET m == [Map!MapMessage EXCEPT !.transactionId = tid,
                                    !.invokeId = invokeId, !.imsi = g.imsi,
                                    !.operation = Switch!gsupToMap(g.type)]
    IN  IF g.type \notin Switch!GsupToMapTypes THEN {}
        ELSE {CASE g.type.proc = "SendAuthInfo" ->
                     [m EXCEPT !.numRequestedVectors =
                                  <<ValueOr(g.numVectorsRequested, 1)>>]
                [] g.type.proc = "LocationCancel" ->
                     [m EXCEPT !.cancelType = g.cancelType]
                [] g.type.proc = "InsertData" -> [m EXCEPT !.msisdn = g.msisdn]
                [] OTHER -> m}

tripletTuple(t) ==
    [rand |-> t.rand, sres |-> t.sres, kc |-> t.kc,
     ik |-> <<>>, ck |-> <<>>, autn |-> <<>>, res |-> <<>>]

(* Mutant: CK and IK are swapped.                                          *)
quintupletTupleSwapped(q) ==
    [rand |-> q.rand, sres |-> <<>>, kc |-> <<>>, ik |-> <<q.ck>>,
     ck |-> <<q.ik>>, autn |-> <<q.autn>>, res |-> <<q.xres>>]

quintupletTuple(q) ==
    [rand |-> q.rand, sres |-> <<>>, kc |-> <<>>, ik |-> <<q.ik>>,
     ck |-> <<q.ck>>, autn |-> <<q.autn>>, res |-> <<q.xres>>]

mapToGsup(m) ==
    LET g == [Gsup!GsupMessage EXCEPT
                !.imsi = m.imsi,
                !.type = Switch!mapToGsup(m.operation, m.component)]
    IN  IF ~Switch!mapToGsupAccepts(m.operation) THEN {}
        ELSE {CASE m.component = "ReturnError" ->
                     [g EXCEPT !.cause = m.errorCode]
                [] m.operation = "SendAuthenticationInfo" ->
                     [g EXCEPT !.authTuples =
                        [i \in DOMAIN m.authTriplets |->
                           tripletTuple(m.authTriplets[i])]
                        \o [i \in DOMAIN m.authQuintuplets |->
                              quintupletTuple(m.authQuintuplets[i])]]
                [] m.operation = "UpdateGprsLocation" ->
                     [g EXCEPT !.hlrNumber = m.hlrNumber]
                [] m.operation = "PurgeMS" ->
                     [g EXCEPT !.freezePtmsi = m.freezePtmsi]
                [] OTHER -> g}

mapInvokeToGsup(m) ==
    LET g == [Gsup!GsupMessage EXCEPT
                !.imsi = m.imsi, !.type = Switch!mapInvokeToGsup(m.operation)]
    IN  IF ~\E p \in Switch!MapInvokeProcs :
              Switch!OperationOf[p] = m.operation
          THEN {}
          ELSE {CASE m.operation = "InsertSubscriberData" ->
                       [g EXCEPT !.msisdn = m.msisdn]
                  [] m.operation = "CancelLocation" ->
                       [g EXCEPT !.cancelType = m.cancelType]
                  [] OTHER -> g}

gsupToMapResult(g, tid, invokeId) ==
    LET result == Switch!gsupToMapResult(g.type)
    IN  IF ~Switch!isHlrInitiatedGsupType(g.type) THEN {}
        ELSE {[Map!MapMessage EXCEPT
                 !.transactionId = tid, !.invokeId = invokeId,
                 !.imsi = g.imsi, !.component = result.component,
                 !.operation = result.operation,
                 !.errorCode = IF g.type.dir = "Error" THEN g.cause
                                                       ELSE <<>>]}
=============================================================================
