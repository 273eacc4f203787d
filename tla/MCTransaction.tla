--------------------------- MODULE MCTransaction ---------------------------
(***************************************************************************)
(* Small instances of Transaction: families of transactions, each in the    *)
(* environments where it matters.                                           *)
(***************************************************************************)
EXTENDS Transaction

CONSTANTS eoa, contract, miner, fresh, Funds

Plain == [type |-> "Legacy", create |-> FALSE, caller |-> eoa, to |-> contract, nonce |-> 1,
          gasLimit |-> 60000, gasPrice |-> 3, maxFee |-> 3, maxPriority |-> 1, value |-> 0,
          zeros |-> 0, nonZeros |-> 0, listed |-> FALSE, blobs |-> 0, versioned |-> TRUE,
          maxBlobFee |-> 0, auths |-> <<>>]
Auth(a, n) == [authority |-> a, nonce |-> n, chain |-> TRUE, signed |-> TRUE, clears |-> FALSE]
Clear(a, n) == [Auth(a, n) EXCEPT !.clears = TRUE]
Foreign(a, n) == [Auth(a, n) EXCEPT !.chain = FALSE]
Forged(a, n) == [Auth(a, n) EXCEPT !.signed = FALSE]

\* Calls that write storage, also with a nonce that is not next.
Calls == {[Plain EXCEPT !.type = ty, !.nonce = n, !.value = v] :
            ty \in {"Legacy", "EIP1559"}, n \in {1, 2}, v \in {0, 5}}
Creations == {[Plain EXCEPT !.create = TRUE, !.gasLimit = 100000, !.nonZeros = z, !.nonce = n,
                            !.value = 5] : z \in {0, 40}, n \in {1, 2}}
Blobs == {[Plain EXCEPT !.type = "EIP4844", !.blobs = b, !.maxBlobFee = 1, !.listed = TRUE] :
            b \in {0, 1, 2}}
SetCodes == {[Plain EXCEPT !.type = "EIP7702", !.gasLimit = 140000, !.to = to, !.auths = as] :
               to \in {contract, fresh},
               as \in {<<Auth(eoa, 2), Auth(eoa, 2)>>, <<Auth(fresh, 0), Auth(fresh, 1)>>,
                       <<Auth(contract, 1), Clear(eoa, 2)>>, <<Foreign(eoa, 2), Forged(eoa, 2)>>}}
Data == {[Plain EXCEPT !.type = "EIP1559", !.nonZeros = 500, !.listed = TRUE,
                       !.maxPriority = p, !.value = v] : p \in {1, 2}, v \in {0, 200000}}

MCTxs == Calls \cup Creations \cup Blobs \cup SetCodes \cup Data
MCStart == [bal |-> [a \in Addr |-> IF a = eoa THEN Funds ELSE IF a = contract THEN 7 ELSE 0],
            nonce |-> [a \in Addr |-> IF a \in {eoa, contract} THEN 1 ELSE 0],
            code |-> [a \in Addr |-> IF a = contract THEN "Contract" ELSE "None"],
            slot |-> [a \in Addr |-> IF a = contract THEN 1 ELSE 0]]
MCEnvs == [fork : {Homestead, Istanbul, Berlin, London, Cancun, Prague, Osaka}, baseFee : {2}, blobPrice : {1}, gasLimit : {200000},
           coinbase : {miner, eoa}]
=============================================================================
