--------------------------- MODULE MCTurboUploader ---------------------------
(* Two uploads, one of them with its content hash disclosed, under anchorers *)
(* with wallets of both types, and under those that buildTags() or           *)
(* buildSignedDataItem() refuses                                             *)
EXTENDS TurboUploader

CONSTANTS i1, i2

MCContent == i1 :> [envelope |-> Text(3, 20), hash |-> {Text(64, 21)}]
          @@ i2 :> [envelope |-> Text(5, 22), hash |-> {}]

Wallet(type, owner, signs) ==
  [sigType |-> type, sigLength |-> 64, ownerLength |-> 32, owner |-> owner, signs |-> signs]

Solana == Wallet(2, Text(32, 30), 64)
Arweave == [sigType |-> 1, sigLength |-> 512, ownerLength |-> 512, owner |-> Text(512, 31), signs |-> 512]

Config(scope, wallet) == [environment |-> Text(10, 40), scope |-> scope, wallet |-> wallet]

MCConfigs ==
  <<Config({}, Solana), Config({Text(9, 41)}, Arweave),
    Config({<<>>}, Solana),
    Config({}, Wallet(3, Text(32, 32), 64)), Config({}, Wallet(1, Text(32, 33), 64)),
    Config({}, Wallet(2, Text(20, 34), 64)), Config({}, Wallet(2, Text(32, 35), 48))>>
=============================================================================
