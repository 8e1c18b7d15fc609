CONSTANTS
    HashSize = 4
    KeySize = 4
    SignatureSize = 8
    Refused = Refused
    Unread = Unread
    Sha256 <- Fingerprint
    PublicKeyOf <- Key
    SignDigest <- Schnorr
    PrivateKeys <- ThreeKeys
    ReferenceText <- Reference
    GenesisTime = 7
    TimeBlocks <- SomeTimeBlocks
    ValueBlocks <- SomeValueBlocks
SPECIFICATION FileSpec
INVARIANTS ReadsLastWritten FullContentIsRead ReadBlocksVerify SignatureNamesObject
