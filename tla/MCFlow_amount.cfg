SPECIFICATION LiveSpec
CONSTANTS
    Null = Null
    U32Max = 2
    true = true
    main = main
    invoice = invoice
    msat = msat
    converted = converted
    coin = coin
    bolt11 = bolt11
    chosen = chosen
    nonce1 = nonce1
    nonce2 = nonce2
    dflt = dflt
    err = err
    Scalar <- MCScalar
    Entity = {1}
    External <- MCExternal
    ExternalWrites <- MCExternalWrites
    Prepend <- MCPrepend
    Request <- MCRequest
    Nonce <- MCNonce
    DefaultDatum = dflt
    Flag = true
    ErrorObject = err
PROPERTY AmountIsMoved
CHECK_DEADLOCK FALSE
