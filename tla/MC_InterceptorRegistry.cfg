CONSTANTS
    nack = nack
    report = report
    twcc = twcc
    Builders <- MCBuilders
    MaxBuilders = 4

SPECIFICATION Spec

PROPERTY ImplementsChain
