SPECIFICATION CreateSpec
CONSTANTS
    o1 = o1
    o2 = o2
    o3 = o3
    o4 = o4
    Outputs <- MCOutputs
    Value <- MCValue
    Amounts = {1, 2400, 100000}
    Rates = {0, 10, 25, 500, 1048576, 1315860}
    Margin = 100000
    Dust = 1000
    InputSize = 106
    Overhead = 26
    OutputSize = 34
    Rounds = 20
    Word = 268435456
INVARIANTS
    PaymentSound
