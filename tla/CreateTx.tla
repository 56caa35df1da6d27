------------------------------ MODULE CreateTx ------------------------------
(***************************************************************************)
(* Wallet::create_tx (main.rs 1443-1513): the selection of the inputs, the *)
(* fixed point of fee and change, and the outputs.  Sums and products are  *)
(* those of u64, which wrap in a release build: Word stands for 2^64.      *)
(*                                                                         *)
(* The call runs on what get_utxos returned, round by round of the loop;   *)
(* here that is any set of outputs.  Signing the inputs changes neither    *)
(* values nor outputs.                                                     *)
(***************************************************************************)
EXTENDS Integers, Sequences, FiniteSets, FiniteSetsExt, SequencesExt

CONSTANTS
    Outputs,     \* outputs that get_utxos can return
    Value,       \* Value[o]: the value of output o
    Amounts,     \* amounts to send
    Rates,       \* fee rates
    Margin,      \* 100_000
    Dust,        \* 1000
    InputSize,   \* dummy_sig_size, 106
    Overhead,    \* 26
    OutputSize,  \* 34
    Rounds,      \* 20
    Word         \* 2^64

ASSUME CreateAssumption ==
    /\ IsFiniteSet(Outputs) /\ Value \in [Outputs -> Nat]
    /\ Word \in Nat \ {0} /\ Word % 2 = 0
    /\ Amounts \subseteq 0 .. (Word - 1) /\ Rates \subseteq 0 .. (Word - 1)
    /\ {Margin, Dust, InputSize, Overhead, OutputSize, Rounds} \subseteq Nat
    /\ Dust < Word /\ Rounds # 0 /\ InputSize >= 4

Total(S) == MapThenSumSet(LAMBDA o : Value[o], S)

\* The code does not test it: together the outputs are worth less than 2^64.
ASSUME SupplyAssumption == Total(Outputs) < Word

VARIABLES
    call,      \* the arguments: amount, fee_rate, and change_addr if it is given
    inputs,    \* values of the selected outputs
    fee,       \* fee
    round,     \* rounds of the loop so far
    result     \* "none", "running", "made" or the error

create_vars == <<call, inputs, fee, round, result>>

Sum(s) == FoldLeft(LAMBDA a, b : a + b, 0, s)

NoCall == [amount |-> 0, fee_rate |-> 0, change_addr |-> FALSE]

CreateInit == call = NoCall /\ inputs = <<>> /\ fee = 0 /\ round = 0 /\ result = "none"

\* What get_utxos(true) returned, the largest value first; a sort by value.
Sorted(utxos) ==
    {s \in SetToSeqs(utxos) :
        \A i, j \in DOMAIN s : i < j => Value[s[i]] >= Value[s[j]]}

\* The values of the outputs that are taken, until the amount and the margin
\* are covered.
Selected(s, amount) ==
    LET v == [i \in DOMAIN s |-> Value[s[i]]]
        short == {n \in 0 .. Len(v) : \A k \in 1 .. n :
                     Sum(SubSeq(v, 1, k)) < (amount + Margin) % Word}
        n == Cardinality(short)
    IN SubSeq(v, 1, IF n > Len(v) THEN Len(v) ELSE n)

\* Selection, and the fee of the first round, which leaves out four bytes for
\* each input.
Create(amount, rate, given) ==
    /\ result = "none"
    /\ call' = [amount |-> amount, fee_rate |-> rate, change_addr |-> given]
    /\ \E utxos \in SUBSET Outputs : \E s \in Sorted(utxos) : inputs' = Selected(s, amount)
    /\ round' = 0
    /\ fee' = ((Len(inputs') * InputSize + Overhead + OutputSize) * rate) % Word
    /\ result' = IF Sum(inputs') < amount THEN "Insufficient funds" ELSE "running"

\* input_sum - amount - fee
Change == ((Sum(inputs) - call.amount) - fee) % Word

Size(outputs) ==
    Overhead + Len(inputs) * InputSize + outputs * OutputSize + Len(inputs) * 4

NewFee == (Size(IF Change > Dust THEN 2 ELSE 1) * call.fee_rate) % Word

\* A round whose fee moves by less than 20 ends the loop.  The difference is one
\* of i64, and the absolute value of its least number is that number.
Settled ==
    ((NewFee - fee) % Word) \in (0 .. 19) \cup {Word \div 2} \cup ((Word - 19) .. (Word - 1))

\* One round of the loop: the fee for one output or for two.
Round ==
    /\ result = "running" /\ round < Rounds /\ ~Settled
    /\ fee' = NewFee /\ round' = round + 1
    /\ UNCHANGED <<call, inputs, result>>

\* Slip: the sum is not compared with the fee.
CheckAmountOnly == "made"

\* The test after the loop.
Check ==
    IF Sum(inputs) < (call.amount + fee) % Word
    THEN "Insufficient funds (fees included)" ELSE "made"

Finish ==
    /\ result = "running" /\ (round = Rounds \/ Settled)
    /\ result' = Check
    /\ UNCHANGED <<call, inputs, fee, round>>

\* Change above the dust limit goes to the wallet; the address of the caller
\* gets what is left at or below it, and without one that goes to the fee.
TxOutputs ==
    IF Change > Dust \/ call.change_addr THEN <<call.amount, Change>>
                                         ELSE <<call.amount>>

\* The transaction is put together and signed, which changes no value; or the
\* error is returned.  The locals of the call are gone.
Return ==
    /\ result \notin {"none", "running"}
    /\ call' = NoCall /\ inputs' = <<>> /\ fee' = 0 /\ round' = 0 /\ result' = "none"

CreateNext ==
    \/ \E a \in Amounts, r \in Rates, g \in BOOLEAN : Create(a, r, g)
    \/ Round \/ Finish \/ Return

CreateSpec == CreateInit /\ [][CreateNext]_create_vars

-----------------------------------------------------------------------------
(* Properties *)

FeePaid == Sum(inputs) - Sum(TxOutputs)

\* A transaction that is made pays the fee, and at most dust beyond it, exactly
\* when amount and fee together fit in 64 bits: the change that wraps in the
\* rounds (1461) and before the test for it (1468) does no harm, the sum that
\* wraps in the test (1469) does.
Conserves ==
    result = "made" =>
      /\ FeePaid >= fee <=> call.amount + fee < Word
      /\ FeePaid <= fee + Dust

\* Neither the fee for two outputs nor its sum with the amount wraps.
InRange == call.amount + call.fee_rate * Size(2) < Word

\* The fee pays the rate for a transaction with one output, to the 19 units
\* that the loop tolerates (1465).  For two outputs it need not: the rounds can
\* go back and forth between one output and two until the last one.
FeeNearRate ==
    (result = "made" /\ InRange) => FeePaid >= (call.fee_rate * Size(1)) - 19

\* The wallet refuses for want of funds only when the inputs that it selected
\* cannot pay for a transaction with change.  They may pay for one without:
\* the rounds that go back and forth can end on the fee for two outputs.
InsufficientForTwo ==
    (result = "Insufficient funds (fees included)" /\ InRange)
      => Sum(inputs) < call.amount + call.fee_rate * Size(2)

\* What create_tx makes is funded and pays its way, and it refuses only what
\* it could not pay with change, as far as its sums do not wrap.
PaymentSound == Conserves /\ FeeNearRate /\ InsufficientForTwo
=============================================================================
