---------------------------- MODULE Wallet_proofs ----------------------------
(***************************************************************************)
(* The graphical wallet (WalletApp) and create_tx (CreateTx), for every    *)
(* set of passwords and outputs and every bound.                           *)
(*                                                                         *)
(* WalletApp.  The properties of the secrets are not inductive.  A save    *)
(* writes the seed and the password of the application, so they must be a  *)
(* seed and a password that belong together (Secrets), and the seed must   *)
(* be the one that was first written (FirstSeed); a confirmation makes a   *)
(* new seed, so its screen is reached only when nothing was ever written.  *)
(*                                                                         *)
(* CreateTx.  Where the largest fee of a call does not wrap, the fee lies  *)
(* between that of the first round, or the rate for one output, and the    *)
(* rate for two (Charged), and half of 2^64 is never its change.           *)
(***************************************************************************)
EXTENDS WalletApp, CreateTx, Sums

Fields == {"screen", "password", "mnemonic", "seed", "scan", "send", "found",
           "addresses", "receive_index", "change_index", "tab", "amount", "error"}

Shape ==
    /\ phrases \in 0 .. MaxPhrase
    /\ DOMAIN app = Fields /\ app = [f \in Fields |-> app[f]]
    /\ DOMAIN past = {"chosen", "kept", "unread", "locked_save"}
    /\ past = [f \in {"chosen", "kept", "unread", "locked_save"} |-> past[f]]
    /\ DOMAIN past.chosen = 1 .. MaxPhrase
    /\ past.chosen = [n \in 1 .. MaxPhrase |-> past.chosen[n]]

\* The password that goes with a seed is the one of its confirmation, or none
\* where that is excused.
Known(password, seed, excused) ==
    /\ seed \in 1 .. phrases
    /\ password = past.chosen[seed] \/ (password = NoPassword /\ excused)

Secrets ==
    /\ file.kind = "whole" => Known(file.password, file.seed, past.locked_save)
    /\ app.seed # NoSeed => Known(app.password, app.seed,
                                  past.locked_save \/ app.screen = "SetupPassword")
    /\ app.screen = "Main" => app.seed # NoSeed
    /\ app.screen = "CreateWallet" => app.seed = NoSeed

\* As long as every start could read the file: it holds the first seed that was
\* written, the application holds no other one, and there is a file from then
\* on, so that no seed is made any more.
FirstSeed ==
    \/ past.unread
    \/ /\ file.kind = "whole" => file.seed = past.kept /\ past.kept # NoSeed
       /\ past.kept # NoSeed => file # NoFile
       /\ past.kept # NoSeed /\ app.seed # NoSeed => app.seed = past.kept
       /\ app.screen = "CreateWallet" => past.kept = NoSeed

IInv == Shape /\ Secrets /\ FirstSeed

\* What a frame of the screen Main, menu included, leaves alone: the seed and
\* the password; and it either stays on the screen or goes to SetupPassword.
KeepsSeed(a, b) ==
    /\ DOMAIN b = Fields /\ b = [f \in Fields |-> b[f]]
    /\ b.seed = a.seed /\ b.screen = a.screen /\ b.password = a.password

\* Each step of update on the screen Main keeps the seed and the screen.
LEMMA StepsKeepSeed ==
    ASSUME NEW a, DOMAIN a = Fields, a = [f \in Fields |-> a[f]], NEW in
    PROVE  /\ KeepsSeed(a, Rescan(a, in)) /\ KeepsSeed(a, ApplyScan(a))
           /\ KeepsSeed(a, SelectTab(a, in)) /\ KeepsSeed(a, Receive(a, in))
           /\ KeepsSeed(a, Form(a, in)) /\ KeepsSeed(a, Button(a, in))
           /\ KeepsSeed(a, Payment(a))
  <1>1. KeepsSeed(a, Rescan(a, in))
    BY DEF KeepsSeed, Rescan, Fields
  <1>2. KeepsSeed(a, ApplyScan(a))
    BY DEF KeepsSeed, ApplyScan, Fields
  <1>3. KeepsSeed(a, SelectTab(a, in))
    BY DEF KeepsSeed, SelectTab, Fields
  <1>4. KeepsSeed(a, Receive(a, in))
    BY DEF KeepsSeed, Receive, Fields
  <1>5. KeepsSeed(a, Form(a, in))
    BY DEF KeepsSeed, Form, Fields
  <1>6. KeepsSeed(a, Button(a, in))
    BY DEF KeepsSeed, Button, Fields
  <1>7. KeepsSeed(a, Payment(a))
    BY DEF KeepsSeed, Payment, Fields
  <1> QED BY <1>1, <1>2, <1>3, <1>4, <1>5, <1>6, <1>7

\* The whole of the screen Main keeps them.
LEMMA MainKeepsSeed ==
    ASSUME NEW a, DOMAIN a = Fields, a = [f \in Fields |-> a[f]], NEW in
    PROVE  KeepsSeed(a, Main(a, in))
  <1> DEFINE t == SelectTab(a, in)
             r == Rescan(t, in)
             b == ApplyScan(r)
             f1 == Form(b, in)
             f2 == Button(f1, in)
             f3 == Payment(f2)
             v == Receive(b, in)
  <1>1. KeepsSeed(a, t)
    BY StepsKeepSeed
  <1>2. KeepsSeed(t, r)
    BY <1>1, StepsKeepSeed DEF KeepsSeed
  <1>3. KeepsSeed(r, b)
    BY <1>2, StepsKeepSeed DEF KeepsSeed
  <1>4. KeepsSeed(b, f1)
    BY <1>3, StepsKeepSeed, SMTT(30) DEF KeepsSeed
  <1>5. KeepsSeed(f1, f2)
    BY <1>4, StepsKeepSeed DEF KeepsSeed
  <1>6. KeepsSeed(f2, f3)
    BY <1>5, StepsKeepSeed DEF KeepsSeed
  <1>7. KeepsSeed(b, v)
    BY <1>3, StepsKeepSeed, SMTT(30) DEF KeepsSeed
  <1>8. KeepsSeed(a, b) /\ KeepsSeed(a, f3) /\ KeepsSeed(a, v)
    <2> HIDE DEF t, r, b, f1, f2, f3, v
    <2> QED BY <1>1, <1>2, <1>3, <1>4, <1>5, <1>6, <1>7 DEF KeepsSeed
  <1>9. Main(a, in) = CASE b.tab = "receive" -> v
                        [] b.tab = "send" -> f3
                        [] OTHER -> b
    BY DEF Main
  <1>10. Main(a, in) = v \/ Main(a, in) = f3 \/ Main(a, in) = b
    <2> HIDE DEF t, r, b, f1, f2, f3, v
    <2> QED BY <1>9
  <1> QED BY <1>8, <1>10

LEMMA InitIInv == Init => IInv
  <1> SUFFICES ASSUME Init PROVE IInv
    OBVIOUS
  <1>1. phrases = 0 /\ file = NoFile /\ app = Started(file, TRUE) /\ MaxPhrase \in Nat
    BY WalletAssumption DEF Init
  <1>2. DOMAIN app = Fields /\ app = [f \in Fields |-> app[f]]
        /\ app.seed = NoSeed /\ app.screen = "CreateWallet"
    BY <1>1 DEF Started, Fields
  <1>3. past = [chosen |-> [n \in 1 .. MaxPhrase |-> NoPassword], kept |-> NoSeed,
                unread |-> FALSE, locked_save |-> FALSE]
    BY DEF Init
  <1>4. Shape
    <2> DEFINE none == [n \in 1 .. MaxPhrase |-> NoPassword]
    <2>1. DOMAIN none = 1 .. MaxPhrase /\ none = [n \in 1 .. MaxPhrase |-> none[n]]
      OBVIOUS
    <2> HIDE DEF none
    <2>2. past = [chosen |-> none, kept |-> NoSeed, unread |-> FALSE, locked_save |-> FALSE]
      BY <1>3 DEF none
    <2>3. /\ DOMAIN past = {"chosen", "kept", "unread", "locked_save"}
          /\ past = [f \in {"chosen", "kept", "unread", "locked_save"} |-> past[f]]
          /\ past.chosen = none
      BY <2>2
    <2>4. phrases \in 0 .. MaxPhrase
      BY <1>1
    <2>5. /\ DOMAIN past.chosen = 1 .. MaxPhrase
          /\ past.chosen = [n \in 1 .. MaxPhrase |-> past.chosen[n]]
      BY ONLY <2>1, <2>3
    <2> QED BY ONLY <1>2, <2>3, <2>4, <2>5 DEF Shape
  <1> QED BY <1>1, <1>2, <1>3, <1>4 DEF IInv, Secrets, FirstSeed, NoFile

\* A step that touches neither the file nor the history, and keeps the seed: on
\* its screen, or back to SetupPassword with the password cleared.
Calm ==
    /\ DOMAIN app' = Fields /\ app' = [f \in Fields |-> app'[f]]
    /\ app'.seed = app.seed
    /\ \/ app'.screen = app.screen /\ app'.password = app.password
       \/ app'.screen = "SetupPassword" /\ app'.password = NoPassword
    /\ UNCHANGED <<file, phrases, past>>

LEMMA CalmIInv ==
    ASSUME IInv, Calm
    PROVE  IInv'
  <1>1. Shape'
    BY DEF IInv, Shape, Calm
  <1>2. Secrets'
    BY DEF IInv, Secrets, Calm, Known
  <1>3. FirstSeed'
    BY DEF IInv, FirstSeed, Calm
  <1> QED BY <1>1, <1>2, <1>3 DEF IInv

\* Every step preserves the invariant.
LEMMA NextIInv ==
    ASSUME IInv, [Next]_vars
    PROVE  IInv'
  <1>0. /\ DOMAIN app = Fields /\ app = [f \in Fields |-> app[f]]
        /\ phrases \in 0 .. MaxPhrase /\ MaxPhrase \in Nat
    BY WalletAssumption DEF IInv, Shape
  <1>1. ASSUME NEW in \in Inputs, MainFrame(in)
        PROVE  IInv'
    <2> DEFINE a == Menu(app, in)
    <2>1. DOMAIN a = Fields /\ a = [f \in Fields |-> a[f]] /\ a.seed = app.seed
      BY <1>0 DEF Menu, Fields
    <2>2. \/ a.screen = app.screen /\ a.password = app.password
          \/ a.screen = "SetupPassword" /\ a.password = NoPassword
      BY <1>0 DEF Menu, Fields
    <2>3. app' = IF a.screen = "Main" THEN Main(a, in) ELSE a
      BY <1>1 DEF MainFrame
    <2>4. KeepsSeed(a, app')
      <3>1. KeepsSeed(a, Main(a, in))
        BY <2>1, MainKeepsSeed
      <3>2. KeepsSeed(a, a)
        BY <2>1 DEF KeepsSeed
      <3> HIDE DEF a
      <3> QED BY <2>3, <3>1, <3>2
    <2> HIDE DEF a
    <2>5. Calm
      BY <1>1, <2>1, <2>2, <2>4 DEF MainFrame, KeepsSeed, Calm
    <2> QED BY <2>5, CalmIInv
  <1>2. ASSUME NEW in \in Inputs, MenuFrame(in)
        PROVE  IInv'
    <2>1. Calm
      BY <1>0, <1>2 DEF MenuFrame, Menu, Fields, Calm
    <2> QED BY <2>1, CalmIInv
  <1>3. ASSUME NEW p, Unlock(p)
        PROVE  IInv'
    <2>1. CASE Decrypts(p) /\ app' = Opened(app, p, file.seed)
      <3>1. /\ DOMAIN app' = Fields /\ app' = [f \in Fields |-> app'[f]]
            /\ app'.seed = file.seed /\ app'.password = p /\ app'.screen = "Main"
        BY <1>0, <2>1 DEF Opened, Fields
      <3>2. file.kind = "whole" /\ file.password = p /\ UNCHANGED <<file, phrases, past>>
        BY <1>3, <2>1 DEF Decrypts, Unlock
      <3>3. Shape'
        BY <3>1, <3>2 DEF IInv, Shape
      <3>4. Secrets'
        BY <3>1, <3>2, <1>0 DEF IInv, Secrets, Known, NoSeed
      <3>5. FirstSeed'
        BY <3>1, <3>2 DEF IInv, FirstSeed
      <3> QED BY <3>3, <3>4, <3>5 DEF IInv
    <2>2. CASE UNCHANGED app \/ app' = [app EXCEPT !.error = TRUE]
      <3>1. Calm
        BY <1>0, <1>3, <2>2 DEF Unlock, Calm, Fields
      <3> QED BY <3>1, CalmIInv
    <2> QED BY <1>3, <2>1, <2>2 DEF Unlock
  <1>4. ASSUME NEW in, NEW c \in BOOLEAN, NEW p, CreateFrame(in, c, p)
        PROVE  IInv'
    <2>1. /\ phrases' = phrases + 1 /\ phrases' \in 1 .. MaxPhrase /\ file' = file
          /\ app.screen = "CreateWallet" /\ app.seed = NoSeed
          /\ past' = IF c THEN [past EXCEPT !.chosen[phrases'] = p] ELSE past
      BY <1>0, <1>4 DEF CreateFrame, IInv, Secrets
    <2> DEFINE m == Menu(app, in)
               a == [m EXCEPT !.mnemonic = phrases']
    <2>2. DOMAIN m = Fields /\ m = [f \in Fields |-> m[f]]
      BY <1>0 DEF Menu, Fields
    <2>3. m.seed = NoSeed /\ m.screen = "CreateWallet"
      BY <1>0, <1>4, <2>1 DEF Menu, Fields, CreateFrame
    <2>4. app' = IF c THEN Opened(a, p, a.mnemonic) ELSE a
      BY <1>4 DEF CreateFrame
    <2> HIDE DEF m
    <2>5. /\ DOMAIN app' = Fields /\ app' = [f \in Fields |-> app'[f]]
          /\ c => app'.seed = phrases' /\ app'.screen = "Main" /\ app'.password = p
          /\ ~c => app'.seed = NoSeed /\ app'.screen = "CreateWallet"
      BY <2>2, <2>3, <2>4 DEF Opened, Fields
    <2>6. /\ DOMAIN past' = DOMAIN past
          /\ past' = [f \in {"chosen", "kept", "unread", "locked_save"} |-> past'[f]]
          /\ past'.kept = past.kept /\ past'.unread = past.unread
          /\ past'.locked_save = past.locked_save
          /\ c => past'.chosen = [past.chosen EXCEPT ![phrases'] = p]
          /\ ~c => past'.chosen = past.chosen
      BY <2>1 DEF IInv, Shape
    <2>7. /\ DOMAIN past'.chosen = 1 .. MaxPhrase
          /\ past'.chosen = [n \in 1 .. MaxPhrase |-> past'.chosen[n]]
          /\ \A n \in 1 .. phrases : past'.chosen[n] = past.chosen[n]
          /\ c => past'.chosen[phrases'] = p
      <3>1. /\ DOMAIN past.chosen = 1 .. MaxPhrase
            /\ past.chosen = [n \in 1 .. MaxPhrase |-> past.chosen[n]]
        BY DEF IInv, Shape
      <3> DEFINE old == past.chosen
                 new == past'.chosen
      <3>2. new = old \/ new = [old EXCEPT ![phrases'] = p]
        BY <2>6
      <3>3. c => new = [old EXCEPT ![phrases'] = p]
        BY <2>6
      <3>4. phrases' \in 1 .. MaxPhrase /\ \A n \in 1 .. phrases : n \in 1 .. MaxPhrase /\ n # phrases'
        BY <1>0, <2>1
      <3> HIDE DEF old, new
      <3>5. DOMAIN old = 1 .. MaxPhrase /\ old = [n \in 1 .. MaxPhrase |-> old[n]]
        BY <3>1 DEF old
      <3>6. DOMAIN new = 1 .. MaxPhrase /\ new = [n \in 1 .. MaxPhrase |-> new[n]]
        BY <3>2, <3>5
      <3>7. (\A n \in 1 .. phrases : new[n] = old[n]) /\ (c => new[phrases'] = p)
        BY <3>2, <3>3, <3>4, <3>5
      <3> QED BY <3>6, <3>7 DEF old, new
    <2>8. Shape'
      BY <1>0, <2>1, <2>5, <2>6, <2>7 DEF IInv, Shape
    <2>9. Secrets'
      <3>1. file.kind = "whole" => Known(file.password, file.seed, past.locked_save)'
        BY <1>0, <2>1, <2>6, <2>7 DEF IInv, Secrets, Known
      <3>2. c => Known(app.password, app.seed, FALSE)'
        BY <1>0, <2>1, <2>5, <2>7 DEF Known
      <3> QED BY <2>1, <2>5, <3>1, <3>2 DEF Secrets, Known, NoSeed
    <2>10. FirstSeed'
      BY <2>1, <2>5, <2>6 DEF IInv, FirstSeed
    <2> QED BY <2>8, <2>9, <2>10 DEF IInv
  <1>5. CASE Activity \/ UNCHANGED vars
    <2>1. UNCHANGED <<app, file, phrases, past>>
      BY <1>5 DEF Activity, vars
    <2>2. Calm
      BY <1>0, <2>1 DEF Calm
    <2> QED BY <2>2, CalmIInv
  <1>6. CASE ScanDone \/ SendDone
    <2>1. Calm
      BY <1>0, <1>6 DEF ScanDone, SendDone, Fields, Calm
    <2> QED BY <2>1, CalmIInv
  <1>7. CASE Save
    <2>1. CASE app.seed = NoSeed
      <3>1. /\ DOMAIN app' = Fields /\ app' = [f \in Fields |-> app'[f]]
            /\ app'.seed = NoSeed /\ app'.screen = "crashed"
            /\ UNCHANGED <<file, phrases, past>>
        BY <1>0, <1>7, <2>1 DEF Save, Fields
      <3>2. Shape'
        BY <3>1 DEF IInv, Shape
      <3>3. Secrets'
        BY <3>1 DEF IInv, Secrets, Known
      <3>4. FirstSeed'
        BY <3>1 DEF IInv, FirstSeed
      <3> QED BY <3>2, <3>3, <3>4 DEF IInv
    <2>2. CASE app.seed # NoSeed
      <3>1. /\ file' = file \/ file' = CutFile \/ file' = Whole(app.password, app.seed)
            /\ past' = [past EXCEPT
                   !.kept = IF @ = NoSeed /\ file'.kind = "whole" THEN file'.seed ELSE @,
                   !.locked_save = @ \/ app.screen = "SetupPassword"]
            /\ UNCHANGED <<app, phrases>>
        BY <1>7, <2>2 DEF Save
      <3>2. /\ DOMAIN past' = DOMAIN past
            /\ past' = [f \in {"chosen", "kept", "unread", "locked_save"} |-> past'[f]]
            /\ past'.chosen = past.chosen /\ past'.unread = past.unread
            /\ past'.locked_save = (past.locked_save \/ app.screen = "SetupPassword")
            /\ past'.kept = IF past.kept = NoSeed /\ file'.kind = "whole"
                            THEN file'.seed ELSE past.kept
        BY <3>1 DEF IInv, Shape
      <3>3. Shape'
        BY <3>1, <3>2 DEF IInv, Shape
      <3>4. /\ file'.kind = "whole" => file' = file \/ (/\ file'.password = app.password
                                                       /\ file'.seed = app.seed)
            /\ file' = NoFile => file = NoFile
        BY <3>1 DEF CutFile, Whole, NoFile
      <3>5. Secrets'
        <4>1. Known(app.password, app.seed, past.locked_save)'
          BY <2>2, <3>1, <3>2 DEF IInv, Secrets, Known
        <4>2. file.kind = "whole" => Known(file.password, file.seed, past.locked_save)'
              \/ file' # file
          BY <3>1, <3>2 DEF IInv, Secrets, Known
        <4>3. file'.kind = "whole" => Known(file.password, file.seed, past.locked_save)'
          BY <3>1, <3>4, <4>1, <4>2
        <4> QED BY <3>1, <4>1, <4>3 DEF IInv, Secrets, Known
      <3>6. FirstSeed'
        BY <2>2, <3>1, <3>2, <3>4 DEF IInv, FirstSeed, Secrets
      <3> QED BY <3>3, <3>5, <3>6 DEF IInv
    <2> QED BY <2>1, <2>2
  <1>8. ASSUME NEW read \in BOOLEAN, Restart(read)
        PROVE  IInv'
    <2>1. /\ DOMAIN app' = Fields /\ app' = [f \in Fields |-> app'[f]]
          /\ app'.seed = NoSeed
          /\ app'.screen = IF file = NoFile \/ ~read THEN "CreateWallet" ELSE "SetupPassword"
          /\ UNCHANGED <<file, phrases>>
      BY <1>8 DEF Restart, Started, Fields
    <2>2. /\ DOMAIN past' = DOMAIN past
          /\ past' = [f \in {"chosen", "kept", "unread", "locked_save"} |-> past'[f]]
          /\ past'.chosen = past.chosen /\ past'.kept = past.kept
          /\ past'.locked_save = past.locked_save
          /\ past'.unread = (past.unread \/ (file # NoFile /\ ~read))
      BY <1>8 DEF Restart, IInv, Shape
    <2>3. Shape'
      BY <2>1, <2>2 DEF IInv, Shape
    <2>4. Secrets'
      BY <2>1, <2>2 DEF IInv, Secrets, Known
    <2>5. FirstSeed'
      BY <2>1, <2>2 DEF IInv, FirstSeed
    <2> QED BY <2>3, <2>4, <2>5 DEF IInv
  <1> QED BY <1>1, <1>2, <1>3, <1>4, <1>5, <1>6, <1>7, <1>8 DEF Next

\* On the screen Main of the graphical wallet there is a seed, so that none
\* of its unwraps panics.
THEOREM MainSeed == Spec => []MainHasSeed
  <1>1. IInv /\ [Next]_vars => IInv'
    BY NextIInv
  <1>2. IInv => MainHasSeed
    BY DEF IInv, Secrets, MainHasSeed
  <1> QED BY InitIInv, <1>1, <1>2, PTL DEF Spec

\* The wallet file opens with the password that its seed was confirmed with,
\* or with the empty one after a save of a locked wallet.
THEOREM FilePassword == Spec => []PasswordOrEmpty
  <1>1. IInv /\ [Next]_vars => IInv'
    BY NextIInv
  <1>2. IInv => PasswordOrEmpty
    BY DEF IInv, Secrets, Known, PasswordOrEmpty
  <1> QED BY InitIInv, <1>1, <1>2, PTL DEF Spec

\* Seed and password are kept after any sequence of inputs.
THEOREM SecretsAlwaysKept == Spec => []SecretsKept
  <1>1. MainHasSeed /\ PasswordOrEmpty => SecretsKept
    BY DEF SecretsKept
  <1> QED BY <1>1, MainSeed, FilePassword, PTL

\* A whole wallet file holds the first seed that was written, across failed
\* saves, locks and restarts, unless a start could not read the file
\* (main.rs 930, 989).
THEOREM FileSeed == Spec => []FileKeepsSeed
  <1>1. IInv /\ [Next]_vars => IInv'
    BY NextIInv
  <1>2. IInv => FileKeepsSeed
    BY DEF IInv, FirstSeed, FileKeepsSeed
  <1> QED BY InitIInv, <1>1, <1>2, PTL DEF Spec
-----------------------------------------------------------------------------
(* Payments *)

Answered == {"ok", "ok_change"}

\* A payment that was shown stays, and the form behind it is empty.
Shown == paid => app.send \in Answered /\ app.amount = FALSE

\* What the steps that have nothing to do with a payment leave alone.
KeepsForm(a, b) == b.send = a.send /\ b.amount = a.amount

LEMMA StepsKeepForm ==
    ASSUME NEW a, DOMAIN a = Fields, a = [f \in Fields |-> a[f]], NEW in
    PROVE  /\ KeepsForm(a, Rescan(a, in)) /\ KeepsForm(a, ApplyScan(a))
           /\ KeepsForm(a, SelectTab(a, in)) /\ KeepsForm(a, Receive(a, in))
           /\ KeepsForm(a, Menu(a, in)) /\ Receive(a, in).tab = a.tab
  <1>1. KeepsForm(a, Rescan(a, in)) /\ KeepsForm(a, SelectTab(a, in))
    BY DEF KeepsForm, Rescan, SelectTab, Fields
  <1>2. KeepsForm(a, ApplyScan(a))
    BY DEF KeepsForm, ApplyScan, Fields
  <1>3. KeepsForm(a, Receive(a, in)) /\ Receive(a, in).tab = a.tab
    BY DEF KeepsForm, Receive, Fields
  <1>4. KeepsForm(a, Menu(a, in))
    BY DEF KeepsForm, Menu, Fields
  <1> QED BY <1>1, <1>2, <1>3, <1>4

\* The tab Send either starts a payment, for an amount that was there, or
\* leaves a settled one with an empty form.
LEMMA SendTab ==
    ASSUME NEW b, DOMAIN b = Fields, b = [f \in Fields |-> b[f]], NEW in,
           b.send \in Answered
    PROVE  LET c == Payment(Button(Form(b, in), in)) IN
             \/ c.send = "running" /\ b.amount # FALSE
             \/ c.send \in Answered /\ c.amount = FALSE
  <1> DEFINE f1 == Form(b, in)
             f2 == Button(f1, in)
  <1>1. /\ DOMAIN f1 = Fields /\ f1 = [f \in Fields |-> f1[f]] /\ f1.send = b.send
        /\ in = "send" => f1.amount = b.amount
    BY DEF Form, Fields
  <1> HIDE DEF f1
  <1>2. /\ DOMAIN f2 = Fields /\ f2 = [f \in Fields |-> f2[f]]
        /\ \/ f2.send = "running" /\ in = "send" /\ f1.amount # FALSE
           \/ f2.send = f1.send
    <2>1. CASE in = "send" /\ f1.amount
      <3>1. f2 = [f1 EXCEPT !.send = "running"]
        BY <2>1 DEF Button
      <3> QED BY <1>1, <2>1, <3>1 DEF Fields
    <2>2. CASE ~(in = "send" /\ f1.amount)
      <3>1. f2 = [f1 EXCEPT !.error = TRUE]
        BY <2>2 DEF Button
      <3> QED BY <1>1, <3>1 DEF Fields
    <2> QED BY <2>1, <2>2
  <1> HIDE DEF f2
  <1>3. CASE f2.send = "running" /\ in = "send" /\ f1.amount # FALSE
    <2>1. Payment(f2) = f2
      BY <1>3 DEF Payment
    <2> QED BY <1>1, <1>3, <2>1 DEF f1, f2
  <1>4. CASE f2.send = f1.send
    <2>1. Payment(f2).send \in Answered /\ Payment(f2).amount = FALSE
      BY <1>1, <1>2, <1>4 DEF Payment, Fields, Answered
    <2> QED BY <2>1 DEF f1, f2
  <1> QED BY <1>2, <1>3, <1>4

LEMMA MainShown ==
    ASSUME IInv, Shown, NEW in, MainFrame(in)
    PROVE  Shown'
  <1> DEFINE a == Menu(app, in)
             t == SelectTab(a, in)
             r == Rescan(t, in)
             b == ApplyScan(r)
  <1>1. /\ app' = (IF a.screen = "Main" THEN Main(a, in) ELSE a)
        /\ paid' = (paid \/ (app'.screen = "Main" /\ app'.tab = "send"
                               /\ app.send \in Answered /\ app'.send # "running"))
    BY DEF MainFrame, Answered
  <1>2. DOMAIN app = Fields /\ app = [f \in Fields |-> app[f]]
    BY DEF IInv, Shape
  <1>3. DOMAIN a = Fields /\ a = [f \in Fields |-> a[f]] /\ KeepsForm(app, a)
    BY <1>2, StepsKeepForm DEF Menu, Fields
  <1>4. KeepsSeed(a, t) /\ KeepsForm(a, t)
    BY <1>3, StepsKeepSeed, StepsKeepForm
  <1>5. KeepsSeed(t, r) /\ KeepsForm(t, r)
    BY <1>4, StepsKeepSeed, StepsKeepForm DEF KeepsSeed
  <1>6. KeepsSeed(r, b) /\ KeepsForm(r, b)
    BY <1>5, StepsKeepSeed, StepsKeepForm DEF KeepsSeed
  <1>7. /\ DOMAIN b = Fields /\ b = [f \in Fields |-> b[f]]
        /\ b.send = app.send /\ b.amount = app.amount
    BY <1>3, <1>4, <1>5, <1>6 DEF KeepsSeed, KeepsForm
  <1>8. Main(a, in) = CASE b.tab = "receive" -> Receive(b, in)
                        [] b.tab = "send" -> Payment(Button(Form(b, in), in))
                        [] OTHER -> b
    BY DEF Main
  <1> HIDE DEF b, a
  <1>9. CASE a.screen # "Main"
    <2>1. app' = a /\ (paid' => paid)
      BY ONLY <1>1, <1>9
    <2> QED BY <1>3, <2>1 DEF Shown, KeepsForm
  <1>10. CASE a.screen = "Main" /\ b.tab # "send"
    <2>1. app' = b \/ app' = Receive(b, in)
      BY <1>1, <1>8, <1>10
    <2>2. app'.send = app.send /\ app'.amount = app.amount /\ app'.tab # "send"
      BY <1>7, <1>10, <2>1, StepsKeepForm DEF KeepsForm
    <2>3. paid' => paid
      BY ONLY <1>1, <2>2
    <2> QED BY <2>2, <2>3 DEF Shown
  <1>11. CASE a.screen = "Main" /\ b.tab = "send"
    <2>1. app' = Payment(Button(Form(b, in), in))
      BY <1>1, <1>8, <1>11
    <2>2. CASE app.send \in Answered
      <3>1. \/ app'.send = "running" /\ b.amount # FALSE
            \/ app'.send \in Answered /\ app'.amount = FALSE
        BY <1>7, <2>1, <2>2, SendTab
      <3>2. paid' => paid \/ app'.send # "running"
        BY ONLY <1>1
      <3>3. paid => b.amount = FALSE
        BY <1>7 DEF Shown
      <3> QED BY <3>1, <3>2, <3>3 DEF Shown
    <2>3. CASE app.send \notin Answered
      <3>1. ~paid'
        BY <1>1, <2>3 DEF Shown
      <3> QED BY <3>1 DEF Shown
    <2> QED BY <2>2, <2>3
  <1> QED BY <1>9, <1>10, <1>11

\* After a payment has been shown the send promise is never "running" again
\* before a restart: it is never taken, and the form it would need is cleared
\* in every frame (main.rs 1209-1218).
THEOREM OnlyOnePayment == Spec => OnePayment
  <1>1. Init => Shown
    BY DEF Init, Shown
  <1>2. ASSUME IInv, Shown, [Next]_vars
        PROVE  Shown'
    <2>0. DOMAIN app = Fields /\ app = [f \in Fields |-> app[f]]
      BY <1>2 DEF IInv, Shape
    <2>1. ASSUME NEW in \in Inputs, MainFrame(in)
          PROVE  Shown'
      BY <1>2, <2>1, MainShown
    <2>2. ASSUME NEW in \in Inputs, MenuFrame(in)
          PROVE  Shown'
      <3>1. app' = Menu(app, in) /\ paid' = paid
        BY <2>2 DEF MenuFrame
      <3> QED BY <1>2, <2>0, <3>1, StepsKeepForm DEF Shown, KeepsForm
    <2>3. ASSUME NEW p, Unlock(p)
          PROVE  Shown'
      <3>1. app'.send = app.send /\ app'.amount = app.amount /\ paid' = paid
        BY <2>0, <2>3 DEF Unlock, Opened, Fields
      <3> QED BY <1>2, <3>1 DEF Shown
    <2>4. ASSUME NEW in, NEW c \in BOOLEAN, NEW p, CreateFrame(in, c, p)
          PROVE  Shown'
      <3> DEFINE m == Menu(app, in)
                 a == [m EXCEPT !.mnemonic = phrases']
      <3>1. app' = (IF c THEN Opened(a, p, a.mnemonic) ELSE a) /\ paid' = paid
        BY <2>4 DEF CreateFrame
      <3>2. DOMAIN m = Fields /\ m = [f \in Fields |-> m[f]] /\ KeepsForm(app, m)
        BY <2>0, StepsKeepForm DEF Menu, Fields
      <3> HIDE DEF m
      <3>3. app'.send = m.send /\ app'.amount = m.amount
        BY <3>1, <3>2 DEF Opened, Fields
      <3> QED BY <1>2, <3>1, <3>2, <3>3 DEF Shown, KeepsForm
    <2>5. CASE ScanDone
      <3>1. app'.send = app.send /\ app'.amount = app.amount /\ paid' = paid
        BY <2>0, <2>5 DEF ScanDone, Fields
      <3> QED BY <1>2, <3>1 DEF Shown
    <2>6. CASE SendDone
      BY <1>2, <2>6 DEF SendDone, Shown, Answered
    <2>7. CASE Save
      <3>1. app'.send = app.send /\ app'.amount = app.amount /\ paid' = paid
        BY <2>0, <2>7 DEF Save, Fields
      <3> QED BY <1>2, <3>1 DEF Shown
    <2>8. ASSUME NEW read \in BOOLEAN, Restart(read)
          PROVE  Shown'
      BY <2>8 DEF Restart, Shown
    <2>9. CASE Activity \/ UNCHANGED vars
      BY <1>2, <2>9 DEF Activity, vars, Shown
    <2> QED BY <1>2, <2>1, <2>2, <2>3, <2>4, <2>5, <2>6, <2>7, <2>8, <2>9 DEF Next
  <1>3. Shown' => [(paid /\ app.send # "running" /\ paid') => app'.send # "running"]_vars
    BY DEF Shown, Answered
  <1>4. IInv /\ [Next]_vars => IInv'
    BY NextIInv
  <1> QED BY InitIInv, <1>1, <1>2, <1>3, <1>4, PTL DEF Spec, OnePayment
-----------------------------------------------------------------------------
(* create_tx *)

LEMMA TotalIsSum ==
    ASSUME NEW S
    PROVE  Total(S) = SumOver(Value, S)
  BY DEF Total, SumOver

LEMMA SelectedIs ==
    ASSUME NEW utxos \in SUBSET Outputs, NEW a, NEW s \in Sorted(utxos)
    PROVE  /\ Selected(s, a) \in Seq(Nat)
           /\ Sum(Selected(s, a)) \in Nat /\ Sum(Selected(s, a)) < Word
  <1> DEFINE k == Cardinality(utxos)
             v == [i \in DOMAIN s |-> Value[s[i]]]
             short == {n \in 0 .. Len(v) : \A j \in 1 .. n :
                         Sum(SubSeq(v, 1, j)) < (a + Margin) % Word}
             n == Cardinality(short)
             m == IF n > Len(v) THEN Len(v) ELSE n
             q == SubSeq(v, 1, m)
  <1>1. utxos \in SUBSET Outputs
    OBVIOUS
  <1>2. k \in Nat
    BY <1>1, CreateAssumption, FS_Subset, FS_CardinalityType
  <1>3. s \in [1 .. k -> utxos] /\ \A i, j \in 1 .. k : s[i] = s[j] => i = j
    BY DEF Sorted, SetToSeqs
  <1> HIDE DEF k
  <1>4. \A i \in 1 .. k : s[i] \in Outputs /\ Value[s[i]] \in Nat
    BY <1>1, <1>3, CreateAssumption
  <1>5. v \in Seq(Nat) /\ Len(v) = k /\ \A i \in 1 .. k : v[i] = Value[s[i]]
    <2>1. DOMAIN s = 1 .. k
      BY <1>3
    <2> QED BY <1>2, <1>4, <2>1
  <1> HIDE DEF v
  <1>6. n \in Nat
    <2>1. short \in SUBSET (0 .. Len(v)) /\ IsFiniteSet(0 .. Len(v))
      BY <1>2, <1>5, FS_Interval
    <2> HIDE DEF short
    <2>2. IsFiniteSet(short)
      BY <2>1, FS_Subset
    <2> QED BY <2>2, FS_CardinalityType
  <1> HIDE DEF n
  <1>7. m \in 0 .. k
    BY <1>2, <1>5, <1>6
  <1>8. Selected(s, a) = q
    BY DEF Selected, m, n, short, v
  <1> HIDE DEF m
  <1>9. q \in Seq(Nat) /\ Len(q) = m /\ \A i \in 1 .. m : q[i] = Value[s[i]]
    BY <1>2, <1>5, <1>7
  <1> HIDE DEF q
  <1> DEFINE I == 1 .. m
             f == [i \in I |-> s[i]]
             F == {f[i] : i \in I}
  <1>10. m \in Nat /\ I \subseteq 1 .. k /\ IsFiniteSet(I)
    <2>1. m \in Nat /\ 1 .. m \subseteq 1 .. k
      BY <1>2, <1>7
    <2> QED BY <2>1, FS_Interval
  <1>11. Renames(f, I, Outputs, q, Value, I, F)
    <2>1. q \in [I -> Nat] /\ f \in [I -> Outputs]
      BY <1>4, <1>9, <1>10
    <2>2. \A i \in I : q[i] = Value[f[i]]
      BY <1>9
    <2>3. \A i, j \in I : f[i] = f[j] => i = j
      BY <1>3, <1>10
    <2> HIDE DEF I, f
    <2> QED BY <1>10, <2>1, <2>2, <2>3, CreateAssumption DEF Renames
  <1>12. Sum(q) = SumOver(Value, F)
    <2>1. Sum(q) = Add(q)
      BY DEF Sum, Add
    <2>2. Add(q) = SumOver(q, I)
      BY <1>9, AddIsSum
    <2>3. SumOver(q, I) = SumOver(Value, F)
      BY ONLY <1>11, SumImage
    <2> QED BY <2>1, <2>2, <2>3
  <1>13. F \in SUBSET Outputs
    BY <1>4, <1>10
  <1> HIDE DEF F
  <1>14. IsFiniteSet(F)
    BY <1>13, CreateAssumption, FS_Subset
  <1>15. SumOver(Value, F) <= SumOver(Value, Outputs)
    BY <1>13, CreateAssumption, SumDifference
  <1>16. SumOver(Value, F) \in Nat /\ SumOver(Value, Outputs) \in Nat
    BY <1>13, <1>14, CreateAssumption, SumNat
  <1>17. SumOver(Value, Outputs) < Word
    BY SupplyAssumption, TotalIsSum
  <1> QED BY <1>2, <1>7, <1>8, <1>9, <1>12, <1>15, <1>16, <1>17, CreateAssumption

LEMMA SumOfNone == Sum(<<>>) = 0
  <1>1. Sum(<<>>) = Add(<<>>)
    BY DEF Sum, Add
  <1>2. <<>> \in Seq(Nat) /\ Len(<<>>) = 0 /\ 1 .. 0 = {}
    OBVIOUS
  <1>3. \A s \in Seq(Nat) : Add(s) = SumOver(s, 1 .. Len(s))
    BY AddIsSum
  <1>4. Add(<<>>) = SumOver(<<>>, 1 .. 0)
    BY ONLY <1>2, <1>3
  <1> QED BY <1>1, <1>2, <1>4, SumEmpty

LEMMA SumOfOutputs ==
    ASSUME NEW a \in Nat, NEW b \in Nat
    PROVE  Sum(<<a>>) = a /\ Sum(<<a, b>>) = a + b
  <1>0. \A s \in Seq(Nat) : Sum(s) = SumOver(s, 1 .. Len(s))
    <2>1. \A s : Sum(s) = Add(s)
      BY DEF Sum, Add
    <2> QED BY <2>1, AddIsSum
  <1>1. Sum(<<a>>) = SumOver(<<a>>, 1 .. 1)
    <2>1. <<a>> \in Seq(Nat) /\ Len(<<a>>) = 1
      OBVIOUS
    <2> QED BY ONLY <1>0, <2>1
  <1>2. Sum(<<a, b>>) = SumOver(<<a, b>>, 1 .. 2)
    <2>1. <<a, b>> \in Seq(Nat) /\ Len(<<a, b>>) = 2
      OBVIOUS
    <2> QED BY ONLY <1>0, <2>1
  <1>3. 1 .. 1 = {1} /\ 1 .. 2 = {1, 2} /\ {1} \ {1} = {} /\ {1, 2} \ {2} = {1}
    OBVIOUS
  <1>4. IsFiniteSet({1}) /\ IsFiniteSet({1, 2})
    <2>1. IsFiniteSet({}) /\ {} \cup {1} = {1} /\ {1} \cup {2} = {1, 2}
      BY FS_EmptySet
    <2>2. IsFiniteSet({} \cup {1})
      BY ONLY <2>1, FS_AddElement
    <2>3. IsFiniteSet({1} \cup {2})
      BY ONLY <2>1, <2>2, FS_AddElement
    <2> QED BY ONLY <2>1, <2>2, <2>3
  <1>5. <<a>> \in [{1} -> Nat] /\ <<a, b>> \in [{1, 2} -> Nat]
    OBVIOUS
  <1>6. SumOver(<<a>>, {1}) = SumOver(<<a>>, {}) + a
    BY <1>3, <1>4, <1>5, SumTake
  <1>7. SumOver(<<a, b>>, {1}) = SumOver(<<a, b>>, {}) + a
    BY <1>3, <1>4, <1>5, SumTake
  <1>8. SumOver(<<a, b>>, {1, 2}) = SumOver(<<a, b>>, {1}) + b
    BY <1>3, <1>4, <1>5, SumTake
  <1> QED BY <1>1, <1>2, <1>3, <1>6, <1>7, <1>8, SumEmpty

LEMMA Remainder ==
    ASSUME NEW x \in Nat, NEW W \in Nat \ {0}, x < W
    PROVE  x % W = x
  OBVIOUS

LEMMA NegativeRemainder ==
    ASSUME NEW x \in Int, NEW W \in Nat \ {0}, x < 0, 0 <= x + W
    PROVE  x % W = x + W
  OBVIOUS

LEMMA RemainderType ==
    ASSUME NEW x \in Int, NEW W \in Nat \ {0}
    PROVE  x % W \in Nat /\ x % W < W
  OBVIOUS

LEMMA Half ==
    ASSUME NEW W \in Nat \ {0}, W % 2 = 0
    PROVE  2 * (W \div 2) = W
  OBVIOUS

LEMMA TimesRate ==
    ASSUME NEW x \in Nat, NEW y \in Nat, NEW r \in Nat, x <= y
    PROVE  r * x <= r * y /\ r * x \in Nat
  OBVIOUS

\* The size that the fee of the first round is for.
First == Len(inputs) * InputSize + Overhead + OutputSize

\* The fee of a call that does not wrap.
Charged ==
    /\ fee >= call.fee_rate * First
    /\ fee <= call.fee_rate * Size(2)
    /\ round # 0 => fee >= call.fee_rate * Size(1)

Ended == {"made", "Insufficient funds (fees included)"}

Typed ==
    /\ call.amount \in Nat /\ call.fee_rate \in Nat /\ call.change_addr \in BOOLEAN
    /\ inputs \in Seq(Nat) /\ Sum(inputs) \in Nat /\ Sum(inputs) < Word
    /\ fee \in Nat /\ fee < Word /\ round \in Nat

PayInv ==
    /\ Typed
    /\ result \in Ended \cup {"running"} => Sum(inputs) >= call.amount
    /\ (result # "none" /\ InRange) => Charged
    /\ (result \in Ended /\ InRange) => fee >= call.fee_rate * Size(1) - 19
    /\ result = "made" => Sum(inputs) >= (call.amount + fee) % Word
    /\ result = "Insufficient funds (fees included)"
         => Sum(inputs) < (call.amount + fee) % Word

\* The three sizes of n inputs: the first is at least half of the largest, which
\* is why no fee that is in range moves by half of Word.
LEMMA SizesOf ==
    ASSUME NEW n \in Nat
    PROVE  LET first == n * InputSize + Overhead + OutputSize
               one == Overhead + n * InputSize + 1 * OutputSize + n * 4
               two == Overhead + n * InputSize + 2 * OutputSize + n * 4
           IN /\ first \in Nat /\ one \in Nat /\ two \in Nat
              /\ first <= one /\ one <= two /\ two <= first + first
  <1> DEFINE ni == n * InputSize
  <1>1. /\ InputSize \in Nat /\ InputSize >= 4
        /\ Overhead \in Nat /\ OutputSize \in Nat
    BY CreateAssumption
  <1>2. ni \in Nat /\ n * 4 <= ni
    BY <1>1
  <1> HIDE DEF ni
  <1>3. LET first == ni + Overhead + OutputSize
            one == Overhead + ni + 1 * OutputSize + n * 4
            two == Overhead + ni + 2 * OutputSize + n * 4
        IN /\ first \in Nat /\ one \in Nat /\ two \in Nat
           /\ first <= one /\ one <= two /\ two <= first + first
    BY ONLY <1>1, <1>2, n \in Nat
  <1> QED BY <1>3 DEF ni

LEMMA Sizes ==
    ASSUME Typed
    PROVE  /\ First \in Nat /\ Size(1) \in Nat /\ Size(2) \in Nat
           /\ First <= Size(1) /\ Size(1) <= Size(2) /\ First <= Size(2)
           /\ Size(2) <= First + First
  <1>1. Len(inputs) \in Nat
    BY DEF Typed
  <1>2. /\ First \in Nat /\ Size(1) \in Nat /\ Size(2) \in Nat
        /\ First <= Size(1) /\ Size(1) <= Size(2) /\ Size(2) <= First + First
    BY ONLY <1>1, SizesOf DEF First, Size
  <1> QED BY ONLY <1>2

\* The fees for the three sizes, and the fee of the next round.
LEMMA Fees ==
    ASSUME Typed
    PROVE  LET r == call.fee_rate IN
           /\ r * First \in Nat /\ r * Size(1) \in Nat /\ r * Size(2) \in Nat
           /\ r * First <= r * Size(2) /\ r * Size(1) <= r * Size(2)
           /\ r * Size(2) <= r * First + r * First
           /\ NewFee \in Nat /\ NewFee < Word
           /\ InRange => NewFee = r * Size(1) \/ NewFee = r * Size(2)
  <1> DEFINE r == call.fee_rate
             size == Size(IF Change > Dust THEN 2 ELSE 1)
  <1>1. r \in Nat /\ call.amount \in Nat /\ Word \in Nat \ {0}
    BY CreateAssumption DEF Typed
  <1>2. /\ First \in Nat /\ Size(1) \in Nat /\ Size(2) \in Nat
        /\ First <= Size(2) /\ Size(1) <= Size(2) /\ Size(2) <= First + First
    BY Sizes
  <1>3. size = Size(1) \/ size = Size(2)
    OBVIOUS
  <1>4. NewFee = (size * r) % Word
    BY DEF NewFee
  <1>5. InRange => call.amount + r * Size(2) < Word
    BY DEF InRange
  <1> HIDE DEF r, size
  <1>6. r * Size(2) <= r * (First + First) /\ r * (First + First) = r * First + r * First
    BY <1>1, <1>2, TimesRate
  <1>7. /\ r * First \in Nat /\ r * Size(1) \in Nat /\ r * Size(2) \in Nat
        /\ r * First <= r * Size(2) /\ r * Size(1) <= r * Size(2)
    BY <1>1, <1>2, TimesRate
  <1>8. size \in Nat /\ size * r = r * size
    BY <1>1, <1>2, <1>3
  <1>9. r * size = r * Size(1) \/ r * size = r * Size(2)
    BY <1>3
  <1>10. NewFee \in Nat /\ NewFee < Word
    <2>1. size * r \in Int
      BY <1>7, <1>8, <1>9
    <2> QED BY <1>1, <1>4, <2>1, RemainderType
  <1>11. ASSUME InRange
         PROVE  NewFee = r * Size(1) \/ NewFee = r * Size(2)
    <2> DEFINE f == r * size
    <2>1. f \in Nat /\ f <= r * Size(2)
      BY <1>7, <1>9
    <2>2. f < Word
      <3> HIDE DEF f
      <3>1. r * Size(2) \in Nat /\ call.amount + r * Size(2) < Word
        BY <1>5, <1>7, <1>11
      <3> QED BY ONLY <1>1, <2>1, <3>1
    <2>3. NewFee = f % Word
      BY <1>4, <1>8
    <2> HIDE DEF f
    <2>4. NewFee = f
      BY <1>1, <2>1, <2>2, <2>3, Remainder
    <2> QED BY <1>9, <2>4 DEF f
  <1> QED BY <1>6, <1>7, <1>10, <1>11 DEF r

\* A round that ends the loop leaves a fee that is at most 19 below the next.
LEMMA SettledNear ==
    ASSUME Typed, InRange, Charged, Settled
    PROVE  fee >= NewFee - 19
  <1> DEFINE W == Word
             D == NewFee - fee
             F == call.fee_rate * First
             T == call.fee_rate * Size(2)
  <1>1. /\ NewFee \in Nat /\ fee \in Nat /\ NewFee < W /\ fee < W /\ W \in Nat \ {0}
        /\ call.amount \in Nat
    BY Fees, CreateAssumption DEF Typed
  <1>2. F \in Nat /\ T \in Nat /\ T <= F + F /\ NewFee <= T /\ fee >= F
    <2>1. NewFee = call.fee_rate * Size(1) \/ NewFee = T
      BY Fees
    <2> QED BY <2>1, Fees DEF Charged
  <1>3. call.amount + T < W
    BY DEF InRange
  <1>4. D % W \in (0 .. 19) \cup {W \div 2} \cup ((W - 19) .. (W - 1))
    BY DEF Settled
  <1>5. 2 * (W \div 2) = W
    BY CreateAssumption, Half
  <1> HIDE DEF W, F, T
  <1>6. D + D < W
    BY ONLY <1>1, <1>2, <1>3
  <1>7. CASE D <= 0
    BY <1>1, <1>7
  <1>8. CASE D > 0
    <2>1. D \in Nat /\ D < W
      BY ONLY <1>1, <1>8
    <2> HIDE DEF D
    <2>2. D % W = D
      BY ONLY <1>1, <2>1, Remainder
    <2>3. D \in 0 .. 19 \/ D = W \div 2 \/ D >= W - 19
      BY <1>1, <1>4, <2>1, <2>2
    <2>4. D <= 19
      BY ONLY <1>1, <1>5, <1>6, <2>1, <2>3
    <2>5. D = NewFee - fee
      BY DEF D
    <2> QED BY ONLY <1>1, <2>1, <2>4, <2>5
  <1> QED BY <1>1, <1>7, <1>8

LEMMA CreatePays ==
    ASSUME NEW a \in Amounts, NEW r \in Rates, NEW g \in BOOLEAN, Create(a, r, g)
    PROVE  PayInv'
  <1>1. /\ call' = [amount |-> a, fee_rate |-> r, change_addr |-> g]
        /\ round' = 0
        /\ fee' = ((Len(inputs') * InputSize + Overhead + OutputSize) * r) % Word
        /\ result' = IF Sum(inputs') < a THEN "Insufficient funds" ELSE "running"
    BY DEF Create
  <1>2. PICK utxos \in SUBSET Outputs : \E s \in Sorted(utxos) : inputs' = Selected(s, a)
    BY DEF Create
  <1>3. /\ inputs' \in Seq(Nat)
        /\ Sum(inputs') \in Nat /\ Sum(inputs') < Word
    BY <1>2, SelectedIs
  <1>4. a \in Nat /\ r \in Nat /\ Word \in Nat \ {0}
    BY CreateAssumption
  <1>5. call'.amount = a /\ call'.fee_rate = r /\ call'.change_addr = g
    BY <1>1
  <1> DEFINE n == Len(inputs')
             first == n * InputSize + Overhead + OutputSize
             two == Overhead + n * InputSize + 2 * OutputSize + n * 4
  <1>6. first \in Nat /\ two \in Nat /\ first <= two
    <2>1. n \in Nat
      BY <1>3
    <2>2. /\ first \in Nat /\ two \in Nat
          /\ first <= Overhead + n * InputSize + 1 * OutputSize + n * 4
          /\ Overhead + n * InputSize + 1 * OutputSize + n * 4 <= two
          /\ Overhead + n * InputSize + 1 * OutputSize + n * 4 \in Nat
      BY ONLY <2>1, SizesOf
    <2> HIDE DEF first, two
    <2> QED BY <2>2
  <1>7. fee' = (first * r) % Word /\ First' = first /\ Size(2)' = two
    BY <1>1 DEF First, Size
  <1> HIDE DEF first, two
  <1>8. first * r = r * first /\ r * first \in Nat
    BY ONLY <1>4, <1>6
  <1>9. Typed'
    <2>1. fee' \in Nat /\ fee' < Word
      BY <1>4, <1>7, <1>8, RemainderType
    <2> QED BY <1>1, <1>3, <1>4, <1>5, <2>1 DEF Typed
  <1>10. ASSUME InRange'
         PROVE  Charged'
    <2>1. a + r * two < Word
      BY <1>5, <1>7, <1>10 DEF InRange
    <2>2. r * first <= r * two /\ r * two \in Nat
      BY <1>4, <1>6, TimesRate
    <2>3. r * first < Word
      BY ONLY <1>4, <1>8, <2>1, <2>2
    <2>4. fee' = r * first
      BY <1>4, <1>7, <1>8, <2>3, Remainder
    <2>5. fee' >= r * first /\ fee' <= r * two
      BY ONLY <1>8, <2>2, <2>4
    <2> QED BY <1>1, <1>5, <1>7, <2>5 DEF Charged
  <1>11. result' = "running" => Sum(inputs)' >= call'.amount
    BY <1>1, <1>3, <1>4, <1>5
  <1>12. result' \notin Ended
    BY <1>1 DEF Ended
  <1> QED BY <1>9, <1>10, <1>11, <1>12 DEF PayInv, Ended

LEMMA RoundPays ==
    ASSUME PayInv, Round
    PROVE  PayInv'
  <1>1. /\ fee' = NewFee /\ round' = round + 1 /\ result = "running"
        /\ UNCHANGED <<call, inputs, result>>
    BY DEF Round
  <1>2. Typed
    BY DEF PayInv
  <1>3. /\ Size(1)' = Size(1) /\ Size(2)' = Size(2) /\ Sum(inputs)' = Sum(inputs)
        /\ First' = First
    BY <1>1 DEF Size, First
  <1>4. Typed'
    BY <1>1, <1>2, <1>3, Fees DEF Typed
  <1>5. InRange' = InRange
    BY <1>1, <1>3 DEF InRange
  <1>6. ASSUME InRange
        PROVE  Charged'
    <2> DEFINE r == call.fee_rate
    <2>1. /\ r * Size(1) \in Nat /\ r * Size(2) \in Nat /\ r * First \in Nat
          /\ r * Size(1) <= r * Size(2) /\ r * First <= r * Size(2)
          /\ NewFee = r * Size(1) \/ NewFee = r * Size(2)
      BY <1>2, <1>6, Fees
    <2>2. r * First <= r * Size(1)
      <3>1. First <= Size(1) /\ First \in Nat /\ Size(1) \in Nat /\ r \in Nat
        BY <1>2, Sizes DEF Typed
      <3> HIDE DEF r
      <3> QED BY <3>1, TimesRate
    <2> HIDE DEF r
    <2>3. NewFee >= r * First /\ NewFee <= r * Size(2) /\ NewFee >= r * Size(1)
      BY <2>1, <2>2
    <2> QED BY <1>1, <1>3, <2>3 DEF Charged, r
  <1> QED BY <1>1, <1>3, <1>4, <1>5, <1>6 DEF PayInv, Ended

LEMMA FinishPays ==
    ASSUME PayInv, Finish
    PROVE  PayInv'
  <1>1. /\ result = "running" /\ (round = Rounds \/ Settled) /\ result' = Check
        /\ UNCHANGED <<call, inputs, fee, round>>
    BY DEF Finish
  <1>2. /\ Size(1)' = Size(1) /\ Size(2)' = Size(2) /\ Sum(inputs)' = Sum(inputs)
        /\ First' = First
    BY <1>1 DEF Size, First
  <1>3. Typed /\ Typed' /\ Sum(inputs) >= call.amount
    BY <1>1, <1>2 DEF PayInv, Typed
  <1>4. InRange' = InRange /\ Charged' = Charged
    BY <1>1, <1>2 DEF InRange, Charged
  <1>5. ASSUME InRange
        PROVE  fee >= call.fee_rate * Size(1) - 19
    <2>0. Charged
      BY <1>1, <1>5 DEF PayInv
    <2>1. fee \in Nat /\ call.fee_rate * Size(1) \in Nat /\ NewFee \in Nat
      BY <1>3, Fees DEF Typed
    <2>2. CASE round = Rounds
      <3>1. fee >= call.fee_rate * Size(1)
        BY <2>0, <2>2, CreateAssumption DEF Charged
      <3> QED BY <2>1, <3>1
    <2>3. CASE Settled
      <3>1. fee >= NewFee - 19
        BY <1>3, <1>5, <2>0, <2>3, SettledNear
      <3>2. call.fee_rate * Size(1) <= NewFee
        BY <1>3, <1>5, Fees
      <3> QED BY <2>1, <3>1, <3>2
    <2> QED BY <1>1, <2>2, <2>3
  <1>6. /\ Sum(inputs) \in Nat
        /\ (call.amount + fee) % Word \in Nat
    <2>1. call.amount + fee \in Int /\ Word \in Nat \ {0}
      BY <1>3, CreateAssumption DEF Typed
    <2> QED BY <1>3, <2>1, RemainderType DEF Typed
  <1>7. /\ result' \in Ended
        /\ result' = "made" => Sum(inputs) >= (call.amount + fee) % Word
        /\ result' = "Insufficient funds (fees included)"
             => Sum(inputs) < (call.amount + fee) % Word
    <2> DEFINE I == Sum(inputs)
               x == (call.amount + fee) % Word
    <2>1. result' = IF I < x THEN "Insufficient funds (fees included)" ELSE "made"
      BY <1>1 DEF Check
    <2> HIDE DEF I, x
    <2>2. I \in Nat /\ x \in Nat
      BY <1>6 DEF I, x
    <2>3. /\ result' \in Ended
          /\ result' = "made" => I >= x
          /\ result' = "Insufficient funds (fees included)" => I < x
      <3>1. ~(I < x) => I >= x
        BY ONLY <2>2
      <3>2. CASE I < x
        <4>1. result' = "Insufficient funds (fees included)"
          BY ONLY <2>1, <3>2
        <4> QED BY ONLY <3>2, <4>1 DEF Ended
      <3>3. CASE ~(I < x)
        <4>1. result' = "made"
          BY ONLY <2>1, <3>3
        <4> QED BY ONLY <3>1, <3>3, <4>1 DEF Ended
      <3> QED BY ONLY <3>2, <3>3
    <2> QED BY ONLY <2>3 DEF I, x
  <1>8. InRange => Charged
    BY <1>1 DEF PayInv
  <1> QED BY <1>1, <1>2, <1>3, <1>4, <1>5, <1>7, <1>8 DEF PayInv, Ended

LEMMA NoCallPays ==
    /\ call = NoCall /\ inputs = <<>> /\ fee = 0 /\ round = 0 /\ result = "none" => PayInv
  <1> SUFFICES ASSUME call = NoCall, inputs = <<>>, fee = 0, round = 0, result = "none"
               PROVE  PayInv
    OBVIOUS
  <1>1. Sum(inputs) = 0
    BY SumOfNone
  <1> QED BY <1>1, CreateAssumption DEF PayInv, Typed, NoCall, Ended

LEMMA PayStep == PayInv /\ [CreateNext]_create_vars => PayInv'
  <1> SUFFICES ASSUME PayInv, [CreateNext]_create_vars
               PROVE  PayInv'
    OBVIOUS
  <1>1. CASE UNCHANGED create_vars
    <2>1. /\ Size(1)' = Size(1) /\ Size(2)' = Size(2) /\ Sum(inputs)' = Sum(inputs)
          /\ First' = First
      BY <1>1 DEF Size, create_vars, First
    <2>2. Charged' = Charged /\ Typed' = Typed /\ InRange' = InRange
      BY <1>1, <2>1 DEF Charged, Typed, InRange, create_vars
    <2> QED BY <1>1, <2>1, <2>2 DEF PayInv, create_vars
  <1>2. CASE \E a \in Amounts, r \in Rates, g \in BOOLEAN : Create(a, r, g)
    BY <1>2, CreatePays
  <1>3. CASE Return
    <2>1. (call = NoCall /\ inputs = <<>> /\ fee = 0 /\ round = 0 /\ result = "none")'
      BY <1>3 DEF Return
    <2> QED BY <2>1, NoCallPays, PTL
  <1> QED BY <1>1, <1>2, <1>3, RoundPays, FinishPays DEF CreateNext

\* What a made transaction pays, in terms of the change.
LEMMA Pays ==
    ASSUME Typed, Change \in Nat
    PROVE  \/ FeePaid = Sum(inputs) - (call.amount + Change)
           \/ FeePaid = Sum(inputs) - call.amount /\ Change <= Dust
  <1>1. call.amount \in Nat /\ Dust \in Nat
    BY CreateAssumption DEF Typed
  <1>2. CASE Change > Dust \/ call.change_addr
    <2>1. TxOutputs = <<call.amount, Change>>
      BY <1>2 DEF TxOutputs
    <2>2. Sum(TxOutputs) = call.amount + Change
      BY <1>1, <2>1, SumOfOutputs
    <2> QED BY <2>2 DEF FeePaid
  <1>3. CASE ~(Change > Dust \/ call.change_addr)
    <2>1. TxOutputs = <<call.amount>>
      BY <1>3 DEF TxOutputs
    <2>2. Sum(TxOutputs) = call.amount
      BY <1>1, <2>1, SumOfOutputs
    <2> QED BY <1>1, <1>3, <2>2 DEF FeePaid
  <1> QED BY <1>2, <1>3

\* What create_tx makes pays its fee, and at most the dust beyond it, exactly
\* when amount and fee together are below 2^64; where the largest fee is in
\* range it pays the rate for one output to 19 units, and what is refused could
\* not be paid with change (main.rs 1443-1513).  For every amount and rate of
\* 64 bits, and every set of outputs whose values sum up to less than 2^64.
THEOREM PaymentAlwaysSound == CreateSpec => []PaymentSound
  <1>1. CreateInit => PayInv
    BY NoCallPays DEF CreateInit
  <1>2. ASSUME PayInv
        PROVE  PaymentSound
    <2> DEFINE I == Sum(inputs)
               a == call.amount
               W == Word
    <2>0. Typed
      BY <1>2 DEF PayInv
    <2>1. /\ I \in Nat /\ I < W /\ a \in Nat /\ fee \in Nat /\ fee < W
          /\ W \in Nat \ {0} /\ Dust \in Nat /\ Dust < W
      BY <2>0, CreateAssumption DEF Typed
    <2>2. Change = ((I - a) - fee) % W
      BY DEF Change
    <2>3. InRange /\ result # "none" => a + fee < W /\ fee <= call.fee_rate * Size(2)
      <3> SUFFICES ASSUME InRange, result # "none"
                   PROVE  a + fee < W /\ fee <= call.fee_rate * Size(2)
        OBVIOUS
      <3>1. fee <= call.fee_rate * Size(2)
        BY <1>2 DEF PayInv, Charged
      <3>2. call.fee_rate * Size(2) \in Nat /\ a + call.fee_rate * Size(2) < W
        BY <2>0, Fees DEF InRange
      <3> HIDE DEF a, W
      <3> QED BY <2>1, <3>1, <3>2
    <2>4. ASSUME result = "made"
          PROVE  (FeePaid >= fee <=> a + fee < W) /\ FeePaid <= fee + Dust
      <3>1. I >= a /\ I >= (a + fee) % W
        BY <1>2, <2>4 DEF PayInv, Ended
      <3>2. CASE a + fee < W
        <4>1. (a + fee) % W = a + fee
          <5> HIDE DEF a, W
          <5>1. a + fee \in Nat
            BY <2>1
          <5> QED BY <2>1, <3>2, <5>1, Remainder
        <4>2. (I - a) - fee \in Nat /\ (I - a) - fee < W
          <5> HIDE DEF a, W, I
          <5> QED BY ONLY <2>1, <3>1, <4>1
        <4>3. Change = (I - a) - fee /\ Change \in Nat
          <5> HIDE DEF a, W, I
          <5> QED BY <2>1, <2>2, <4>2, Remainder
        <4>4. FeePaid = I - (a + Change) \/ (FeePaid = I - a /\ Change <= Dust)
          BY <2>0, <4>3, Pays
        <4> HIDE DEF a, W, I
        <4> QED BY ONLY <2>1, <3>2, <4>3, <4>4
      <3>3. CASE ~(a + fee < W)
        <4>1. (I - a) - fee \in Int /\ (I - a) - fee < 0 /\ 0 <= ((I - a) - fee) + W
          <5> HIDE DEF a, W, I
          <5> QED BY ONLY <2>1, <3>1, <3>3
        <4>2. Change = ((I - a) - fee) + W /\ Change \in Nat
          <5> HIDE DEF a, W, I
          <5>1. Change = ((I - a) - fee) + W
            BY <2>1, <2>2, <4>1, NegativeRemainder
          <5> QED BY ONLY <2>1, <4>1, <5>1
        <4>3. FeePaid = I - (a + Change) \/ (FeePaid = I - a /\ Change <= Dust)
          BY <2>0, <4>2, Pays
        <4> HIDE DEF a, W, I
        <4> QED BY ONLY <2>1, <3>3, <4>2, <4>3
      <3> QED BY <3>2, <3>3
    <2>5. Conserves
      BY <2>4 DEF Conserves
    <2>6. FeeNearRate
      <3> SUFFICES ASSUME result = "made", InRange
                   PROVE  FeePaid >= call.fee_rate * Size(1) - 19
        BY DEF FeeNearRate
      <3>1. FeePaid >= fee /\ FeePaid \in Int
        <4>1. FeePaid >= fee
          BY <2>3, <2>4
        <4>2. Sum(TxOutputs) \in Nat
          <5>1. Change \in Nat
            <6>1. (I - a) - fee \in Int
              BY <2>1
            <6> QED BY <2>1, <2>2, <6>1, RemainderType
          <5> QED BY <2>1, <5>1, SumOfOutputs DEF TxOutputs
        <4> QED BY <2>1, <4>1, <4>2 DEF FeePaid
      <3>2. fee >= call.fee_rate * Size(1) - 19
        BY <1>2 DEF PayInv, Ended
      <3>3. call.fee_rate * Size(1) \in Nat
        BY <2>0, Fees
      <3> QED BY <2>1, <3>1, <3>2, <3>3
    <2>7. InsufficientForTwo
      <3> SUFFICES ASSUME result = "Insufficient funds (fees included)", InRange
                   PROVE  I < a + call.fee_rate * Size(2)
        BY DEF InsufficientForTwo
      <3>1. I < (a + fee) % W /\ a + fee < W /\ fee <= call.fee_rate * Size(2)
        BY <1>2, <2>3 DEF PayInv, Ended
      <3>2. call.fee_rate * Size(2) \in Nat
        BY <2>0, Fees
      <3> HIDE DEF a, W, I
      <3>3. a + fee \in Nat
        BY ONLY <2>1
      <3>4. (a + fee) % W = a + fee
        BY ONLY <2>1, <3>1, <3>3, Remainder
      <3> QED BY ONLY <2>1, <3>1, <3>2, <3>4
    <2> QED BY <2>5, <2>6, <2>7 DEF PaymentSound
  <1> QED BY <1>1, <1>2, PayStep, PTL DEF CreateSpec
=============================================================================
