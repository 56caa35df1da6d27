----------------------------- MODULE WalletApp -----------------------------
(***************************************************************************)
(* The graphical wallet, LyrionWalletApp (main.rs 855-1266): its screens,  *)
(* the password and the seed, the encrypted file, and the two background   *)
(* tasks whose promises update looks at in every frame.                    *)
(*                                                                         *)
(* update runs once per frame, with at most one input of the user.  It is  *)
(* the composition of the steps below on the fields of the application, in *)
(* the order of the code.  eframe calls save from time to time and when    *)
(* the window closes.  The screen RestoreWallet is never entered.          *)
(***************************************************************************)
EXTENDS Naturals, FiniteSetsExt

CONSTANTS
    Passwords,   \* what the user types; NoPassword is the empty string
    NoPassword,
    GapLimit,         \* gap limit of a scan (20)
    MaxUsed,     \* bound on the indices of the addresses with activity
    MaxPhrase,   \* bound on the phrases that are generated
    MaxIndex     \* bound on the indices

ASSUME WalletAssumption ==
    /\ NoPassword \notin Passwords
    /\ {GapLimit, MaxUsed, MaxPhrase, MaxIndex} \subseteq Nat

NoSeed == 0   \* seeds and phrases are numbered by their generation

\* WALLET_FILE: absent, cut short by a write that did not end, or whole.
NoFile == [kind |-> "none", password |-> NoPassword, seed |-> NoSeed]
CutFile == [kind |-> "cut", password |-> NoPassword, seed |-> NoSeed]
Whole(password, seed) == [kind |-> "whole", password |-> password, seed |-> seed]

VARIABLES
    app,      \* the fields of LyrionWalletApp
    file,     \* WALLET_FILE: the seed and the password it is encrypted with
    phrases,  \* phrases generated so far
    used,     \* indices of the receive addresses with activity in the database
    paid,     \* history: a payment has been shown as done
    past      \* history of the secrets: chosen[s], the password that the seed s
              \* was confirmed with; kept, the first seed that was written whole;
              \* unread, a start could not read a file that is there;
              \* locked_save, a save came while the wallet was locked

vars == <<app, file, phrases, used, paid, past>>

Inputs == {"none", "new", "lock", "receive", "send_tab", "history", "refresh",
           "new_address", "type", "send"}

\* scan_chain: the first index with GapLimit indices without activity before it,
\* and the addresses with activity below it.
ScanIndex(active) ==
    Min({n \in GapLimit .. (MaxUsed + 1 + GapLimit) : ((n - GapLimit) .. (n - 1)) \cap active = {}})
ScanFound(active) == {i \in active : i < ScanIndex(active)}

\* Slip: a file that does not decrypt is taken for none.
StartedByContents(f, read) ==
    [screen |-> IF f.kind # "whole" \/ ~read THEN "CreateWallet" ELSE "SetupPassword",
     password |-> NoPassword, mnemonic |-> NoSeed, seed |-> NoSeed,
     scan |-> "none", send |-> "none", found |-> {}, addresses |-> {},
     receive_index |-> 0, change_index |-> 0,
     tab |-> "receive", amount |-> FALSE, error |-> FALSE]

\* LyrionWalletApp::new asks whether the file can be read, not what it holds.
Started(f, read) ==
    [screen |-> IF f = NoFile \/ ~read THEN "CreateWallet" ELSE "SetupPassword",
     password |-> NoPassword, mnemonic |-> NoSeed, seed |-> NoSeed,
     scan |-> "none", send |-> "none", found |-> {}, addresses |-> {},
     receive_index |-> 0, change_index |-> 0,
     tab |-> "receive", amount |-> FALSE, error |-> FALSE]

Init ==
    /\ file = NoFile /\ app = Started(file, TRUE)
    /\ phrases = 0 /\ used = {} /\ paid = FALSE
    /\ past = [chosen |-> [s \in 1 .. MaxPhrase |-> NoPassword], kept |-> NoSeed,
               unread |-> FALSE, locked_save |-> FALSE]

-----------------------------------------------------------------------------
(* The steps of update *)

\* The menu, on every screen.
Menu(a, in) ==
    IF in = "new" THEN [a EXCEPT !.receive_index = @ + 1]
    ELSE IF in = "lock"
    THEN [a EXCEPT !.screen = "SetupPassword", !.password = NoPassword]
    ELSE a

\* The end of a successful unlock or confirmation.
Opened(a, password, seed) ==
    [a EXCEPT !.password = password, !.seed = seed, !.scan = "running",
              !.screen = "Main"]

\* Refresh, and the reconnection with a rescan.
Rescan(a, in) == IF in = "refresh" THEN [a EXCEPT !.scan = "running"] ELSE a

\* A scan that is ready is applied in every frame: the promise stays.
ApplyScan(a) ==
    CASE a.scan = "ok" -> [a EXCEPT !.addresses = a.found,
                                    !.receive_index = ScanIndex(a.found),
                                    !.change_index = GapLimit]
      [] a.scan = "err" -> [a EXCEPT !.error = TRUE]
      [] OTHER -> a

SelectTab(a, in) ==
    CASE in = "receive" -> [a EXCEPT !.tab = "receive"]
      [] in = "send_tab" -> [a EXCEPT !.tab = "send"]
      [] in = "history" -> [a EXCEPT !.tab = "history"]
      [] OTHER -> a

Receive(a, in) ==
    IF in = "new_address" THEN [a EXCEPT !.receive_index = @ + 1] ELSE a

\* The tab Send: the form, the button, and the result of the last payment.
Form(a, in) == IF in = "type" THEN [a EXCEPT !.amount = TRUE] ELSE a

Button(a, in) ==
    IF in = "send" /\ a.amount THEN [a EXCEPT !.send = "running"]
                               ELSE [a EXCEPT !.error = TRUE]

\* Slip: the promise is taken when its result has been handled.
PaymentTaken(a) ==
    IF a.send \in {"ok", "ok_change"}
    THEN [a EXCEPT !.change_index = IF a.send = "ok_change" THEN @ + 1 ELSE @,
                   !.scan = "running", !.send = "none"]
    ELSE a

\* A payment that is ready is handled in every frame: the promise stays.
Payment(a) ==
    IF a.send \in {"ok", "ok_change"}
    THEN [a EXCEPT !.change_index = IF a.send = "ok_change" THEN @ + 1 ELSE @,
                   !.amount = FALSE, !.scan = "running"]
    ELSE a

\* The screen Main.
Main(a, in) ==
    LET b == ApplyScan(Rescan(SelectTab(a, in), in))
    IN CASE b.tab = "receive" -> Receive(b, in)
         [] b.tab = "send" -> Payment(Button(Form(b, in), in))
         [] OTHER -> b

-----------------------------------------------------------------------------
(* Frames *)

Bounded(a) == a.receive_index <= MaxIndex /\ a.change_index <= MaxIndex

\* A frame on the screen Main, or one in which the menu leaves it.
MainFrame(in) ==
    /\ app.screen = "Main"
    /\ LET a == Menu(app, in)
       IN app' = IF a.screen = "Main" THEN Main(a, in) ELSE a
    /\ Bounded(app')
    /\ paid' = (paid \/ (app'.screen = "Main" /\ app'.tab = "send"
                           /\ app.send \in {"ok", "ok_change"}
                           /\ app'.send # "running"))
    /\ UNCHANGED <<file, phrases, used, past>>

\* decrypt_wallet
Decrypts(password) == file.kind = "whole" /\ file.password = password

\* Slip: the password is kept before the file is decrypted with it.
UnlockKeepsTyped(password) ==
    /\ app.screen = "SetupPassword"
    /\ \/ Decrypts(password) /\ app' = Opened(app, password, file.seed)
       \/ /\ file # NoFile /\ ~Decrypts(password)
          /\ app' = [app EXCEPT !.error = TRUE, !.password = password]
       \/ UNCHANGED app
    /\ UNCHANGED <<file, phrases, used, paid, past>>

\* The screen SetupPassword, with a click on Unlock; nothing happens when the
\* file cannot be read.
Unlock(password) ==
    /\ app.screen = "SetupPassword"
    /\ \/ Decrypts(password) /\ app' = Opened(app, password, file.seed)
       \/ file # NoFile /\ ~Decrypts(password) /\ app' = [app EXCEPT !.error = TRUE]
       \/ UNCHANGED app
    /\ UNCHANGED <<file, phrases, used, paid, past>>

\* A frame of CreateWallet: a new phrase is generated and shown, and a
\* confirmation takes the phrase of its own frame.
CreateFrame(in, confirmed, password) ==
    /\ app.screen = "CreateWallet" /\ in # "lock" /\ phrases < MaxPhrase
    /\ phrases' = phrases + 1
    /\ LET a == [Menu(app, in) EXCEPT !.mnemonic = phrases']
       IN app' = IF confirmed THEN Opened(a, password, a.mnemonic) ELSE a
    /\ Bounded(app')
    /\ past' = IF confirmed THEN [past EXCEPT !.chosen[phrases'] = password] ELSE past
    /\ UNCHANGED <<file, used, paid>>

\* The menu of SetupPassword, or Lock in CreateWallet.
MenuFrame(in) ==
    /\ \/ app.screen = "SetupPassword" /\ in \in {"new", "lock"}
       \/ app.screen = "CreateWallet" /\ in = "lock"
    /\ app' = Menu(app, in) /\ Bounded(app')
    /\ UNCHANGED <<file, phrases, used, paid, past>>

-----------------------------------------------------------------------------
(* Background tasks, the file and the process *)

ScanDone ==
    /\ app.scan = "running"
    /\ \/ app' = [app EXCEPT !.scan = "ok", !.found = ScanFound(used)]
       \/ app' = [app EXCEPT !.scan = "err"]
    /\ UNCHANGED <<file, phrases, used, paid, past>>

SendDone ==
    /\ app.send = "running"
    /\ \E r \in {"ok", "ok_change", "err"} : app' = [app EXCEPT !.send = r]
    /\ UNCHANGED <<file, phrases, used, paid, past>>

Activity ==
    /\ \E i \in (0 .. MaxUsed) \ used : used' = used \cup {i}
    /\ UNCHANGED <<app, file, phrases, paid, past>>

\* save, called by eframe: encrypt_wallet unwraps the seed.  std::fs::write cuts
\* the file before it writes: it fails before that, in the middle, or not at all.
Save ==
    /\ app.screen # "crashed"
    /\ \/ /\ app.seed = NoSeed
          /\ app' = [app EXCEPT !.screen = "crashed"] /\ UNCHANGED <<file, past>>
       \/ /\ app.seed # NoSeed
          /\ file' \in {file, CutFile, Whole(app.password, app.seed)}
          /\ past' = [past EXCEPT
                 !.kept = IF @ = NoSeed /\ file'.kind = "whole" THEN file'.seed ELSE @,
                 !.locked_save = @ \/ app.screen = "SetupPassword"]
          /\ UNCHANGED app
    /\ UNCHANGED <<phrases, used, paid>>

\* The process ends and is started again; the file can be read or not.
Restart(read) ==
    /\ app' = Started(file, read)
    /\ paid' = FALSE
    /\ past' = [past EXCEPT !.unread = @ \/ (file # NoFile /\ ~read)]
    /\ UNCHANGED <<file, phrases, used>>

Next ==
    \/ \E in \in Inputs : MainFrame(in) \/ MenuFrame(in)
    \/ \E p \in Passwords \cup {NoPassword} : Unlock(p)
    \/ \E in \in {"none", "new"} : CreateFrame(in, FALSE, NoPassword)
    \/ \E p \in Passwords : CreateFrame("none", TRUE, p)
    \/ ScanDone \/ SendDone \/ Activity \/ Save
    \/ \E read \in BOOLEAN : Restart(read)

Spec == Init /\ [][Next]_vars

-----------------------------------------------------------------------------
(* Properties *)

\* On the screen Main there is a seed: the unwraps of Refresh, rescan and of
\* a finished payment (1105, 1129, 1220) and expect("Wallet locked") do not
\* panic, whatever order of locks, saves and restarts led there.
MainHasSeed == app.screen = "Main" => app.seed # NoSeed

\* The file opens with the password that its seed was confirmed with.  The one
\* exception is the empty password, which the confirmation refuses (1061), and
\* only after a save that came while the wallet was locked: 997 clears the
\* password and keeps the seed, 987 encrypts with what is there.  It is never
\* another password that was typed, or the one of another seed.
PasswordOrEmpty ==
    file.kind = "whole" =>
      \/ file.password = past.chosen[file.seed]
      \/ file.password = NoPassword /\ past.locked_save

\* The application has the seed whenever it needs it, and the file opens with
\* a password that the user may know, after any sequence of inputs.
SecretsKept == MainHasSeed /\ PasswordOrEmpty

\* A whole file holds the seed that was written first: no unlock, lock, save or
\* restart replaces it, although a save that fails can destroy it (989), for a
\* file that is cut still leads to SetupPassword (930).  The exception is a start
\* that cannot read the file: it leads to CreateWallet, and the next save
\* replaces the wallet.
FileKeepsSeed == file.kind = "whole" => file.seed = past.kept \/ past.unread

\* After the tab Send has shown a payment no other one is started before the
\* application is restarted: the promise is never taken, and every frame
\* clears the form (1209-1218).
OnePayment == [][(paid /\ app.send # "running" /\ paid')
                   => app'.send # "running"]_vars
=============================================================================
