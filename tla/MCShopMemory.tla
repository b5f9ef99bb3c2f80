---------------------------- MODULE MCShopMemory ----------------------------
(***************************************************************************)
(* A shop that sells two kinds of atta: three tool calls write its         *)
(* Preferences and its Shop Profile, add a Product that is there already   *)
(* and search for one.                                                     *)
(***************************************************************************)
EXTENDS ShopMemory

CONSTANTS c1, c2, c3, Null

Symmetry == Permutations({c1, c2, c3})

SomeProducts ==
  << [name |-> "Aashirvaad Atta", brand |-> "Aashirvaad", barcode |-> "8901", aliases |-> {"gehu"}],
     [name |-> "Loose Atta", brand |-> Null, barcode |-> Null, aliases |-> {}] >>

\* The scores of the queries below are apart by nothing, the delta, one more
\* than the delta, and by a Product that is under the threshold.
Scores(atta, delta, clear, soap) ==
  [query \in {"atta", "atta loose", "loose", "soap"} |->
     CASE query = "atta" -> atta [] query = "atta loose" -> delta
       [] query = "loose" -> clear [] OTHER -> soap]

SomeSimilarity ==
  [label \in {"Aashirvaad Atta", "Aashirvaad", "gehu", "Loose Atta"} |->
     CASE label = "Aashirvaad Atta" -> Scores(600, 620, 249, 0)
       [] label = "Loose Atta"      -> Scores(600, 700, 900, 0)
       [] label = "Aashirvaad"      -> Scores(0, 0, 0, 0)
       [] OTHER                     -> Scores(619, 0, 0, 100)]

SomeCollation == [name \in {"Aashirvaad Atta", "Loose Atta"} |-> IF name = "Loose Atta" THEN 2 ELSE 1]

SomeLowerCase ==
  [word \in {"", "-", "UPI", "upi", "gold", "Monday", "monday", "thurs", "Funday", "funday"}
             \cup DOMAIN WeekdayAliases |->
     CASE word = "UPI" -> "upi" [] word = "Monday" -> "monday" [] word = "Funday" -> "funday"
       [] OTHER -> word]

SomeUpperColor == [color \in {"#ffaa00"} |-> "#FFAA00"]

Set(key, word, numbers) ==
  [op |-> "set_preference", key |-> key, text |-> [word |-> word, numbers |-> numbers]]

SetProfile(name, logo, accent) ==
  [op |-> "set_shop_profile", name |-> name, gstin |-> name, logo |-> logo, accent |-> accent]

SomePreferences ==
  { Set("default_payment_mode", "UPI", <<>>),
    Set("default_payment_mode", "gold", <<>>),
    Set("weekly_analysis_deck_schedule", "Monday", << <<9>>, <<0, 5>> >>),
    Set("weekly_analysis_deck_schedule", "thurs", << <<2, 3>>, <<5, 9>> >>),
    Set("weekly_analysis_deck_schedule", "Funday", << <<9>>, <<0, 0>> >>),
    Set("khata_reminder_schedule", "", << <<7>>, <<3, 0>> >>),
    Set("khata_reminder_schedule", "", << <<2, 4>>, <<0, 0>> >>),
    Set("khata_reminder_threshold_paise", "", << <<0, 5, 0, 0>> >>),
    Set("khata_reminder_threshold_paise", "", << <<0>> >>),
    Set("khata_reminder_threshold_paise", "-", << <<5>> >>),
    Set("preferred_product:atta", "", << <<0, 2>> >>),
    Set("preferred_product:atta", "", << <<3>> >>),
    Set("theme", "", << <<1>> >>) }

SomeProfiles ==
  { SetProfile("Sharma", "unset", "unset"),
    SetProfile("Sharma", "logo", "#ffaa00"),
    SetProfile("Gupta", "", "unset"),
    SetProfile("Gupta", "unset", "red"),
    SetProfile("", "logo", "unset") }

Searches ==
  { [op |-> "find_product", query |-> query] : query \in {"atta", "atta loose", "loose", "soap"} }
  \cup { [op |-> "scan_barcode", barcode |-> barcode] : barcode \in {"8901", "4006", Null} }
  \cup { [op |-> "prepare_photo_product", product |-> id, confirm |-> confirm] :
           id \in {2, 3}, confirm \in BOOLEAN }

SomeRequests ==
  SomePreferences \cup SomeProfiles \cup Searches
  \cup { [op |-> "add_product", name |-> "Loose Atta", brand |-> Null],
         [op |-> "standing_memory"] }
=============================================================================
