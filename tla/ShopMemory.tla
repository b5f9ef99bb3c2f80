----------------------------- MODULE ShopMemory -----------------------------
(***************************************************************************)
(* What the shop has told the bot: Products (add_product), Preferences     *)
(* (domain/preferences.py) and the Shop Profile (domain/shop_profile.py)   *)
(* of one Owner, written by concurrent tool calls, and the standing memory *)
(* that each turn of the agent begins with (harness.py).                   *)
(*                                                                         *)
(* A text is its word and its numbers, a number is its digits as typed:    *)
(* "Monday 9:05" is [word |-> "Monday", numbers |-> <<<<9>>, <<0, 5>>>>].  *)
(***************************************************************************)
EXTENDS Catalogue

CONSTANTS
  Calls,          \* tool calls
  Requests,       \* what is asked of them
  SeedProducts,
  LowerCase,      \* str.lower, by word
  UpperColor      \* str.upper, by the colors that match ACCENT_COLOR_PATTERN

PaymentModes == {"cash", "upi", "card", "khata"}
NumberKeys   == {"khata_reminder_threshold_paise", "owner_chat_id"}
\* One query for which a preferred Product is kept stands for all of them.
Keys == NumberKeys \cup {"default_payment_mode", "preferred_product:atta",
                         "weekly_analysis_deck_schedule", "khata_reminder_schedule"}

VARIABLES
  products,
  prefs,      \* the text stored under a key, {} if there is no row
  profile,    \* the Shop Profile, {} if there is no row
  call,       \* tool calls in flight and their answers
  meant,      \* history: what the Owner meant by each Preference
  asked,      \* history: the Shop Profile after the calls that committed
  mixed       \* history: two set_shop_profile calls have overlapped

tables == <<products, prefs, profile>>
history == <<meant, asked, mixed>>
vars == <<tables, call, history>>

-----------------------------------------------------------------------------
(* Texts.  A parser returns what the text means, or {} where it raises.      *)

Number(digits) ==
  LET value[i \in 0..Len(digits)] == IF i = 0 THEN 0 ELSE 10 * value[i - 1] + digits[i]
  IN  value[Len(digits)]

TwoDigits(n)    == <<n \div 10, n % 10>>
NoZeros(digits) ==
  LET zeros == {i \in DOMAIN digits : i < Len(digits) /\ \A j \in 1..i : digits[j] = 0}
  IN  SubSeq(digits, Max({0} \cup zeros) + 1, Len(digits))

WeekdayAliases ==
  [mon |-> {"mon", "monday"}, tue |-> {"tue", "tues", "tuesday"}, wed |-> {"wed", "wednesday"},
   thu |-> {"thu", "thur", "thurs", "thursday"}, fri |-> {"fri", "friday"},
   sat |-> {"sat", "saturday"}, sun |-> {"sun", "sunday"}]

Weekday(word) == {day \in DOMAIN WeekdayAliases : LowerCase[word] \in WeekdayAliases[day]}

\* \d{1,2}:\d{2}
Time(text) ==
  IF Len(text.numbers) # 2 \/ Len(text.numbers[1]) \notin 1..2 \/ Len(text.numbers[2]) # 2 THEN {}
  ELSE {time \in {<<Number(text.numbers[1]), Number(text.numbers[2])>>} :
          time[1] <= 23 /\ time[2] <= 59}

ParseDaily(text)  == IF text.word = "" THEN Time(text) ELSE {}
ParseWeekly(text) == {[day |-> day, time |-> time] : day \in Weekday(text.word), time \in Time(text)}

ParseMode(text) ==
  IF text.numbers = <<>> THEN {LowerCase[text.word]} \cap PaymentModes ELSE {}

\* str.isdigit; a minus sign is a word
ParseNumber(text) ==
  IF text.word = "" /\ Len(text.numbers) = 1 THEN {Number(text.numbers[1])} ELSE {}

Parse(key, text) ==
  CASE key = "default_payment_mode"          -> ParseMode(text)
    [] key = "weekly_analysis_deck_schedule" -> ParseWeekly(text)
    [] key = "khata_reminder_schedule"       -> ParseDaily(text)
    [] key = "preferred_product:atta"        -> ParseNumber(text) \cap DOMAIN products
    [] key \in NumberKeys                    -> ParseNumber(text)
    [] OTHER                                 -> {}

TimeNumbers(time) == <<TwoDigits(time[1]), TwoDigits(time[2])>>

\* (mutant) The time is stored without leading zeros.
CanonicalUnpadded(key, text) ==
  CASE key = "default_payment_mode" -> [text EXCEPT !.word = LowerCase[@]]
    [] key \in {"weekly_analysis_deck_schedule", "khata_reminder_schedule"} ->
         [text EXCEPT !.numbers = <<NoZeros(@[1]), NoZeros(@[2])>>]
    [] OTHER -> text

\* What set_preference stores of a text it accepts.
Canonical(key, text) ==
  CASE key = "default_payment_mode" -> [text EXCEPT !.word = LowerCase[@]]
    [] key = "weekly_analysis_deck_schedule" ->
         LET parsed == CHOOSE p \in ParseWeekly(text) : TRUE
         IN  [word |-> parsed.day, numbers |-> TimeNumbers(parsed.time)]
    [] key = "khata_reminder_schedule" ->
         [text EXCEPT !.numbers = TimeNumbers(CHOOSE time \in ParseDaily(text) : TRUE)]
    [] key = "khata_reminder_threshold_paise" -> [text EXCEPT !.numbers[1] = NoZeros(@)]
    [] OTHER -> text

-----------------------------------------------------------------------------
\* How a shop may be set up and asked.  Words are closed under str.lower, which
\* leaves the names of the weekdays alone; barcode is unique (013_product_barcode);
\* a similarity is between 0 and 1.
Tools == {"set_preference", "set_shop_profile", "add_product", "find_product",
          "scan_barcode", "prepare_photo_product", "standing_memory"}

Asking(op) == {request \in Requests : request.op = op}

KnownProducts ==
  Range(SeedProducts) \cup {NewProduct(request.name, request.brand) : request \in Asking("add_product")}

ASSUME ShopMemoryAssumption ==
  /\ \A request \in Requests : request.op \in Tools
  /\ \A word \in DOMAIN LowerCase :
       LowerCase[word] \in DOMAIN LowerCase /\ LowerCase[LowerCase[word]] = LowerCase[word]
  /\ \A day \in DOMAIN WeekdayAliases : day \in DOMAIN LowerCase /\ LowerCase[day] = day
  /\ \A request \in Asking("set_preference") :
       request.text \in [word : DOMAIN LowerCase, numbers : Seq(Seq(0..9))]
  /\ SeedProducts \in Seq(Range(SeedProducts))
  /\ \A i, j \in DOMAIN SeedProducts :
       SeedProducts[i].barcode = SeedProducts[j].barcode => i = j \/ SeedProducts[i].barcode = NoLabel
  /\ \A product \in KnownProducts : \A request \in Asking("find_product") :
       \A label \in Labels(product) \ {NoLabel} : Similarity[label][request.query] \in 0..MaxSimilarity

-----------------------------------------------------------------------------
(* Calls: one statement is one step.                                         *)

NoRequest == [op |-> "none"]
AtRest    == [pc |-> "idle", request |-> NoRequest, loaded |-> {}, answer |-> {}]

InFlight(op) == {c \in Calls : call[c].pc = "write" /\ call[c].request.op = op}

Becomes(c, pc, request, loaded, answer) ==
  call' = [call EXCEPT ![c] =
             [pc |-> pc, request |-> request, loaded |-> loaded, answer |-> answer]]

Answer(c, answer) == Becomes(c, "done", call[c].request, {}, {answer})
Load(c, pc, rows) == Becomes(c, pc, call[c].request, rows, {})

Begin(c, request) ==
  /\ call[c].pc = "idle"
  /\ Becomes(c, request.op, request, {}, {})
  /\ UNCHANGED <<tables, history>>

\* set_preference: validation, then the SELECT of the row
LoadPreference(c) ==
  LET r == call[c].request IN
  /\ call[c].pc = "set_preference"
  /\ IF Parse(r.key, r.text) = {} THEN Answer(c, Refused)
     ELSE Load(c, "write", prefs[r.key])
  /\ UNCHANGED <<tables, history>>

\* An insert of a row that is there by now fails on the primary key.
Collides(loaded, row) == loaded = {} /\ row # {}

\* (mutant) The key is not unique: the second insert stays too.
RowsUnkeyed(loaded, row, text) ==
  IF loaded = {} THEN row \cup {text} ELSE IF loaded = {text} THEN row ELSE {text}

\* An update is sent only if the text is not the one that was loaded.
Rows(loaded, row, text) ==
  IF Collides(loaded, row) \/ loaded = {text} THEN row ELSE {text}

WritePreference(c) ==
  LET r == call[c].request
      loaded == call[c].loaded
      text == Canonical(r.key, r.text)
      fails == Collides(loaded, prefs[r.key])
  IN
  /\ call[c].pc = "write" /\ r.op = "set_preference"
  /\ Answer(c, IF fails THEN [status |-> "failed"] ELSE [status |-> "ok"])
  /\ prefs' = [prefs EXCEPT ![r.key] = Rows(loaded, @, text)]
  /\ meant' = IF fails \/ loaded = {text} THEN meant
              ELSE [meant EXCEPT ![r.key] = Parse(r.key, r.text)]
  /\ UNCHANGED <<products, profile, asked, mixed>>

\* set_shop_profile: a blank name or a color that is none is refused.
InvalidProfile(r) ==
  r.name = "" \/ (r.accent \notin {"unset", ""} /\ r.accent \notin DOMAIN UpperColor)

LoadProfile(c) ==
  LET r == call[c].request IN
  /\ call[c].pc = "set_shop_profile"
  /\ IF InvalidProfile(r) THEN Answer(c, Refused) /\ mixed' = mixed
     ELSE /\ Load(c, "write", profile)
          /\ mixed' = (mixed \/ InFlight("set_shop_profile") # {})
  /\ UNCHANGED <<tables, meant, asked>>

NoProfile == [name |-> "", gstin |-> "", logo |-> "", accent |-> ""]

RowOf(rows) == IF rows = {} THEN NoProfile ELSE CHOOSE row \in rows : TRUE

\* (mutant) Branding that is not mentioned is cleared.
ApplyAll(r, old) ==
  [name   |-> r.name, gstin |-> r.gstin,
   logo   |-> IF r.logo = "unset" THEN "" ELSE r.logo,
   accent |-> IF r.accent \in {"unset", ""} THEN "" ELSE UpperColor[r.accent]]

\* Name, address and GSTIN (which stands for both) are replaced, branding only
\* if it was given; "" is NULL.
Apply(r, old) ==
  [name   |-> r.name, gstin |-> r.gstin,
   logo   |-> IF r.logo = "unset" THEN old.logo ELSE r.logo,
   accent |-> IF r.accent = "unset" THEN old.accent
              ELSE IF r.accent = "" THEN "" ELSE UpperColor[r.accent]]

\* Only the columns that differ from the row it loaded are in its UPDATE.
Changed(new, loaded, row) ==
  [column \in DOMAIN row |-> IF new[column] = loaded[column] THEN row[column] ELSE new[column]]

\* What the Owner asks for, given the Profile of the moment: a reference for
\* Apply that the code does not have.
AskedFor(r, old) ==
  [name |-> r.name, gstin |-> r.gstin,
   logo |-> IF r.logo = "unset" THEN old.logo ELSE r.logo,
   accent |-> CASE r.accent = "unset" -> old.accent
                [] r.accent = ""      -> ""
                [] OTHER              -> UpperColor[r.accent]]

WriteProfile(c) ==
  LET r == call[c].request
      loaded   == RowOf(call[c].loaded)
      new      == Apply(r, loaded)
      collides == Collides(call[c].loaded, profile)
  IN
  /\ call[c].pc = "write" /\ r.op = "set_shop_profile"
  /\ Answer(c, IF collides THEN [status |-> "failed"] ELSE [status |-> "ok"])
  /\ profile' = CASE collides -> profile
                  [] call[c].loaded = {} /\ profile = {} -> {new}
                  [] call[c].loaded # {} -> {Changed(new, loaded, RowOf(profile))}
  /\ asked' = IF collides THEN asked ELSE AskedFor(r, asked)
  /\ UNCHANGED <<products, prefs, meant, mixed>>

\* Two calls that add one Product add two.
AddProduct(c) ==
  LET r == call[c].request IN
  /\ call[c].pc = "add_product"
  /\ products' = Append(products, NewProduct(r.name, r.brand))
  /\ Answer(c, [status |-> "ok", candidates |-> <<Len(products) + 1>>])
  /\ UNCHANGED <<prefs, profile, history>>

\* history: how many Products there were
Found(c, op, answer) ==
  /\ call[c].pc = op
  /\ Answer(c, [status |-> answer.status, candidates |-> answer.candidates,
                among |-> Len(products)])
  /\ UNCHANGED <<tables, history>>

FindProductCall(c) ==
  /\ call[c].pc = "find_product"
  /\ \E answer \in FindProduct(products, call[c].request.query) : Found(c, "find_product", answer)
ScanBarcodeCall(c) ==
  Found(c, "scan_barcode", ScanBarcode(products, call[c].request.barcode))
PreparePhotoCall(c) ==
  Found(c, "prepare_photo_product",
        PreparePhoto(products, call[c].request.product, call[c].request.confirm))

\* render_standing_memory: the Preferences, then the Profile and the name of each
\* preferred Product (Products are never deleted)
ListPreferences(c) ==
  /\ call[c].pc = "standing_memory"
  /\ Load(c, "memory_profile", {prefs})
  /\ UNCHANGED <<tables, history>>

\* {} is "unknown"
NameOf(id) == IF id \in DOMAIN products THEN {products[id].name} ELSE {}

RenderMemory(c) ==
  LET stored    == CHOOSE p \in call[c].loaded : TRUE
      preferred == {Number(text.numbers[1]) : text \in stored["preferred_product:atta"]}
  IN
  /\ call[c].pc = "memory_profile"
  /\ Answer(c, [mode      |-> stored["default_payment_mode"],
                preferred |-> {[product |-> id, name |-> NameOf(id)] : id \in preferred},
                profile   |-> profile])
  /\ UNCHANGED <<tables, history>>

\* The default of finalize_bill
DefaultPaymentMode == UNION {ParseMode(text) : text \in prefs["default_payment_mode"]}

\* An exception or a crash before the commit
Abort(c) ==
  /\ call[c].pc \notin {"idle", "done"}
  /\ Answer(c, [status |-> "failed"])
  /\ UNCHANGED <<tables, history>>

-----------------------------------------------------------------------------
Init ==
  /\ products = SeedProducts
  /\ prefs = [key \in Keys |-> {}] /\ profile = {}
  /\ call = [c \in Calls |-> AtRest]
  /\ meant = [key \in Keys |-> {}] /\ asked = NoProfile /\ mixed = FALSE

Next ==
  \E c \in Calls :
    \/ \E request \in Requests : Begin(c, request)
    \/ LoadPreference(c) \/ WritePreference(c)
    \/ LoadProfile(c) \/ WriteProfile(c)
    \/ AddProduct(c) \/ FindProductCall(c) \/ ScanBarcodeCall(c) \/ PreparePhotoCall(c)
    \/ ListPreferences(c) \/ RenderMemory(c)
    \/ Abort(c)

Spec == Init /\ [][Next]_vars

-----------------------------------------------------------------------------
\* A Preference has at most one row, of a text that was accepted, and a call
\* that is done has answered.
TypeOK ==
  /\ \A i \in DOMAIN SeedProducts : products[i] = SeedProducts[i]
  /\ \A key \in Keys : Cardinality(prefs[key]) <= 1 /\ Cardinality(meant[key]) <= 1
  /\ Cardinality(profile) <= 1 /\ DOMAIN asked = DOMAIN NoProfile
  /\ \A c \in Calls : Cardinality(call[c].answer) = IF call[c].pc = "done" THEN 1 ELSE 0

\* Whoever reads a stored Preference understands what the Owner meant when it
\* was set: the two schedulers parse the canonical schedule back to the same
\* day and time, int() of the threshold, the chat and the preferred Product is
\* the number that was given, the default Payment Mode of finalize_bill is one
\* of the four, and the standing memory knows the name of every Product.
StoredReadable ==
  /\ \A key \in Keys : UNION {Parse(key, text) : text \in prefs[key]} = meant[key]
  /\ DefaultPaymentMode = meant["default_payment_mode"]
  /\ \A c \in Calls : call[c].request.op = "standing_memory" =>
       \A memory \in call[c].answer :
         "preferred" \in DOMAIN memory => \A row \in memory.preferred : row.name # {}

\* If no two set_shop_profile calls overlapped, the Profile is what the calls
\* that succeeded ask for, one after the other: branding that a call does not
\* mention stays.  When they overlap the last one decides column by column, and
\* an invoice may show one call's name with the other's logo; it is never a
\* value that nobody gave.
ProfileAsAsked ==
  LET given(column) ==
        {NoProfile[column]} \cup
        {AskedFor(r, NoProfile)[column] : r \in {r \in Requests : r.op = "set_shop_profile"
                                                                 /\ ~InvalidProfile(r)}}
  IN  \A row \in profile :
        /\ ~mixed => row = asked
        /\ row.name # "" /\ \A column \in DOMAIN row : row[column] \in given(column)

\* docs/agents/inventory.md: the agent must ask when a search is ambiguous.  A
\* search is answered ok only if its first Product beats every other one of
\* that moment by more than the delta, also one that was added twice; what is
\* found by a barcode is one Product; nothing passes as photographed before
\* the Owner has confirmed it.
FindIsClear ==
  \A c \in Calls : \A answer \in call[c].answer :
    "among" \in DOMAIN answer =>
      LET r == call[c].request
          first == answer.candidates[1]
          score(id) == MatchScore(products[id], r.query)
      IN  /\ answer.candidates # <<>> <=> answer.status # "refused"
          /\ r.op = "find_product" /\ answer.status = "ok" =>
               \A id \in 1..answer.among : id # first => score(id) < score(first) - AmbiguityScoreDelta
                                                         \/ score(id) < MinMatchScore
          /\ r.op = "find_product" /\ answer.status = "ambiguous" =>
               \E id \in 1..answer.among : id # first /\ score(id) >= MinMatchScore
                                             /\ score(first) - score(id) \in 0..AmbiguityScoreDelta
          /\ r.op = "scan_barcode" /\ answer.status = "ok" =>
               {id \in DOMAIN products : products[id].barcode = r.barcode} = {first}
          /\ r.op = "prepare_photo_product" /\ answer.status = "ok" => r.confirm
=============================================================================
