------------------------------ MODULE WifiNames ------------------------------
(***************************************************************************)
(* How src/wifi/Rk_wifi.c carries the name of a network between the        *)
(* supplicant and the application: wpa_supplicant prints names escaped,    *)
(* the scan turns them into UTF-8 (a name that is not UTF-8 is taken for   *)
(* GBK) and remembers the bytes behind each converted name, the connect    *)
(* call looks those bytes up, and the list of saved networks is split into *)
(* columns by awk.  A character is its byte, a C string a sequence of      *)
(* bytes without the terminator; char is unsigned, as on the aarch64       *)
(* targets of the Makefile.  Names are quantified up to a bound.           *)
(***************************************************************************)
EXTENDS Integers, Sequences
LOCAL INSTANCE SequencesExt

CONSTANTS
  EscapeBytes,      \* bytes of the names that exercise the escapes
  GbkBytes,         \* bytes of the names that exercise the conversion
  RowBytes,         \* bytes of the names that exercise the columns
  MaxName,          \* the longest name
  mb_gb2uni_table   \* the code points of the GBK pairs over GbkBytes

Quote == 34
Backslash == 92
Ex == 120
Tab == 9
Newline == 10
IsBlank(c) == c \in {Tab, Newline, 32}
From(s, i) == SubSeq(s, i, Len(s))

Digit(n) == IF n < 10 THEN 48 + n ELSE 87 + n
HexOf(b) == <<Digit(b \div 16), Digit(b % 16)>>
DigitValue(c) == CHOOSE n \in 0..15 : Digit(n) = c
IsHex(c) == \E n \in 0..15 : Digit(n) = c

(* wpa_supplicant's printf_encode, which writes every name wpa_cli prints. *)
EncodeByte(b) ==
  CASE b \in {Quote, Backslash} -> <<Backslash, b>>
    [] b = 27      -> <<Backslash, 101>>
    [] b = Newline -> <<Backslash, 110>>
    [] b = 13      -> <<Backslash, 114>>
    [] b = Tab     -> <<Backslash, 116>>
    [] b \in (32..126) \ {Quote, Backslash} -> <<b>>
    [] OTHER       -> <<Backslash, Ex>> \o HexOf(b)
printf_encode(s) == FlattenSeq([i \in DOMAIN s |-> EncodeByte(s[i])])

RECURSIVE remove_escape_character(_)
remove_escape_character(s) ==
  IF s = <<>> THEN <<>>
  ELSE IF Len(s) > 1 /\ s[1] = Backslash /\ s[2] \in {Backslash, Quote}
  THEN <<s[2]>> \o remove_escape_character(From(s, 3))
  ELSE <<s[1]>> \o remove_escape_character(Tail(s))

(* strtoul of the two characters after \x; it stops at the first one that  *)
(* is not a hexadecimal digit.                                             *)
HexPrefix(s) ==
  CASE s = <<>> \/ ~IsHex(Head(s)) -> 0
    [] Len(s) = 1 \/ ~IsHex(s[2])  -> DigitValue(s[1])
    [] OTHER -> 16 * DigitValue(s[1]) + DigitValue(s[2])

(* A \x with fewer than two characters behind it sends the C loop past the *)
(* terminator; here the string ends.  No name of the properties has one.   *)
RECURSIVE spec_char_convers(_)
spec_char_convers(s) ==
  IF s = <<>> THEN <<>>
  ELSE IF Len(s) > 1 /\ s[1] = Backslash /\ s[2] = Ex
  THEN <<HexPrefix(SubSeq(s, 3, 4))>> \o spec_char_convers(From(s, 5))
  ELSE <<s[1]>> \o spec_char_convers(Tail(s))

(***************************************************************************)
(* Character sets.                                                         *)
(***************************************************************************)
LeadingOnes(b) ==
  CHOOSE n \in 0..8 : /\ b \div 2^(8 - n) = 2^n - 1
                      /\ n < 8 => b \div 2^(7 - n) # 2^(n + 1) - 1

(* bits counts the continuation bytes still owed; -1 is the early return. *)
RK_encode_is_utf8(s) ==
  LET step(bits, b) ==
        CASE bits = 0 /\ b < 128 -> 0
          [] bits > 0 /\ b \in 128..191 -> bits - 1
          [] bits = 0 /\ LeadingOnes(b) \in 2..6 -> LeadingOnes(b) - 1
          [] OTHER -> -1
  IN FoldLeft(step, 0, s) = 0

gbk_to_unicode(h, l) ==
  LET ch == (h - 129) % 256
      cl == (l - 64) % 256
  IN IF ch <= 125 /\ cl <= 190 THEN mb_gb2uni_table[ch * 191 + cl] ELSE 8191

(* Code points come from an unsigned short table: four bytes never happen. *)
unicode_to_utf8(c) ==
  CASE c < 128  -> <<c>>
    [] c \in 128..2047 -> <<192 + c \div 64, 128 + (c % 64)>>
    [] OTHER    -> <<224 + c \div 4096, 128 + ((c \div 64) % 64), 128 + (c % 64)>>

(* The byte behind the last one is the terminator. *)
RECURSIVE gbk_to_utf8(_)
gbk_to_utf8(s) ==
  IF s = <<>> THEN <<>>
  ELSE IF s[1] < 128 THEN unicode_to_utf8(s[1]) \o gbk_to_utf8(Tail(s))
  ELSE unicode_to_utf8(gbk_to_unicode(s[1], IF Len(s) > 1 THEN s[2] ELSE 0))
         \o gbk_to_utf8(From(s, 3))

(***************************************************************************)
(* The lists m_gbk_head and m_nonpsk_head: pairs of the bytes the access   *)
(* point uses and the name shown, the newest first.                        *)
(***************************************************************************)
encode_gbk_insert(head, ori, utf8) ==
  IF ori = <<>> \/ utf8 = <<>> \/ Len(ori) >= 128 \/ Len(utf8) >= 128
  THEN head ELSE <<[ori |-> ori, utf8 |-> utf8]>> \o head

(* The list of the last scan survives. *)
ResetKeeps(head) == head

encode_gbk_reset(head) == <<>>

get_encode_gbk_ori(head, str) ==
  LET hit == SelectInSeq(head, LAMBDA e : e.utf8 = str)
  IN IF hit = 0 THEN str ELSE head[hit].ori

get_encode_gbk_utf8(head, str) ==
  LET hit == SelectInSeq(head, LAMBDA e : e.ori = str)
  IN IF hit = 0 THEN str ELSE head[hit].utf8

(***************************************************************************)
(* A scan.  An access point is a name and whether its flags lack both WPA  *)
(* and WEP; seen holds the names put into the result, escapes included.    *)
(* A conversion that does not give UTF-8 would make the C loop repeat the  *)
(* same column for ever: ScanEnds says that no name gives one.             *)
(***************************************************************************)
ScanColumn(r, ap) ==
  LET dst  == spec_char_convers(printf_encode(ap.ssid))
      gbk  == ~RK_encode_is_utf8(dst)
      utf8 == IF gbk THEN gbk_to_utf8(dst) ELSE dst
      Insert(head) == encode_gbk_insert(head, remove_escape_character(dst),
                                        remove_escape_character(utf8))
  IN [seen   |-> Append(r.seen, utf8),
      gbk    |-> IF gbk THEN Insert(r.gbk) ELSE r.gbk,
      nonpsk |-> IF ap.open THEN Insert(r.nonpsk) ELSE r.nonpsk]

NoScan == [seen |-> <<>>, gbk |-> <<>>, nonpsk |-> <<>>]

RK_wifi_scan_r_sec(old, aps) ==
  FoldLeft(ScanColumn, [seen   |-> <<>>,
                        gbk    |-> encode_gbk_reset(old.gbk),
                        nonpsk |-> encode_gbk_reset(old.nonpsk)], aps)

RK_wifi_scan_softap(old, aps) == RK_wifi_scan_r_sec(old, aps)

(* The application reads the result as JSON, which undoes the escapes. *)
JsonName(s) == remove_escape_character(s)

(***************************************************************************)
(* Connecting: the bytes behind the name given, sent as hexadecimal digits *)
(* and parsed by the supplicant.                                           *)
(***************************************************************************)
format_wifiinfo(s) == FlattenSeq([i \in DOMAIN s |-> HexOf(s[i])])

ParseHex(s) == [i \in 1..Len(s) \div 2 |->
                  16 * DigitValue(s[2 * i - 1]) + DigitValue(s[2 * i])]

ConnectName(r, name, open) ==
  ParseHex(format_wifiinfo(
    get_encode_gbk_ori(IF open THEN r.nonpsk ELSE r.gbk, name)))

(***************************************************************************)
(* One row of wpa_cli list_network, and how it is taken apart.  An address *)
(* and a flag are shortened to three characters.                           *)
(***************************************************************************)
AnyBssid == <<97, 110, 121>>
Mac == <<97, 58, 110>>
Flag == <<91, 67, 93>>
Row(net) == <<Digit(net.id), Tab>> \o printf_encode(net.ssid) \o <<Tab>>
              \o net.bssid \o <<Tab>> \o net.state \o <<Newline>>

(* The columns awk sees. *)
RECURSIVE Columns(_)
Columns(s) ==
  IF s = <<>> THEN <<>>
  ELSE IF IsBlank(s[1]) THEN Columns(Tail(s))
  ELSE LET end == SelectInSeq(s, IsBlank)
       IN <<SubSeq(s, 1, end - 1)>> \o Columns(From(s, end))

strstr(s, t) ==
  SelectInSeq([i \in 1..Len(s) |-> i],
              LAMBDA i : IsPrefix(t, From(s, i)))

RK_property_trim(s) ==
  LET text == {i \in DOMAIN s : ~IsBlank(s[i])}
      first == CHOOSE i \in text : \A j \in text : i <= j
      last  == CHOOSE i \in text : \A j \in text : j <= i
  IN IF text = {} THEN <<>> ELSE SubSeq(s, first, last)

get_flags_from_list_network(row) ==
  IF Last(Columns(row)) = Flag THEN Flag ELSE <<>>

get_bssid_from_list_network(row, state) ==
  LET cols == Columns(row)
  IN cols[IF state # <<>> THEN Len(cols) - 1 ELSE Len(cols)]

get_id_from_list_network(row) == DigitValue(Columns(row)[1][1])

(* Four columns are always taken for a name of one word. *)
DirectlyUpToFour(flags, columns) == columns <= 4

get_ssid_directly(flags, columns) ==
  columns <= 3 \/ (columns = 4 /\ flags # <<>>)

get_ssid_from_list_network(row, bssid, state, gbk) ==
  LET cols == Columns(row)
      text == IF get_ssid_directly(state, Len(cols)) THEN cols[2]
              ELSE RK_property_trim(
                     SubSeq(row, Len(cols[1]) + 1, strstr(row, bssid) - 1))
  IN get_encode_gbk_utf8(gbk, spec_char_convers(remove_escape_character(text)))

RK_wifi_getSavedInfo(row, gbk) ==
  LET state == get_flags_from_list_network(row)
      bssid == get_bssid_from_list_network(row, state)
  IN [id    |-> get_id_from_list_network(row),
      ssid  |-> get_ssid_from_list_network(row, bssid, state, gbk),
      bssid |-> bssid,
      state |-> state]

(* The copies that the library itself uses, which list into another file;  *)
(* the copies of the other columns are the same.                           *)
_get_ssid_from_list_network(row, bssid, state, gbk) ==
  get_ssid_from_list_network(row, bssid, state, gbk)

_RK_wifi_getSavedInfo(row, gbk) ==
  LET state == get_flags_from_list_network(row)
      bssid == get_bssid_from_list_network(row, state)
  IN [id |-> get_id_from_list_network(row),
      ssid |-> _get_ssid_from_list_network(row, bssid, state, gbk)]

RK_wifi_search_with_ssid(row, name, gbk) ==
  LET info == _RK_wifi_getSavedInfo(row, gbk)
  IN IF info.ssid = name THEN info.id ELSE -1

(* What wpa_cli status and an event print is decoded in the other order. *)
Decoded(text, gbk) ==
  get_encode_gbk_utf8(gbk, remove_escape_character(spec_char_convers(text)))

(***************************************************************************)
(* wpa_cli status, of which the name and the two lines about the security  *)
(* are kept, and the event of a wrong key, its end tag shortened.          *)
(***************************************************************************)
Status(net) == <<[key |-> "ssid", value |-> printf_encode(net.ssid)],
                 [key |-> "pairwise_cipher", value |-> net.cipher],
                 [key |-> "key_mgmt", value |-> net.key_mgmt]>>

(* A line of the status; WEP, once seen, stays. *)
StatusLine(info, line, gbk) ==
  CASE line.key = "ssid" -> [info EXCEPT !.ssid = Decoded(line.value, gbk)]
    [] line.key = "key_mgmt" /\ info.key_mgmt # "WEP" -> [info EXCEPT !.key_mgmt = line.value]
    [] line.key = "pairwise_cipher" /\ line.value = "WEP" -> [info EXCEPT !.key_mgmt = "WEP"]
    [] OTHER -> info

RK_wifi_running_getConnectionInfo(status, gbk) ==
  FoldLeft(LAMBDA info, line : StatusLine(info, line, gbk),
           [ssid |-> <<>>, key_mgmt |-> ""], status)

IdTag == <<105, 100, 61>>
SsidTag == <<115, 115, 105, 100, 61, Quote>>
EndTag == <<Quote, 32, 97>>
TempDisabled(net) ==
  IdTag \o <<Digit(net.id), 32>> \o SsidTag \o printf_encode(net.ssid) \o EndTag \o <<Newline>>

get_wifi_info_by_event(event, gbk) ==
  LET start == strstr(event, SsidTag) + Len(SsidTag)
      id == strstr(event, IdTag) + Len(IdTag)
  IN [id |-> DigitValue(event[id]),
      ssid |-> Decoded(SubSeq(event, start, strstr(event, EndTag) - 1), gbk)]

(***************************************************************************)
(* What the names have to satisfy; MCWifiNames says when.  A name is clear *)
(* when it holds no backslash followed by x, which both decoders take for  *)
(* an escape, and none of the control bytes that printf_encode writes as a *)
(* letter, which neither decodes.                                          *)
(***************************************************************************)
NamesOver(S, n) == BoundedSeq(S, n) \ {<<>>}

Clear(n) ==
  /\ \A i \in DOMAIN n : n[i] \notin {0, Tab, Newline, 13, 27}
  /\ ~\E i \in 1..Len(n) - 1 : n[i] = Backslash /\ n[i + 1] = Ex

(* The names whose columns can be told apart: no blank at either end, and  *)
(* in a name of several words nothing that reads like the address.         *)
Separable(n, bssid) ==
  /\ ~IsBlank(n[1]) /\ ~IsBlank(n[Len(n)])
  /\ (\E i \in DOMAIN n : IsBlank(n[i])) => strstr(printf_encode(n), bssid) = 0

(* A GBK name with a quote or a backslash byte is converted with its       *)
(* escapes still in it and is shown under a wrong name.                    *)
Convertible(n) ==
  \/ RK_encode_is_utf8(n)
  \/ \A i \in DOMAIN n : n[i] \notin {Quote, Backslash}

AccessPoints(S, n) == [ssid : {m \in NamesOver(S, n) : Convertible(m)}, open : BOOLEAN]

(* Whatever bytes an access point uses as its name, the conversion gives   *)
(* UTF-8, so the scan never takes the "continue" of Rk_wifi.c:1345 and     *)
(* 1481 that skips the strtok and would read the same column for ever.     *)
ScanEnds ==
  \A n \in NamesOver(GbkBytes, MaxName) : RK_encode_is_utf8(gbk_to_utf8(n))

(* The row of network 1 with address b and flags f, the event of its wrong *)
(* key and the status of its connection are all read back, for every name. *)
RowRead ==
  [b \in {AnyBssid, Mac}, f \in {<<>>, Flag} |->
     \A n \in NamesOver(EscapeBytes, MaxName) \cup NamesOver(RowBytes, MaxName) :
       (Clear(n) /\ Separable(n, b)) =>
         LET net == [id |-> 1, ssid |-> n, bssid |-> b, state |-> f]
         IN /\ RK_wifi_getSavedInfo(Row(net), <<>>) = net
            /\ get_wifi_info_by_event(TempDisabled(net), <<>>) = [id |-> 1, ssid |-> n]
            /\ \A c \in {"WEP", "NONE"} :
                 RK_wifi_running_getConnectionInfo(
                   Status([ssid |-> n, cipher |-> c, key_mgmt |-> "NONE"]), <<>>)
                   = [ssid |-> n, key_mgmt |-> c]]

(* The name shown of p, after a scan that saw p alone or p and q.          *)
NameKept ==
  \A p, q \in AccessPoints(GbkBytes, 2) :
    LET alone == RK_wifi_scan_r_sec(RK_wifi_scan_softap(NoScan, <<q>>), <<p>>)
        both  == RK_wifi_scan_r_sec(NoScan, <<p, q>>)
        shown == JsonName(both.seen[1])
        net == [id |-> 1, ssid |-> p.ssid, bssid |-> AnyBssid, state |-> <<>>]
        sent == ConnectName(both, shown, p.open)
    IN /\ ConnectName(alone, JsonName(alone.seen[1]), p.open) = p.ssid
       /\ sent # p.ssid => sent = q.ssid /\ both.seen[1] = both.seen[2]
       /\ RK_wifi_search_with_ssid(Row(net), shown, both.gbk) = net.id
       /\ Decoded(printf_encode(p.ssid), both.gbk) = shown

=============================================================================
