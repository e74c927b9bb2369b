----------------------------- MODULE ConfProofs -----------------------------
(***************************************************************************)
(* The properties of module ConfLoad, for every set of files, every limit   *)
(* and every width of an address.                                           *)
(***************************************************************************)
EXTENDS ConfLoad, TLAPS, FiniteSetTheorems, WellFoundedInduction

(***************************************************************************)
(* Counting.                                                                *)
(***************************************************************************)

\* What is counted among the places of an array is a number, and none of it is
\* there exactly if the number is 0.
LEMMA CountZero ==
    ASSUME NEW S, IsFiniteSet(S)
    PROVE  Count(S) \in Nat /\ (Count(S) = 0 <=> S = {})
  BY FS_CardinalityType, FS_EmptySet DEF Count

\* Every part of a finite set is counted.
LEMMA PartCounted ==
    ASSUME NEW S, NEW T, IsFiniteSet(S), T \subseteq S
    PROVE  IsFiniteSet(T) /\ Count(T) \in Nat /\ (Count(T) = 0 <=> T = {})
  BY CountZero, FS_Subset

\* A sum over the places of an array is a number, and is 0 exactly if all its terms are.
LEMMA TotalZero ==
    ASSUME NEW f, IsFiniteSet(DOMAIN f), \A x \in DOMAIN f : f[x] \in Nat
    PROVE  Total(f) \in Nat /\ (Total(f) = 0 <=> \A x \in DOMAIN f : f[x] = 0)
<1> DEFINE of(x) == {x} \X (1 .. f[x])
           T == {of(x) : x \in DOMAIN f}
           g == [x \in DOMAIN f |-> of(x)]
<1>1. g \in Surjection(DOMAIN f, T)
  BY DEF Surjection
<1>2. IsFiniteSet(T)
  BY <1>1, FS_Surjection
<1>3. ASSUME NEW t \in T PROVE IsFiniteSet(t)
  <2>1. PICK x \in DOMAIN f : t = of(x)
    OBVIOUS
  <2>2. IsFiniteSet({x})
    BY FS_Singleton
  <2>3. f[x] \in Int /\ 1 \in Int
    OBVIOUS
  <2>4. IsFiniteSet(1 .. f[x])
    BY <2>3, FS_Interval
  <2>5. IsFiniteSet({x} \X (1 .. f[x]))
    BY <2>2, <2>4, FS_Product
  <2> QED
    BY <2>1, <2>5
<1>4. IsFiniteSet(UNION T)
  BY <1>2, <1>3, FS_UNION
<1>5. UNION T = {} <=> \A x \in DOMAIN f : f[x] = 0
  <2>1. ASSUME UNION T = {}, NEW x \in DOMAIN f PROVE f[x] = 0
    <3>1. of(x) \in T
      OBVIOUS
    <3>2. of(x) = {}
      BY <2>1, <3>1
    <3>3. f[x] # 0 => <<x, 1>> \in of(x)
      OBVIOUS
    <3> QED
      BY <3>2, <3>3
  <2>2. ASSUME \A x \in DOMAIN f : f[x] = 0 PROVE UNION T = {}
    <3>1. \A x \in DOMAIN f : of(x) = {}
      BY <2>2
    <3> QED
      BY <3>1
  <2> QED
    BY <2>1, <2>2
<1> QED
  BY <1>4, <1>5, CountZero DEF Total

\* Pairs of places of an array are finitely many.
LEMMA PairsFinite ==
    ASSUME NEW arr, IsFiniteSet(DOMAIN arr)
    PROVE  IsFiniteSet(Pairs(arr))
  BY FS_Product, FS_Subset DEF Pairs

\* The smaller of two numbers.
LEMMA MinOfTwo ==
    ASSUME NEW a \in Int, NEW b \in Int
    PROVE  Min({a, b}) = IF a <= b THEN a ELSE b
  BY DEF Min

(***************************************************************************)
(* The accessors.                                                           *)
(***************************************************************************)

\* get_bool() of a key that costs nothing is what the file says.
LEMMA GetBool ==
    ASSUME NEW tab, NEW key, NEW flag \in BOOLEAN, IsOneOf(tab, key, BOOLEAN)
    PROVE  LET got == get_bool(tab, key, flag)
           IN /\ got.errs \in Nat /\ got.out \in BOOLEAN /\ got.ok \in BOOLEAN
              /\ got.errs = 0 => /\ got.ok
                                 /\ got.present \in BOOLEAN /\ (got.present <=> key \in DOMAIN tab)
                                 /\ got.out = Says(tab, key, FALSE)
<1>1. CASE key \notin DOMAIN tab
  <2> DEFINE got == get_bool(tab, key, flag)
  <2>1. got.ok = TRUE /\ got.present = FALSE /\ got.out = FALSE /\ got.errs = 0
    BY <1>1 DEF get_bool
  <2>2. Says(tab, key, FALSE) = FALSE
    BY <1>1 DEF Says
  <2> HIDE DEF got
  <2>3. /\ got.out \in BOOLEAN /\ got.ok \in BOOLEAN
        /\ got.ok /\ got.present \in BOOLEAN /\ (got.present <=> key \in DOMAIN tab)
    BY <1>1, <2>1, Zenon
  <2>4. got.errs \in Nat
    BY <2>1
  <2> QED
    BY <2>1, <2>2, <2>3, <2>4, Zenon DEF got
<1>2. CASE key \in DOMAIN tab /\ tab[key] = Wrong
  BY <1>2 DEF get_bool, Says
<1>3. CASE key \in DOMAIN tab /\ tab[key] # Wrong
  <2>1. tab[key] \in BOOLEAN
    BY <1>3 DEF IsOneOf
  <2> QED
    BY <1>3, <2>1 DEF get_bool, Says
<1> QED
  BY <1>1, <1>2, <1>3

\* get_int() of a key that costs nothing is what the file says, within the range.
LEMMA GetInt ==
    ASSUME NEW tab, NEW key, NEW range
    PROVE  LET got == get_int(tab, key, range)
           IN /\ got.errs \in Nat /\ got.stated \in BOOLEAN
              /\ got.stated => got.val \in range
              /\ ~got.stated => got.val = 0
              /\ got.errs = 0 => got.val = Says(tab, key, 0) /\ (got.stated <=> key \in DOMAIN tab)
  BY DEF get_int, Says

\* An integer that is required.
LEMMA ReqInt ==
    ASSUME NEW tab, NEW key, NEW range
    PROVE  LET got == req_int(tab, key, range)
           IN got.errs \in Nat /\ (got.errs = 0 => got.val \in range)
  BY DEF get_int, req_int

\* A string that costs nothing is the file's, or the default where it has none.
LEMMA GetStr ==
    ASSUME NEW tab, NEW key, NEW default
    PROVE  LET got == get_str(tab, key, default)
           IN /\ got.errs \in Nat /\ got.stated \in BOOLEAN
              /\ ~got.stated => got.val = default
              /\ got.errs = 0 => got.val = Says(tab, key, default) /\ (got.stated <=> key \in DOMAIN tab)
  BY DEF get_str, Says

\* A string that is required.
LEMMA ReqStr ==
    ASSUME NEW tab, NEW key, NEW default
    PROVE  LET got == req_str(tab, key, default)
           IN /\ got.errs \in Nat
              /\ got.errs = 0 => key \in DOMAIN tab /\ tab[key] # Wrong /\ got.val = tab[key]
  BY DEF get_str, req_str

\* A section is there as the file has it, or is empty.
LEMMA Section ==
    ASSUME NEW top, NEW key, NEW none
    PROVE  LET got == section(top, key, none)
           IN /\ got.errs \in Nat
              /\ got.errs = 0 /\ key \in DOMAIN top => top[key] # Wrong /\ got.tab = top[key]
              /\ ~(key \in DOMAIN top /\ top[key] # Wrong) => got.tab = none
              /\ key \in DOMAIN top /\ top[key] # Wrong => got.tab = top[key]
  BY DEF section

\* The places of an array of the file are 1, 2, ... up to its length.
LEMMA ArrayPlaces ==
    ASSUME NEW top, NEW key, IsArray(top, key)
    PROVE  LET arr == section(top, key, <<>>).tab
           IN Len(arr) \in Nat /\ DOMAIN arr = 1 .. Len(arr) /\ IsFiniteSet(DOMAIN arr)
<1> DEFINE arr == section(top, key, <<>>).tab
<1>1. arr \in Seq(Range(arr))
  <2>1. CASE key \in DOMAIN top /\ top[key] # Wrong
    BY <2>1, Section DEF IsArray
  <2>2. CASE ~(key \in DOMAIN top /\ top[key] # Wrong)
    <3>1. arr = <<>>
      BY <2>2, Section
    <3>2. <<>> \in Seq(Range(arr))
      OBVIOUS
    <3> QED
      BY <3>1, <3>2, Zenon
  <2> QED
    BY <2>1, <2>2
<1>2. Len(arr) \in Nat /\ DOMAIN arr = 1 .. Len(arr)
  BY <1>1
<1>3. IsFiniteSet(1 .. Len(arr))
  BY <1>2, FS_Interval
<1> QED
  BY <1>2, <1>3

(***************************************************************************)
(* The parsers of [instance], [acl] and [ratelimit].                        *)
(***************************************************************************)

\* parse_instance_tx_ports() keeps finitely many ports.
LEMMA TxPortsRead ==
    ASSUME NEW tab, IsArray(tab, "tx_ports")
    PROVE  LET got == parse_instance_tx_ports(tab)
           IN got.errs \in Nat /\ IsFiniteSet(DOMAIN got.val)
<1> DEFINE arr == section(tab, "tx_ports", <<>>)
           before(i) == {j \in DOMAIN arr.tab : j < i /\ arr.tab[j] # Wrong}
           read == {i \in DOMAIN arr.tab : Count(before(i)) < MaxTxPorts}
           good == {i \in read : arr.tab[i] # Wrong}
           bad == {i \in read : arr.tab[i] = Wrong}
<1>1. IsFiniteSet(DOMAIN arr.tab) /\ arr.errs \in Nat
  BY ArrayPlaces, Section
<1>2. good \subseteq DOMAIN arr.tab /\ bad \subseteq DOMAIN arr.tab
  OBVIOUS
<1>3. IsFiniteSet(good) /\ Count(bad) \in Nat
  <2> HIDE DEF arr, good, bad
  <2> QED
    BY <1>1, <1>2, PartCounted
<1>4. /\ DOMAIN parse_instance_tx_ports(tab).val = good
      /\ parse_instance_tx_ports(tab).errs
         = arr.errs + (IF Len(arr.tab) > MaxTxPorts THEN 1 ELSE 0) + Count(bad)
  BY DEF parse_instance_tx_ports
<1> QED
  BY <1>1, <1>3, <1>4

\* What parse_instance() reports is a number.
LEMMA InstanceRead ==
    ASSUME NEW top, IsToml(top)
    PROVE  LET got == parse_instance(top)
           IN got.errs \in Nat /\ IsFiniteSet(DOMAIN got.val.tx_ports)
<1> DEFINE tab == section(top, "instance", <<>>).tab
           interface == req_str(tab, "interface", NoName)
           object == get_str(tab, "object", "MARLIN_DEFAULT_OBJ")
           pin_dir == get_str(tab, "pin_dir", "MARLIN_DEFAULT_PIN_DIR")
           tunnel == get_str(tab, "tunnel_src", 0)
           tx == parse_instance_tx_ports(tab)
           frame == get_int(tab, "max_frame", U16)
<1>1. IsArray(tab, "tx_ports")
  BY DEF IsToml
<1>2. tx.errs \in Nat /\ IsFiniteSet(DOMAIN tx.val)
  BY <1>1, TxPortsRead
<1>3. interface.errs \in Nat /\ object.errs \in Nat /\ pin_dir.errs \in Nat /\ tunnel.errs \in Nat
  BY ReqStr, GetStr, Zenon
<1>4. frame.errs \in Nat
  BY GetInt
<1>5. parse_instance(top).val.tx_ports = tx.val
  BY DEF parse_instance
<1>6. \/ parse_instance(top).errs = 1
      \/ parse_instance(top).errs
         = interface.errs + object.errs + pin_dir.errs + tunnel.errs + tx.errs + frame.errs
  BY DEF parse_instance
<1> HIDE DEF interface, object, pin_dir, tunnel, tx, frame
<1> QED
  BY <1>2, <1>3, <1>4, <1>5, <1>6

\* A list of the ACL that parse_acl() makes: finitely many rules of one family.
IsRules(rules, v6) ==
    /\ IsFiniteSet(DOMAIN rules)
    /\ \A i \in DOMAIN rules : IsRule(rules[i]) /\ conf_parse_cidr(rules[i]) /\ rules[i].v6 = v6

\* parse_acl() puts the rules it can read into the lists of their families.
LEMMA AclRead ==
    ASSUME NEW top, IsToml(top)
    PROVE  LET got == parse_acl(top)
           IN /\ got.errs \in Nat /\ got.val.enabled \in BOOLEAN
              /\ \A l \in Lists : IsRules(got.val.list[l], IsV6(l))
<1> DEFINE sec == section(top, "acl", <<>>)
           tab == sec.tab
           enabled == get_bool(tab, "enabled", FALSE)
           arr(key) == section(tab, key, <<>>)
           key(l) == IF IsAllow(l) THEN "allow" ELSE "block"
           places(l) == {i \in DOMAIN arr(key(l)).tab :
                            conf_parse_cidr(arr(key(l)).tab[i]) /\ arr(key(l)).tab[i].v6 = IsV6(l)}
           bad(k) == arr(k).errs + Count({i \in DOMAIN arr(k).tab : ~conf_parse_cidr(arr(k).tab[i])})
<1>1. /\ IsOneOf(tab, "enabled", BOOLEAN)
      /\ \A k \in {"allow", "block"} :
            IsArray(tab, k) /\ \A e \in Range(arr(k).tab) : e # Wrong => IsRule(e)
  BY DEF IsToml
<1>2. enabled.errs \in Nat /\ enabled.out \in BOOLEAN
  BY <1>1, GetBool
<1>3. sec.errs \in Nat
  BY Section
<1>4. ASSUME NEW k \in {"allow", "block"} PROVE IsFiniteSet(DOMAIN arr(k).tab) /\ arr(k).errs \in Nat
  BY <1>1, ArrayPlaces, Section
<1>5. ASSUME NEW k \in {"allow", "block"} PROVE bad(k) \in Nat
  <2> DEFINE B == {i \in DOMAIN arr(k).tab : ~conf_parse_cidr(arr(k).tab[i])}
  <2>1. B \subseteq DOMAIN arr(k).tab
    OBVIOUS
  <2>2. Count(B) \in Nat
    <3> HIDE DEF B, arr
    <3> QED
      BY <1>4, <2>1, PartCounted
  <2> QED
    BY <1>4, <2>2
<1>6. ASSUME NEW l \in Lists PROVE IsRules(parse_acl(top).val.list[l], IsV6(l))
  <2> DEFINE rules == [i \in places(l) |-> arr(key(l)).tab[i]]
  <2>1. parse_acl(top).val.list[l] = rules
    BY DEF parse_acl
  <2>2. key(l) \in {"allow", "block"}
    OBVIOUS
  <2>3. IsFiniteSet(places(l))
    BY <1>4, <2>2, PartCounted
  <2>4. ASSUME NEW i \in places(l) PROVE IsRule(rules[i]) /\ conf_parse_cidr(rules[i]) /\ rules[i].v6 = IsV6(l)
    <3>1. /\ rules[i] = arr(key(l)).tab[i] /\ i \in DOMAIN arr(key(l)).tab
          /\ conf_parse_cidr(rules[i]) /\ rules[i].v6 = IsV6(l)
      OBVIOUS
    <3>2. rules[i] \in Range(arr(key(l)).tab) /\ rules[i] # Wrong
      BY <3>1 DEF conf_parse_cidr, Range
    <3>3. IsRule(rules[i])
      BY <1>1, <2>2, <3>2
    <3> QED
      BY <3>1, <3>3
  <2> QED
    BY <2>1, <2>3, <2>4 DEF IsRules
<1>7. /\ parse_acl(top).errs = sec.errs + enabled.errs + bad("allow") + bad("block")
      /\ parse_acl(top).val.enabled = enabled.out
  BY DEF parse_acl
<1>8. parse_acl(top).errs \in Nat
  <2> HIDE DEF sec, enabled, bad
  <2> QED
    BY <1>2, <1>3, <1>5, <1>7
<1> QED
  BY <1>2, <1>6, <1>7, <1>8

\* parse_ratelimit() keeps what fits a __u32.
LEMMA RatelimitRead ==
    ASSUME NEW top, IsToml(top)
    PROVE  LET got == parse_ratelimit(top)
           IN got.errs \in Nat /\ got.val.enabled \in BOOLEAN /\ got.val.tokens_per_sec \in Nat
<1> DEFINE sec == section(top, "ratelimit", <<>>)
           enabled == get_bool(sec.tab, "enabled", FALSE)
           tokens == get_int(sec.tab, "tokens_per_sec", 0 .. U32Max)
           burst == get_int(sec.tab, "burst_packets", 0 .. U32Max)
<1>1. IsOneOf(sec.tab, "enabled", BOOLEAN)
  BY DEF IsToml
<1>2. enabled.errs \in Nat /\ enabled.out \in BOOLEAN
  BY <1>1, GetBool
<1>3. sec.errs \in Nat /\ tokens.errs \in Nat /\ burst.errs \in Nat
  BY Section, GetInt, Zenon
<1>4. tokens.stated => tokens.val \in 0 .. U32Max
  BY GetInt, Zenon
<1>5. ~tokens.stated => tokens.val = 0
  BY GetInt, Zenon
<1>6. tokens.val \in Nat
  <2> HIDE DEF tokens
  <2> QED
    BY <1>4, <1>5, ConfFileAssumption
<1>7. /\ parse_ratelimit(top).errs = sec.errs + enabled.errs + tokens.errs + burst.errs
      /\ parse_ratelimit(top).val.enabled = enabled.out
      /\ parse_ratelimit(top).val.tokens_per_sec = tokens.val
  BY DEF parse_ratelimit
<1> HIDE DEF sec, enabled, tokens, burst
<1> QED
  BY <1>2, <1>3, <1>6, <1>7

(***************************************************************************)
(* The parser of [[backend]].                                               *)
(***************************************************************************)

\* Fields of a backend.
BackendFields == {"name", "id", "addr", "mode", "up", "fib", "encap_dport", "vni", "inner_mac"}

\* A backend parse_one_backend() made of a table without a complaint.
BackendOf(elem, b) ==
    /\ elem # Wrong
    /\ b.id \in 0 .. MaxBackends - 1
    /\ b.encap_required <=> b.mode # "l2dsr"
    /\ b.up \in BOOLEAN /\ (b.up <=> Says(elem, "state", "up") = "up")
    /\ b.mac_stated \in BOOLEAN /\ (b.mac_stated <=> "mac" \in DOMAIN elem)
    /\ b.fib_stated \in BOOLEAN /\ (b.fib_stated <=> "fib" \in DOMAIN elem)
    /\ b.fib_value = Says(elem, "fib", FALSE)
    /\ b.vni_stated => b.vni \in U24
    /\ ~b.vni_stated => b.vni = 0
    /\ ~b.inner_mac_stated => b.inner_mac = 0
    /\ BackendFields \subseteq DOMAIN b

\* parse_one_backend() reports a number of mistakes, and without any has read the table.
LEMMA BackendRead ==
    ASSUME NEW elem, elem # Wrong => IsOneOf(elem, "fib", BOOLEAN)
    PROVE  LET got == parse_one_backend(elem)
           IN got.errs \in Nat /\ (got.errs = 0 => BackendOf(elem, got.val))
<1>1. CASE elem = Wrong
  BY <1>1 DEF parse_one_backend
<1>2. CASE elem # Wrong
  <2> DEFINE name == req_str(elem, "name", NoName)
             id == req_int(elem, "id", 0 .. MaxBackends - 1)
             addr == req_str(elem, "addr", 0)
             mode == req_str(elem, "mode", "l2dsr")
             state == get_str(elem, "state", "up")
             mac == get_str(elem, "mac", 0)
             fib == get_bool(elem, "fib", FALSE)
             egress == get_str(elem, "egress", NoName)
             dport == get_int(elem, "encap_dport", U16)
             vni == get_int(elem, "vni", U24)
             inner == get_str(elem, "inner_mac", 0)
             b == parse_one_backend(elem).val
             errs == parse_one_backend(elem).errs
  <2>1. errs = name.errs + id.errs + addr.errs + mode.errs + state.errs + mac.errs + fib.errs
               + egress.errs + dport.errs + vni.errs + inner.errs
    BY <1>2 DEF parse_one_backend
  <2>2. /\ b.id = id.val /\ b.mode = mode.val
        /\ b.vni_stated = vni.stated /\ b.vni = vni.val
        /\ b.inner_mac_stated = inner.stated /\ b.inner_mac = inner.val
        /\ b.mac_stated = mac.stated /\ b.fib_value = fib.out
    BY <1>2 DEF parse_one_backend
  <2>3. /\ b.encap_required <=> mode.val # "l2dsr"
        /\ b.up \in BOOLEAN /\ (b.up <=> state.val = "up")
        /\ b.fib_stated \in BOOLEAN /\ (b.fib_stated <=> fib.ok /\ fib.present)
    BY <1>2 DEF parse_one_backend
  <2>4. BackendFields \subseteq DOMAIN b
    BY <1>2 DEF parse_one_backend, BackendFields
  <2>5. /\ name.errs \in Nat /\ addr.errs \in Nat /\ mode.errs \in Nat /\ state.errs \in Nat
        /\ mac.errs \in Nat /\ egress.errs \in Nat /\ inner.errs \in Nat
    BY ReqStr, GetStr, Zenon
  <2>6. id.errs \in Nat /\ dport.errs \in Nat /\ vni.errs \in Nat
    BY ReqInt, GetInt
  <2>7. /\ fib.errs \in Nat
        /\ fib.errs = 0 => /\ fib.ok /\ fib.out = Says(elem, "fib", FALSE)
                           /\ fib.present \in BOOLEAN /\ (fib.present <=> "fib" \in DOMAIN elem)
    BY <1>2, GetBool
  <2>8. id.errs = 0 => id.val \in 0 .. MaxBackends - 1
    BY ReqInt
  <2>9. (vni.stated => vni.val \in U24) /\ (~vni.stated => vni.val = 0)
    BY GetInt
  <2>10. ~inner.stated => inner.val = 0
    BY GetStr
  <2>11. /\ mac.stated \in BOOLEAN /\ (mac.errs = 0 => (mac.stated <=> "mac" \in DOMAIN elem))
         /\ state.errs = 0 => state.val = Says(elem, "state", "up")
    BY GetStr
  <2> HIDE DEF name, id, addr, mode, state, mac, fib, egress, dport, vni, inner, b, errs
  <2>12. errs \in Nat /\ fib.errs \in Nat
    BY <2>1, <2>5, <2>6, <2>7
  <2>13. errs = 0 => id.errs = 0 /\ fib.errs = 0 /\ mac.errs = 0 /\ state.errs = 0
    <3> DEFINE n1 == name.errs  n2 == id.errs  n3 == addr.errs  n4 == mode.errs  n5 == state.errs
               n6 == mac.errs  n7 == fib.errs  n8 == egress.errs  n9 == dport.errs
               n10 == vni.errs  n11 == inner.errs
    <3>1. /\ n1 \in Nat /\ n2 \in Nat /\ n3 \in Nat /\ n4 \in Nat /\ n5 \in Nat /\ n6 \in Nat
          /\ n7 \in Nat /\ n8 \in Nat /\ n9 \in Nat /\ n10 \in Nat /\ n11 \in Nat
      BY <2>5, <2>6, <2>12
    <3>2. errs = n1 + n2 + n3 + n4 + n5 + n6 + n7 + n8 + n9 + n10 + n11
      BY <2>1
    <3> HIDE DEF n1, n2, n3, n4, n5, n6, n7, n8, n9, n10, n11
    <3>3. errs = 0 => n2 = 0 /\ n7 = 0 /\ n6 = 0 /\ n5 = 0
      BY <3>1, <3>2
    <3> QED
      BY <3>3 DEF n2, n5, n6, n7
  <2>14. ASSUME errs = 0 PROVE BackendOf(elem, b)
    <3>1. b.id \in 0 .. MaxBackends - 1
      BY <2>2, <2>8, <2>13, <2>14
    <3>2. b.encap_required <=> b.mode # "l2dsr"
      BY <2>2, <2>3, Zenon
    <3>3. b.up \in BOOLEAN /\ (b.up <=> Says(elem, "state", "up") = "up")
      BY <1>2, <2>3, <2>11, <2>13, <2>14, Zenon
    <3>4. b.mac_stated \in BOOLEAN /\ (b.mac_stated <=> "mac" \in DOMAIN elem)
      BY <2>2, <2>11, <2>13, <2>14, Zenon
    <3>5. /\ b.fib_stated \in BOOLEAN /\ (b.fib_stated <=> "fib" \in DOMAIN elem)
          /\ b.fib_value = Says(elem, "fib", FALSE)
      BY <2>2, <2>3, <2>7, <2>13, <2>14, Zenon
    <3>6. /\ b.vni_stated => b.vni \in U24
          /\ ~b.vni_stated => b.vni = 0
          /\ ~b.inner_mac_stated => b.inner_mac = 0
      BY <2>2, <2>9, <2>10, Zenon
    <3> QED
      BY <1>2, <2>4, <3>1, <3>2, <3>3, <3>4, <3>5, <3>6 DEF BackendOf
  <2> QED
    BY <2>12, <2>14 DEF errs, b
<1> QED
  BY <1>1, <1>2

(***************************************************************************)
(* The parser of [[vip]].                                                   *)
(***************************************************************************)

\* The keys parse_vip_keys() made without a complaint: complete, of one protocol.
KeysOf(tab, keys) ==
    /\ DOMAIN keys # {}
    /\ \A k \in DOMAIN keys : /\ keys[k].family \in {4, 6}
                              /\ keys[k].proto = tab["proto"] /\ keys[k].proto # "none"
                              /\ keys[k].port = Says(tab, "port", 0)

\* parse_vip_keys() reports a number of mistakes, and without any has read the keys.
LEMMA KeysRead ==
    ASSUME NEW tab, IsVip(tab)
    PROVE  LET got == parse_vip_keys(tab)
           IN /\ got.errs \in Nat /\ (got.errs = 0 => KeysOf(tab, got.val))
              /\ \E n \in Nat : DOMAIN got.val = 1 .. n
              /\ got.val \in Seq(Range(got.val)) /\ IsFiniteSet(DOMAIN got.val)
<1> DEFINE sec == section(tab, "addr", <<>>)
           port == get_int(tab, "port", U16)
           proto == req_str(tab, "proto", "none")
           B == {k \in DOMAIN sec.tab : sec.tab[k] = Wrong}
           keys == parse_vip_keys(tab).val
           errs == parse_vip_keys(tab).errs
<1>1. /\ Len(sec.tab) \in Nat /\ DOMAIN sec.tab = 1 .. Len(sec.tab)
      /\ IsFiniteSet(DOMAIN sec.tab)
  BY ArrayPlaces DEF IsVip
<1>2. keys = [k \in DOMAIN sec.tab |->
                 [family |-> parse_one_addr(sec.tab[k]).family, addr |-> parse_one_addr(sec.tab[k]).addr,
                  port |-> port.val, proto |-> proto.val]]
  BY DEF parse_vip_keys
<1>3. errs = port.errs + proto.errs + (IF DOMAIN sec.tab = {} THEN 1 ELSE Count(B))
  BY DEF parse_vip_keys
<1>4. port.errs \in Nat /\ (port.errs = 0 => port.val = Says(tab, "port", 0))
  BY GetInt
<1>5. /\ proto.errs \in Nat
      /\ proto.errs = 0 => "proto" \in DOMAIN tab /\ tab["proto"] # Wrong /\ proto.val = tab["proto"]
  BY ReqStr
<1>6. B \subseteq DOMAIN sec.tab
  OBVIOUS
<1>7. Count(B) \in Nat /\ (Count(B) = 0 <=> B = {})
  <2> HIDE DEF B, sec
  <2> QED
    BY <1>1, <1>6, PartCounted
<1>8. \A a \in Range(sec.tab) : a # Wrong => a.family \in {4, 6}
  BY DEF IsVip
<1>9. DOMAIN keys = 1 .. Len(sec.tab) /\ IsFiniteSet(DOMAIN keys)
  BY <1>1, <1>2
<1>10. keys \in Seq(Range(keys))
  <2>1. keys = [k \in 1 .. Len(sec.tab) |-> keys[k]]
    BY <1>1, <1>2
  <2>2. \A k \in 1 .. Len(sec.tab) : keys[k] \in Range(keys)
    BY <1>9 DEF Range
  <2> HIDE DEF keys, sec
  <2> QED
    BY <1>1, <2>1, <2>2
<1>11. errs \in Nat
  <2> HIDE DEF errs, port, proto, sec, B
  <2> QED
    BY <1>3, <1>4, <1>5, <1>7
<1>12. ASSUME errs = 0 PROVE KeysOf(tab, keys)
  <2>1. port.errs = 0 /\ proto.errs = 0 /\ DOMAIN sec.tab # {} /\ B = {}
    <3> HIDE DEF errs, port, proto, sec, B
    <3> QED
      BY <1>3, <1>4, <1>5, <1>7, <1>12
  <2>2. tab["proto"] # "none"
    BY <1>5, <2>1 DEF IsVip, IsOneOf
  <2>3. ASSUME NEW k \in DOMAIN keys
        PROVE  /\ keys[k].family \in {4, 6}
               /\ keys[k].proto = tab["proto"]
               /\ keys[k].port = Says(tab, "port", 0)
    <3>1. k \in DOMAIN sec.tab
      BY <1>2
    <3>2. sec.tab[k] # Wrong
      BY <2>1, <3>1
    <3>3. sec.tab[k] \in Range(sec.tab)
      BY <3>1 DEF Range
    <3>4. parse_one_addr(sec.tab[k]).family \in {4, 6}
      BY <1>8, <3>2, <3>3 DEF parse_one_addr
    <3>5. /\ keys[k].family = parse_one_addr(sec.tab[k]).family
          /\ keys[k].proto = proto.val /\ keys[k].port = port.val
      BY <1>2, <3>1
    <3> QED
      BY <1>4, <1>5, <2>1, <3>4, <3>5
  <2> QED
    BY <1>9, <1>1, <2>1, <2>2, <2>3 DEF KeysOf
<1> QED
  BY <1>1, <1>9, <1>10, <1>11, <1>12

\* The flags parse_vip_flag_bits() made without a complaint.
FlagsOf(tab, flags) ==
    /\ \A key \in FlagKeys : Flag(flags, key) = Says(tab, key, FALSE)
    /\ VIP_QUIC_CID_LEN(flags) = Says(tab, "quic_cid_len", 0)
    /\ VIP_DSCP(flags) = Says(tab, "dscp", 0)

\* A flag as a number.
Bit(b) == IF b THEN 1 ELSE 0

\* A flag that is read is what the file says.
LEMMA FlagIs ==
    ASSUME NEW flags, NEW key, NEW said \in BOOLEAN, (flags \div FlagBit(key)) % 2 = Bit(said)
    PROVE  Flag(flags, key) = said
<1>1. CASE said = TRUE
  <2>1. (flags \div FlagBit(key)) % 2 = 1
    BY <1>1 DEF Bit
  <2> QED
    BY <1>1, <2>1, Zenon DEF Flag
<1>2. CASE said = FALSE
  <2>1. (flags \div FlagBit(key)) % 2 = 0
    BY <1>2 DEF Bit
  <2>2. ~((flags \div FlagBit(key)) % 2 = 1)
    BY <2>1
  <2> QED
    BY <1>2, <2>2, Zenon DEF Flag
<1> QED
  BY <1>1, <1>2, Zenon

\* What a key adds to the flags.
LEMMA BitIs ==
    ASSUME NEW g, NEW said \in BOOLEAN, NEW n \in Nat, g.ok, g.out = said
    PROVE  (IF g.ok /\ g.out THEN n ELSE 0) = n * Bit(said)
<1>1. CASE said = TRUE
  <2>1. g.out = TRUE /\ Bit(said) = 1
    BY <1>1 DEF Bit
  <2>2. n * 1 = n
    OBVIOUS
  <2> QED
    BY <2>1, <2>2, Zenon
<1>2. CASE said = FALSE
  <2>1. g.out = FALSE /\ Bit(said) = 0
    BY <1>2 DEF Bit
  <2>2. n * 0 = 0
    OBVIOUS
  <2> QED
    BY <2>1, <2>2, Zenon
<1> QED
  BY <1>1, <1>2

\* parse_vip_flag_bits() reports a number of mistakes, and without any has set the
\* flags the file states, and none that an earlier key left behind.
LEMMA FlagsRead ==
    ASSUME NEW tab, IsVip(tab)
    PROVE  LET got == parse_vip_flag_bits(tab)
           IN got.errs \in Nat /\ (got.errs = 0 => FlagsOf(tab, got.val))
<1> DEFINE acl == get_bool(tab, "acl", FALSE)
           ratelimit == get_bool(tab, "ratelimit", acl.out)
           hash_5tuple == get_bool(tab, "hash_5tuple", ratelimit.out)
           hash_ports == get_bool(tab, "hash_ports", hash_5tuple.out)
           quic == get_bool(tab, "quic", hash_ports.out)
           cid_len == get_int(tab, "quic_cid_len", U5)
           dscp == get_int(tab, "dscp", U6)
           bit(g, key) == IF g.ok /\ g.out THEN FlagBit(key) ELSE 0
           val == parse_vip_flag_bits(tab).val
           errs == parse_vip_flag_bits(tab).errs
           said(key) == Says(tab, key, FALSE)
<1>1. \A key \in FlagKeys : IsOneOf(tab, key, BOOLEAN)
  BY DEF IsVip
<1>2. /\ acl.errs \in Nat /\ acl.out \in BOOLEAN
      /\ acl.errs = 0 => acl.ok /\ acl.out = said("acl")
  BY <1>1, GetBool DEF FlagKeys
<1>3. /\ ratelimit.errs \in Nat /\ ratelimit.out \in BOOLEAN
      /\ ratelimit.errs = 0 => ratelimit.ok /\ ratelimit.out = said("ratelimit")
  BY <1>1, <1>2, GetBool DEF FlagKeys
<1>4. /\ hash_5tuple.errs \in Nat /\ hash_5tuple.out \in BOOLEAN
      /\ hash_5tuple.errs = 0 => hash_5tuple.ok /\ hash_5tuple.out = said("hash_5tuple")
  BY <1>1, <1>3, GetBool DEF FlagKeys
<1>5. /\ hash_ports.errs \in Nat /\ hash_ports.out \in BOOLEAN
      /\ hash_ports.errs = 0 => hash_ports.ok /\ hash_ports.out = said("hash_ports")
  BY <1>1, <1>4, GetBool DEF FlagKeys
<1>6. /\ quic.errs \in Nat
      /\ quic.errs = 0 => quic.ok /\ quic.out = said("quic") /\ quic.out \in BOOLEAN
  BY <1>1, <1>5, GetBool DEF FlagKeys
<1>7. /\ cid_len.errs \in Nat
      /\ (cid_len.stated => cid_len.val \in U5) /\ (~cid_len.stated => cid_len.val = 0)
      /\ cid_len.errs = 0 => cid_len.val = Says(tab, "quic_cid_len", 0)
  BY GetInt
<1>8. /\ dscp.errs \in Nat
      /\ (dscp.stated => dscp.val \in U6) /\ (~dscp.stated => dscp.val = 0)
      /\ dscp.errs = 0 => dscp.val = Says(tab, "dscp", 0)
  BY GetInt
<1>9. cid_len.val \in 0 .. 31 /\ dscp.val \in 0 .. 63
  <2> HIDE DEF cid_len, dscp
  <2> QED
    BY <1>7, <1>8 DEF U5, U6
<1>10. errs = acl.errs + ratelimit.errs + hash_5tuple.errs + hash_ports.errs + quic.errs
              + cid_len.errs + dscp.errs
  BY DEF parse_vip_flag_bits
<1>11. val = bit(acl, "acl") + bit(ratelimit, "ratelimit") + bit(hash_5tuple, "hash_5tuple")
             + bit(hash_ports, "hash_ports") + bit(quic, "quic")
             + cid_len.val * 2^8 + dscp.val * 2^16
  BY DEF parse_vip_flag_bits
<1> HIDE DEF acl, ratelimit, hash_5tuple, hash_ports, quic, cid_len, dscp, val, errs
<1>12. errs \in Nat
  BY <1>2, <1>3, <1>4, <1>5, <1>6, <1>7, <1>8, <1>10
<1>13. ASSUME errs = 0 PROVE FlagsOf(tab, val)
  <2>1. /\ acl.errs = 0 /\ ratelimit.errs = 0 /\ hash_5tuple.errs = 0 /\ hash_ports.errs = 0
        /\ quic.errs = 0 /\ cid_len.errs = 0 /\ dscp.errs = 0
    <3>1. /\ acl.errs \in Nat /\ ratelimit.errs \in Nat /\ hash_5tuple.errs \in Nat
          /\ hash_ports.errs \in Nat /\ quic.errs \in Nat /\ cid_len.errs \in Nat /\ dscp.errs \in Nat
      BY <1>2, <1>3, <1>4, <1>5, <1>6, <1>7, <1>8
    <3> DEFINE n1 == acl.errs  n2 == ratelimit.errs  n3 == hash_5tuple.errs  n4 == hash_ports.errs
               n5 == quic.errs  n6 == cid_len.errs  n7 == dscp.errs
    <3>2. /\ n1 \in Nat /\ n2 \in Nat /\ n3 \in Nat /\ n4 \in Nat /\ n5 \in Nat /\ n6 \in Nat /\ n7 \in Nat
          /\ 0 = n1 + n2 + n3 + n4 + n5 + n6 + n7
      BY <1>10, <1>13, <3>1
    <3> HIDE DEF n1, n2, n3, n4, n5, n6, n7
    <3>3. n1 = 0 /\ n2 = 0 /\ n3 = 0 /\ n4 = 0 /\ n5 = 0 /\ n6 = 0 /\ n7 = 0
      BY <3>2
    <3> QED
      BY <3>3 DEF n1, n2, n3, n4, n5, n6, n7
  <2>2. \A key \in FlagKeys : said(key) \in BOOLEAN
    BY <1>2, <1>3, <1>4, <1>5, <1>6, <2>1, Zenon DEF FlagKeys
  <2> DEFINE F(key) == FlagBit(key)
  <2>0. /\ F("acl") = 1 /\ F("ratelimit") = 2 /\ F("hash_5tuple") = 4
        /\ F("hash_ports") = 16 /\ F("quic") = 8
    BY DEF FlagBit
  <2>3. bit(acl, "acl") = 1 * Bit(said("acl"))
    <3>1. acl.ok /\ acl.out = said("acl") /\ said("acl") \in BOOLEAN
      BY <1>2, <2>1, <2>2, Zenon DEF FlagKeys
    <3> HIDE DEF said
    <3> QED
      BY <2>0, <3>1, BitIs
  <2>4. bit(ratelimit, "ratelimit") = 2 * Bit(said("ratelimit"))
    <3>1. ratelimit.ok /\ ratelimit.out = said("ratelimit") /\ said("ratelimit") \in BOOLEAN
      BY <1>3, <2>1, <2>2, Zenon DEF FlagKeys
    <3> HIDE DEF said
    <3> QED
      BY <2>0, <3>1, BitIs
  <2>5. bit(hash_5tuple, "hash_5tuple") = 4 * Bit(said("hash_5tuple"))
    <3>1. hash_5tuple.ok /\ hash_5tuple.out = said("hash_5tuple") /\ said("hash_5tuple") \in BOOLEAN
      BY <1>4, <2>1, <2>2, Zenon DEF FlagKeys
    <3> HIDE DEF said
    <3> QED
      BY <2>0, <3>1, BitIs
  <2>6. bit(hash_ports, "hash_ports") = 16 * Bit(said("hash_ports"))
    <3>1. hash_ports.ok /\ hash_ports.out = said("hash_ports") /\ said("hash_ports") \in BOOLEAN
      BY <1>5, <2>1, <2>2, Zenon DEF FlagKeys
    <3> HIDE DEF said
    <3> QED
      BY <2>0, <3>1, BitIs
  <2>7. bit(quic, "quic") = 8 * Bit(said("quic"))
    <3>1. quic.ok /\ quic.out = said("quic") /\ said("quic") \in BOOLEAN
      BY <1>6, <2>1, <2>2, Zenon DEF FlagKeys
    <3> HIDE DEF said
    <3> QED
      BY <2>0, <3>1, BitIs
  <2> DEFINE a == Bit(said("acl"))  b == Bit(said("ratelimit"))  c == Bit(said("hash_5tuple"))
             d == Bit(said("quic"))  e == Bit(said("hash_ports"))
             n == cid_len.val  m == dscp.val
  <2>8. a \in 0 .. 1 /\ b \in 0 .. 1 /\ c \in 0 .. 1 /\ d \in 0 .. 1 /\ e \in 0 .. 1
    BY DEF Bit
  <2> HIDE DEF a, b, c, d, e, n, m
  <2>9. n \in 0 .. 31 /\ m \in 0 .. 63
    BY <1>9 DEF n, m
  <2>10. val = a + 2 * b + 4 * c + 8 * d + 16 * e + n * 2^8 + m * 2^16
    <3> DEFINE p1 == bit(acl, "acl")  p2 == bit(ratelimit, "ratelimit")
               p3 == bit(hash_5tuple, "hash_5tuple")  p4 == bit(hash_ports, "hash_ports")
               p5 == bit(quic, "quic")
    <3>1. p1 = 1 * a /\ p2 = 2 * b /\ p3 = 4 * c /\ p4 = 16 * e /\ p5 = 8 * d
      BY <2>3, <2>4, <2>5, <2>6, <2>7, Zenon DEF a, b, c, d, e
    <3>2. val = p1 + p2 + p3 + p4 + p5 + n * 2^8 + m * 2^16
      BY <1>11, Zenon DEF n, m
    <3> HIDE DEF p1, p2, p3, p4, p5
    <3> QED
      BY <2>8, <2>9, <3>1, <3>2
  <2>11. /\ (val \div 1) % 2 = a /\ (val \div 2) % 2 = b /\ (val \div 4) % 2 = c
         /\ (val \div 8) % 2 = d /\ (val \div 16) % 2 = e
         /\ VIP_QUIC_CID_LEN(val) = n /\ VIP_DSCP(val) = m
    <3>1. 2^8 = 256 /\ 2^16 = 65536 /\ 2^5 = 32 /\ 2^6 = 64
      OBVIOUS
    <3>2. val = a + 2 * b + 4 * c + 8 * d + 16 * e + 256 * n + 65536 * m
      BY <2>8, <2>9, <2>10, <3>1
    <3>3. val \in Nat
      BY <2>8, <2>9, <3>2
    <3>4. (val \div 1) % 2 = a /\ (val \div 2) % 2 = b
      BY <2>8, <2>9, <3>2, <3>3
    <3>5. (val \div 4) % 2 = c
      <4>1. val \div 4 = c + 2 * (d + 2 * e + 32 * n + 8192 * m)
        BY <2>8, <2>9, <3>2, <3>3
      <4> QED
        BY <2>8, <2>9, <4>1
    <3>6. (val \div 8) % 2 = d
      <4>1. val \div 8 = d + 2 * (e + 16 * n + 4096 * m)
        BY <2>8, <2>9, <3>2, <3>3
      <4> QED
        BY <2>8, <2>9, <4>1
    <3>7. (val \div 16) % 2 = e
      <4>1. val \div 16 = e + 2 * (8 * n + 2048 * m)
        BY <2>8, <2>9, <3>2, <3>3
      <4> QED
        BY <2>8, <2>9, <4>1
    <3>8. (val \div 256) % 32 = n
      <4>1. val \div 256 = n + 32 * (8 * m)
        BY <2>8, <2>9, <3>2, <3>3
      <4> QED
        BY <2>9, <4>1
    <3>9. (val \div 65536) % 64 = m
      <4>1. val \div 65536 = m
        BY <2>8, <2>9, <3>2, <3>3
      <4> QED
        BY <2>9, <4>1
    <3> QED
      BY <3>1, <3>4, <3>5, <3>6, <3>7, <3>8, <3>9 DEF VIP_QUIC_CID_LEN, VIP_DSCP
  <2>12. ASSUME NEW key \in FlagKeys PROVE Flag(val, key) = said(key)
    <3>1. said(key) \in BOOLEAN
      BY <2>2
    <3>2. (val \div FlagBit(key)) % 2 = Bit(said(key))
      BY <2>11 DEF FlagKeys, FlagBit, a, b, c, d, e
    <3> HIDE DEF said
    <3> QED
      BY <3>1, <3>2, FlagIs
  <2> QED
    BY <1>7, <1>8, <2>1, <2>11, <2>12 DEF FlagsOf, n, m
<1> QED
  BY <1>12, <1>13 DEF val, errs

\* Fields of a member.
MemberFields == {"backend_name", "backend_id", "weight"}

\* The members parse_vip_members() made without a complaint.
MembersOf(members) ==
    \A i \in DOMAIN members :
        /\ members[i].weight \in Nat /\ members[i].weight > 0
        /\ DOMAIN members[i] = MemberFields

\* parse_vip_member() reports a number of mistakes, and without any has a weight.
LEMMA MemberRead ==
    ASSUME NEW elem
    PROVE  LET got == parse_vip_member(elem)
           IN /\ got.errs \in Nat
              /\ got.errs = 0 => got.val.weight \in Nat /\ got.val.weight > 0
              /\ DOMAIN got.val = MemberFields
<1> DEFINE tab == IF elem = Wrong THEN <<>> ELSE elem
           backend == req_str(tab, "backend", NoName)
           weight == req_int(tab, "weight", 1 .. U32Max)
           got == parse_vip_member(elem)
<1>1. backend.errs \in Nat
  BY ReqStr
<1>2. weight.errs \in Nat /\ (weight.errs = 0 => weight.val \in 1 .. U32Max)
  <2> HIDE DEF tab
  <2> QED
    BY ReqInt, Zenon
<1>3. got.errs = IF elem = Wrong THEN 1 ELSE backend.errs + weight.errs
  BY DEF parse_vip_member
<1>4. got.val = [backend_name |-> backend.val, backend_id |-> 0, weight |-> weight.val]
  BY DEF parse_vip_member
<1> HIDE DEF backend, weight, got
<1>5. got.val.weight = weight.val /\ DOMAIN got.val = MemberFields
  BY <1>4 DEF MemberFields
<1>6. got.errs \in Nat /\ (got.errs = 0 => weight.errs = 0)
  BY <1>1, <1>2, <1>3
<1>7. weight.val \in 1 .. U32Max => weight.val \in Nat /\ weight.val > 0
  BY ConfFileAssumption
<1> QED
  BY <1>2, <1>5, <1>6, <1>7 DEF got

\* parse_vip_members() reports a number of mistakes, and without any has read the list.
LEMMA MembersRead ==
    ASSUME NEW tab, IsArray(tab, "members")
    PROVE  LET got == parse_vip_members(tab)
           IN /\ got.errs \in Nat /\ (got.errs = 0 => MembersOf(got.val))
              /\ got.val \in Seq(Range(got.val)) /\ IsFiniteSet(DOMAIN got.val)
<1> DEFINE arr == section(tab, "members", <<>>)
           each == [i \in DOMAIN arr.tab |-> parse_vip_member(arr.tab[i]).errs]
           val == [i \in DOMAIN arr.tab |-> parse_vip_member(arr.tab[i]).val]
           got == parse_vip_members(tab)
<1>1. /\ Len(arr.tab) \in Nat /\ DOMAIN arr.tab = 1 .. Len(arr.tab)
      /\ IsFiniteSet(DOMAIN arr.tab) /\ arr.errs \in Nat
  BY ArrayPlaces, Section
<1>2. /\ got.val = val
      /\ got.errs = arr.errs + Total(each) + IF "members" \in DOMAIN tab THEN 0 ELSE 1
  BY DEF parse_vip_members, parse_array
<1>3. Total(each) \in Nat /\ (Total(each) = 0 <=> \A i \in DOMAIN each : each[i] = 0)
  <2>1. \A i \in DOMAIN each : each[i] \in Nat
    BY MemberRead
  <2>2. IsFiniteSet(DOMAIN each)
    BY <1>1
  <2> HIDE DEF each
  <2> QED
    BY <2>1, <2>2, TotalZero
<1>4. got.errs \in Nat /\ (got.errs = 0 => Total(each) = 0)
  <2> HIDE DEF got, each, arr
  <2> QED
    BY <1>1, <1>2, <1>3
<1>5. ASSUME Total(each) = 0 PROVE MembersOf(val)
  <2>1. ASSUME NEW i \in DOMAIN val
        PROVE  val[i].weight \in Nat /\ val[i].weight > 0 /\ DOMAIN val[i] = MemberFields
    <3>1. i \in DOMAIN each /\ each[i] = 0
      BY <1>3, <1>5
    <3>2. parse_vip_member(arr.tab[i]).errs = 0 /\ val[i] = parse_vip_member(arr.tab[i]).val
      BY <3>1
    <3> QED
      BY <3>2, MemberRead
  <2> QED
    BY <2>1 DEF MembersOf
<1>6. val \in Seq(Range(val)) /\ IsFiniteSet(DOMAIN val)
  <2>1. \A k \in 1 .. Len(arr.tab) : val[k] \in Range(val)
    BY <1>1 DEF Range
  <2>2. val = [k \in 1 .. Len(arr.tab) |-> val[k]] /\ DOMAIN val = DOMAIN arr.tab
    BY <1>1
  <2> HIDE DEF val, arr
  <2> QED
    BY <1>1, <2>1, <2>2
<1> HIDE DEF val, each
<1> QED
  BY <1>2, <1>4, <1>5, <1>6 DEF got

\* A VIP parse_one_vip() made of a table without a complaint.
VipOf(elem, v) ==
    /\ elem # Wrong
    /\ KeysOf(elem, v.keys) /\ FlagsOf(elem, v.flags) /\ MembersOf(v.members)

\* The shape of any VIP: its keys and members are arrays.
IsShape(v) ==
    /\ v = [keys |-> v.keys, hash_key |-> v.hash_key, table_seed |-> v.table_seed,
            flags |-> v.flags, members |-> v.members]
    /\ v.keys \in Seq(Range(v.keys)) /\ IsFiniteSet(DOMAIN v.keys)
    /\ v.members \in Seq(Range(v.members)) /\ IsFiniteSet(DOMAIN v.members)

\* A table that states nothing is a VIP as far as its values go.
LEMMA NothingStated == IsVip(<<>>)
<1>1. \A key : key \notin DOMAIN <<>>
  OBVIOUS
<1>2. section(<<>>, "addr", <<>>).tab = <<>>
  BY <1>1 DEF section
<1>3. Range(<<>>) = {}
  BY <1>1 DEF Range
<1> QED
  BY <1>1, <1>2, <1>3 DEF IsVip, IsOneOf, IsArray

\* parse_one_vip() reports a number of mistakes, and without any has read the table.
LEMMA VipRead ==
    ASSUME NEW elem, elem # Wrong => IsVip(elem)
    PROVE  LET got == parse_one_vip(elem)
           IN got.errs \in Nat /\ IsShape(got.val) /\ (got.errs = 0 => VipOf(elem, got.val))
<1> DEFINE tab == IF elem = Wrong THEN <<>> ELSE elem
           keys == parse_vip_keys(tab)
           hash_key == req_str(tab, "hash_key", 0)
           table_seed == req_str(tab, "table_seed", 0)
           flags == parse_vip_flag_bits(tab)
           members == parse_vip_members(tab)
           got == parse_one_vip(elem)
<1>1. IsVip(tab) /\ IsArray(tab, "members")
  <2>1. IsVip(tab)
    BY NothingStated
  <2> HIDE DEF tab
  <2> QED
    BY <2>1 DEF IsVip
<1>2. /\ got.val = [keys |-> keys.val, hash_key |-> hash_key.val, table_seed |-> table_seed.val,
                    flags |-> flags.val, members |-> members.val]
      /\ got.errs = IF elem = Wrong THEN 1
                    ELSE keys.errs + hash_key.errs + table_seed.errs + flags.errs + members.errs
  BY DEF parse_one_vip
<1>3. elem # Wrong => tab = elem
  OBVIOUS
<1> HIDE DEF tab
<1>4. /\ keys.errs \in Nat /\ (keys.errs = 0 => KeysOf(tab, keys.val))
      /\ keys.val \in Seq(Range(keys.val)) /\ IsFiniteSet(DOMAIN keys.val)
  BY <1>1, KeysRead
<1>5. flags.errs \in Nat /\ (flags.errs = 0 => FlagsOf(tab, flags.val))
  BY <1>1, FlagsRead
<1>6. /\ members.errs \in Nat /\ (members.errs = 0 => MembersOf(members.val))
      /\ members.val \in Seq(Range(members.val)) /\ IsFiniteSet(DOMAIN members.val)
  BY <1>1, MembersRead
<1>7. hash_key.errs \in Nat /\ table_seed.errs \in Nat
  BY ReqStr, Zenon
<1> HIDE DEF keys, hash_key, table_seed, flags, members, got
<1>8. got.errs \in Nat
  BY <1>2, <1>4, <1>5, <1>6, <1>7
<1>9. got.val.keys = keys.val /\ got.val.flags = flags.val /\ got.val.members = members.val
  BY <1>2
<1>10. IsShape(got.val)
  <2>1. got.val = [keys |-> got.val.keys, hash_key |-> got.val.hash_key,
                   table_seed |-> got.val.table_seed, flags |-> got.val.flags, members |-> got.val.members]
    BY <1>2
  <2> QED
    BY <1>4, <1>6, <1>9, <2>1, Zenon DEF IsShape
<1>11. ASSUME got.errs = 0 PROVE VipOf(elem, got.val)
  <2>1. elem # Wrong
    BY <1>2, <1>11
  <2>2. keys.errs = 0 /\ flags.errs = 0 /\ members.errs = 0
    <3> DEFINE n1 == keys.errs  n2 == hash_key.errs  n3 == table_seed.errs
               n4 == flags.errs  n5 == members.errs
    <3>1. /\ n1 \in Nat /\ n2 \in Nat /\ n3 \in Nat /\ n4 \in Nat /\ n5 \in Nat
          /\ 0 = n1 + n2 + n3 + n4 + n5
      BY <1>2, <1>4, <1>5, <1>6, <1>7, <1>11, <2>1
    <3> HIDE DEF n1, n2, n3, n4, n5
    <3>2. n1 = 0 /\ n4 = 0 /\ n5 = 0
      BY <3>1
    <3> QED
      BY <3>2 DEF n1, n4, n5
  <2> QED
    BY <1>3, <1>4, <1>5, <1>6, <1>9, <2>1, <2>2, Zenon DEF VipOf
<1> QED
  BY <1>8, <1>10, <1>11 DEF got

(***************************************************************************)
(* The whole file.                                                          *)
(***************************************************************************)

\* An array the parsers make.
IsList(arr) == /\ Len(arr) \in Nat /\ DOMAIN arr = 1 .. Len(arr) /\ IsFiniteSet(DOMAIN arr)

\* A function on the places of an array is an array.
LEMMA ListOf ==
    ASSUME NEW f, NEW n \in Nat, f = [i \in 1 .. n |-> f[i]]
    PROVE  IsList(f)
<1>1. \A i \in 1 .. n : f[i] \in Range(f)
  BY DEF Range
<1>2. f \in Seq(Range(f)) /\ Len(f) = n
  BY <1>1
<1>3. IsFiniteSet(1 .. n)
  BY FS_Interval
<1> QED
  BY <1>2, <1>3 DEF IsList

\* parse_backends() makes a backend of every table.
LEMMA BackendsRead ==
    ASSUME NEW top, IsToml(top)
    PROVE  LET got == parse_backends(top)
           IN /\ got.errs \in Nat /\ IsList(got.val)
              /\ got.errs = 0 => \A i \in DOMAIN got.val : BackendOf(top["backend"][i], got.val[i])
<1> DEFINE arr == section(top, "backend", <<>>)
           each == [i \in DOMAIN arr.tab |-> parse_one_backend(arr.tab[i]).errs]
           val == [i \in DOMAIN arr.tab |-> parse_one_backend(arr.tab[i]).val]
           got == parse_backends(top)
<1>1. /\ Len(arr.tab) \in Nat /\ DOMAIN arr.tab = 1 .. Len(arr.tab)
      /\ IsFiniteSet(DOMAIN arr.tab) /\ arr.errs \in Nat
  BY ArrayPlaces, Section DEF IsToml
<1>2. got.val = val /\ got.errs = arr.errs + Total(each)
  BY DEF parse_backends, parse_array
<1>3. ASSUME NEW i \in DOMAIN arr.tab PROVE arr.tab[i] # Wrong => IsOneOf(arr.tab[i], "fib", BOOLEAN)
  <2>1. arr.tab[i] \in Range(arr.tab)
    BY DEF Range
  <2> QED
    BY <2>1 DEF IsToml
<1>4. Total(each) \in Nat /\ (Total(each) = 0 <=> \A i \in DOMAIN each : each[i] = 0)
  <2>1. \A i \in DOMAIN each : each[i] \in Nat
    BY <1>3, BackendRead
  <2>2. IsFiniteSet(DOMAIN each)
    BY <1>1
  <2> HIDE DEF each
  <2> QED
    BY <2>1, <2>2, TotalZero
<1>5. got.errs \in Nat /\ (got.errs = 0 => Total(each) = 0 /\ arr.errs = 0)
  <2> HIDE DEF got, each, arr
  <2> QED
    BY <1>1, <1>2, <1>4
<1>6. ASSUME got.errs = 0, NEW i \in DOMAIN val PROVE BackendOf(top["backend"][i], val[i])
  <2>1. i \in DOMAIN each /\ each[i] = 0 /\ i \in DOMAIN arr.tab
    BY <1>4, <1>5, <1>6
  <2>2. parse_one_backend(arr.tab[i]).errs = 0 /\ val[i] = parse_one_backend(arr.tab[i]).val
    BY <2>1
  <2>3. BackendOf(arr.tab[i], val[i])
    BY <1>3, <2>1, <2>2, BackendRead
  <2>4. arr.tab = top["backend"]
    <3>1. arr.tab # <<>>
      BY <2>1
    <3> QED
      BY <3>1, Section
  <2> HIDE DEF val, arr
  <2> QED
    BY <2>3, <2>4
<1>7. IsList(val)
  <2>1. val = [k \in 1 .. Len(arr.tab) |-> val[k]]
    BY <1>1
  <2> HIDE DEF val, arr
  <2> QED
    BY <1>1, <2>1, ListOf
<1> HIDE DEF val, each
<1> QED
  BY <1>2, <1>5, <1>6, <1>7 DEF got

\* parse_vips() makes a VIP of every table.
LEMMA VipsRead ==
    ASSUME NEW top, IsToml(top)
    PROVE  LET got == parse_vips(top)
           IN /\ got.errs \in Nat /\ IsList(got.val) /\ (\A e \in DOMAIN got.val : IsShape(got.val[e]))
              /\ got.errs = 0 => \A e \in DOMAIN got.val : VipOf(top["vip"][e], got.val[e])
<1> DEFINE arr == section(top, "vip", <<>>)
           each == [i \in DOMAIN arr.tab |-> parse_one_vip(arr.tab[i]).errs]
           val == [i \in DOMAIN arr.tab |-> parse_one_vip(arr.tab[i]).val]
           got == parse_vips(top)
<1>1. /\ Len(arr.tab) \in Nat /\ DOMAIN arr.tab = 1 .. Len(arr.tab)
      /\ IsFiniteSet(DOMAIN arr.tab) /\ arr.errs \in Nat
  BY ArrayPlaces, Section DEF IsToml
<1>2. got.val = val /\ got.errs = arr.errs + Total(each)
  BY DEF parse_vips, parse_array
<1>3. ASSUME NEW i \in DOMAIN arr.tab PROVE arr.tab[i] # Wrong => IsVip(arr.tab[i])
  <2>1. arr.tab[i] \in Range(arr.tab)
    BY DEF Range
  <2> QED
    BY <2>1 DEF IsToml
<1>4. Total(each) \in Nat /\ (Total(each) = 0 <=> \A i \in DOMAIN each : each[i] = 0)
  <2>1. \A i \in DOMAIN each : each[i] \in Nat
    BY <1>3, VipRead
  <2>2. IsFiniteSet(DOMAIN each)
    BY <1>1
  <2> HIDE DEF each
  <2> QED
    BY <2>1, <2>2, TotalZero
<1>5. got.errs \in Nat /\ (got.errs = 0 => Total(each) = 0 /\ arr.errs = 0)
  <2> HIDE DEF got, each, arr
  <2> QED
    BY <1>1, <1>2, <1>4
<1>6. ASSUME got.errs = 0, NEW i \in DOMAIN val PROVE VipOf(top["vip"][i], val[i])
  <2>1. i \in DOMAIN each /\ each[i] = 0 /\ i \in DOMAIN arr.tab
    BY <1>4, <1>5, <1>6
  <2>2. parse_one_vip(arr.tab[i]).errs = 0 /\ val[i] = parse_one_vip(arr.tab[i]).val
    BY <2>1
  <2>3. VipOf(arr.tab[i], val[i])
    BY <1>3, <2>1, <2>2, VipRead
  <2>4. arr.tab = top["vip"]
    <3>1. arr.tab # <<>>
      BY <2>1
    <3> QED
      BY <3>1, Section
  <2> HIDE DEF val, arr
  <2> QED
    BY <2>3, <2>4
<1>7. \A i \in DOMAIN val : IsShape(val[i])
  BY <1>3, VipRead
<1>8. IsList(val)
  <2>1. val = [k \in 1 .. Len(arr.tab) |-> val[k]]
    BY <1>1
  <2> HIDE DEF val, arr
  <2> QED
    BY <1>1, <2>1, ListOf
<1> HIDE DEF val, each
<1> QED
  BY <1>2, <1>5, <1>6, <1>7, <1>8 DEF got

\* What conf_load() hands to conf_check().
IsConf(c) ==
    /\ c = [instance |-> c.instance, acl |-> c.acl, ratelimit |-> c.ratelimit,
            backends |-> c.backends, vips |-> c.vips]
    /\ IsFiniteSet(DOMAIN c.instance.tx_ports)
    /\ c.acl.enabled \in BOOLEAN /\ \A l \in Lists : IsRules(c.acl.list[l], IsV6(l))
    /\ c.ratelimit.enabled \in BOOLEAN /\ c.ratelimit.tokens_per_sec \in Nat
    /\ IsList(c.backends)
    /\ IsList(c.vips) /\ \A e \in DOMAIN c.vips : IsShape(c.vips[e])

\* ... made of a file without a complaint.
ConfOf(top, c) ==
    /\ \A i \in DOMAIN c.backends : BackendOf(top["backend"][i], c.backends[i])
    /\ \A e \in DOMAIN c.vips : VipOf(top["vip"][e], c.vips[e])

\* The parsers report a number of mistakes, and without any have read the file.
LEMMA FileRead ==
    ASSUME NEW top, IsToml(top)
    PROVE  LET got == ParseSections(top, FALSE)
           IN /\ got.errs \in Nat
              /\ got.errs = 0 => IsConf(got.val) /\ ConfOf(top, got.val)
<1> DEFINE inst == parse_instance(top)
           acl == parse_acl(top)
           rl == parse_ratelimit(top)
           bes == parse_backends(top)
           vips == parse_vips(top)
           got == ParseSections(top, FALSE)
<1>1. /\ got.val = [instance |-> inst.val, acl |-> acl.val, ratelimit |-> rl.val,
                    backends |-> bes.val, vips |-> vips.val]
      /\ got.errs = inst.errs + acl.errs + rl.errs + bes.errs + vips.errs
  BY DEF ParseSections
<1>2. inst.errs \in Nat /\ IsFiniteSet(DOMAIN inst.val.tx_ports)
  BY InstanceRead
<1>3. /\ acl.errs \in Nat /\ acl.val.enabled \in BOOLEAN
      /\ \A l \in Lists : IsRules(acl.val.list[l], IsV6(l))
  BY AclRead
<1>4. rl.errs \in Nat /\ rl.val.enabled \in BOOLEAN /\ rl.val.tokens_per_sec \in Nat
  BY RatelimitRead
<1>5. /\ bes.errs \in Nat /\ IsList(bes.val)
      /\ bes.errs = 0 => \A i \in DOMAIN bes.val : BackendOf(top["backend"][i], bes.val[i])
  BY BackendsRead
<1>6. /\ vips.errs \in Nat /\ IsList(vips.val) /\ (\A e \in DOMAIN vips.val : IsShape(vips.val[e]))
      /\ vips.errs = 0 => \A e \in DOMAIN vips.val : VipOf(top["vip"][e], vips.val[e])
  BY VipsRead
<1> HIDE DEF inst, acl, rl, bes, vips, got
<1> DEFINE n1 == inst.errs  n2 == acl.errs  n3 == rl.errs  n4 == bes.errs  n5 == vips.errs
<1>7. /\ n1 \in Nat /\ n2 \in Nat /\ n3 \in Nat /\ n4 \in Nat /\ n5 \in Nat
      /\ got.errs = n1 + n2 + n3 + n4 + n5
  BY <1>1, <1>2, <1>3, <1>4, <1>5, <1>6
<1>8. got.errs \in Nat /\ (got.errs = 0 => n4 = 0 /\ n5 = 0)
  <2> HIDE DEF n1, n2, n3, n4, n5
  <2> QED
    BY <1>7
<1>9. ASSUME got.errs = 0 PROVE IsConf(got.val) /\ ConfOf(top, got.val)
  <2>1. /\ got.val.instance = inst.val /\ got.val.acl = acl.val /\ got.val.ratelimit = rl.val
        /\ got.val.backends = bes.val /\ got.val.vips = vips.val
    BY <1>1
  <2>2. got.val = [instance |-> got.val.instance, acl |-> got.val.acl, ratelimit |-> got.val.ratelimit,
                   backends |-> got.val.backends, vips |-> got.val.vips]
    BY <1>1
  <2>3. IsConf(got.val)
    BY <1>2, <1>3, <1>4, <1>5, <1>6, <2>1, <2>2, Zenon DEF IsConf
  <2>4. ConfOf(top, got.val)
    BY <1>5, <1>6, <1>8, <1>9, <2>1, Zenon DEF ConfOf
  <2> QED
    BY <2>3, <2>4
<1> QED
  BY <1>8, <1>9 DEF got

(***************************************************************************)
(* The rules: [instance] and [[backend]].                                   *)
(***************************************************************************)

\* What check_instance() reports as a mistake does not depend on the host.
LEMMA InstanceChecked ==
    ASSUME NEW inst, NEW here, IsFiniteSet(DOMAIN inst.tx_ports)
    PROVE  /\ check_instance(inst, here).errs \in Nat
           /\ check_instance(inst, here).warns \in Nat
           /\ check_instance(inst, here).errs = check_instance(inst, {}).errs
<1> DEFINE P == {p \in Pairs(inst.tx_ports) : inst.tx_ports[p[1]] = inst.tx_ports[p[2]]}
           Q == {i \in DOMAIN inst.tx_ports : inst.tx_ports[i] = inst.iface}
<1>1. P \subseteq Pairs(inst.tx_ports) /\ Q \subseteq DOMAIN inst.tx_ports
  OBVIOUS
<1>2. IsFiniteSet(Pairs(inst.tx_ports))
  BY PairsFinite
<1>3. Count(P) \in Nat /\ Count(Q) \in Nat
  <2> HIDE DEF P, Q
  <2> QED
    BY <1>1, <1>2, PartCounted
<1> DEFINE absent(h) == IF inst.iface \in h THEN 0 ELSE 1
<1>4. \A h : check_instance(inst, h).errs = IF inst.iface = NoName THEN 1 ELSE Count(P)
  BY DEF check_instance
<1>5. check_instance(inst, here).warns = IF inst.iface = NoName THEN 0 ELSE Count(Q) + absent(here)
  BY DEF check_instance
<1>6. absent(here) \in Nat
  OBVIOUS
<1> DEFINE n == Count(Q)  a == absent(here)
<1>7. check_instance(inst, here).warns \in Nat
  <2>1. n \in Nat /\ a \in Nat /\ check_instance(inst, here).warns = IF inst.iface = NoName THEN 0 ELSE n + a
    BY <1>3, <1>5, <1>6, Zenon
  <2> HIDE DEF n, a
  <2> QED
    BY <2>1
<1> HIDE DEF P, Q
<1>8. check_instance(inst, here).errs = check_instance(inst, {}).errs
  BY <1>4, Zenon
<1> QED
  BY <1>3, <1>4, <1>7, <1>8

BackendRules == {"addr", "tunnel_src", "vni", "inner_mac", "not_vxlan", "egress"}

\* A set of six is finite.
LEMMA RulesFinite == IsFiniteSet(BackendRules)
<1>1. \A a : IsFiniteSet({a})
  BY FS_Singleton
<1>2. IsFiniteSet({"addr"} \cup {"tunnel_src"} \cup {"vni"} \cup {"inner_mac"} \cup {"not_vxlan"} \cup {"egress"})
  BY <1>1, FS_Union
<1>3. BackendRules = {"addr"} \cup {"tunnel_src"} \cup {"vni"} \cup {"inner_mac"} \cup {"not_vxlan"} \cup {"egress"}
  BY DEF BackendRules
<1> QED
  BY <1>2, <1>3

\* A backend check_one_backend() has nothing to say of.
BackendFine(b, inst) ==
    /\ b.addr # 0
    /\ b.encap_required => inst.tunnel_src_set
    /\ b.mode = "vxlan" => b.vni_stated /\ b.vni # 0 /\ b.inner_mac # 0
    /\ b.mode # "vxlan" => ~b.vni_stated /\ ~b.inner_mac_stated

\* check_one_backend() counts the rules that are broken.
LEMMA OneBackendChecked ==
    ASSUME NEW b, NEW inst
    PROVE  /\ check_one_backend(b, inst) \in Nat
           /\ check_one_backend(b, inst) = 0 => BackendFine(b, inst)
<1> DEFINE Broken(rule) ==
              CASE rule = "addr" -> b.addr = 0
                [] rule = "tunnel_src" -> b.encap_required /\ ~inst.tunnel_src_set
                [] rule = "vni" -> b.mode = "vxlan" /\ (~b.vni_stated \/ b.vni = 0 \/ b.vni >= 2^24)
                [] rule = "inner_mac" -> b.mode = "vxlan" /\ (~b.inner_mac_stated \/ b.inner_mac = 0)
                [] rule = "not_vxlan" -> b.mode # "vxlan" /\ (b.vni_stated \/ b.inner_mac_stated)
                [] rule = "egress" -> b.has_egress /\ ~is_attach_or_txport(inst, b.egress)
           B == {rule \in BackendRules : Broken(rule)}
<1>1. check_one_backend(b, inst) = Count(B)
  BY DEF check_one_backend, BackendRules
<1>2. B \subseteq BackendRules
  OBVIOUS
<1>3. Count(B) \in Nat /\ (Count(B) = 0 <=> B = {})
  <2> HIDE DEF B
  <2> QED
    BY <1>2, RulesFinite, PartCounted
<1>4. ASSUME B = {} PROVE BackendFine(b, inst)
  <2>1. \A rule \in BackendRules : ~Broken(rule)
    BY <1>4
  <2>2. ~Broken("addr") /\ ~Broken("tunnel_src") /\ ~Broken("vni") /\ ~Broken("inner_mac") /\ ~Broken("not_vxlan")
    <3> HIDE DEF Broken
    <3> QED
      BY <2>1 DEF BackendRules
  <2>3. b.addr # 0
    BY <2>2
  <2>4. ~(b.encap_required /\ ~inst.tunnel_src_set)
    BY <2>2
  <2>5. ~(b.mode = "vxlan" /\ (~b.vni_stated \/ b.vni = 0))
    BY <2>2
  <2>6. ~(b.mode = "vxlan" /\ (~b.inner_mac_stated \/ b.inner_mac = 0))
    BY <2>2
  <2>7. ~(b.mode # "vxlan" /\ (b.vni_stated \/ b.inner_mac_stated))
    BY <2>2
  <2> HIDE DEF Broken, B
  <2> QED
    BY <2>3, <2>4, <2>5, <2>6, <2>7 DEF BackendFine
<1> HIDE DEF B
<1> QED
  BY <1>1, <1>3, <1>4

\* The backends check_backends() has nothing to say of: a slot and a name each.
BackendsFine(c) ==
    /\ \A i \in DOMAIN c.backends : /\ c.backends[i].id # 0 /\ ~(c.backends[i].id >= MaxBackends)
                                    /\ BackendFine(c.backends[i], c.instance)
    /\ \A i, j \in DOMAIN c.backends :
          c.backends[i].name = c.backends[j].name \/ c.backends[i].id = c.backends[j].id => i = j

\* check_backends() reports a number of mistakes, and without any the backends are fine.
LEMMA BackendsChecked ==
    ASSUME NEW c, IsList(c.backends)
    PROVE  check_backends(c) \in Nat /\ (check_backends(c) = 0 => BackendsFine(c))
<1> DEFINE bs == c.backends
           Z == {i \in DOMAIN bs : bs[i].id = 0}
           M == {i \in DOMAIN bs : bs[i].id >= MaxBackends}
           N == {p \in Pairs(bs) : bs[p[1]].name = bs[p[2]].name}
           I == {p \in Pairs(bs) : bs[p[1]].id = bs[p[2]].id}
           each == [i \in DOMAIN bs |-> check_one_backend(bs[i], c.instance)]
           many == IF Len(bs) > MaxBackends - 1 THEN 1 ELSE 0
<1>1. check_backends(c) = many + Count(Z) + Count(M) + Count(N) + Count(I) + Total(each)
  BY DEF check_backends
<1>2. IsFiniteSet(DOMAIN bs) /\ IsFiniteSet(Pairs(bs))
  BY PairsFinite DEF IsList
<1>3. Z \subseteq DOMAIN bs /\ M \subseteq DOMAIN bs /\ N \subseteq Pairs(bs) /\ I \subseteq Pairs(bs)
  OBVIOUS
<1>4. /\ Count(Z) \in Nat /\ (Count(Z) = 0 <=> Z = {})
      /\ Count(M) \in Nat /\ (Count(M) = 0 <=> M = {})
      /\ Count(N) \in Nat /\ (Count(N) = 0 <=> N = {})
      /\ Count(I) \in Nat /\ (Count(I) = 0 <=> I = {})
  <2> HIDE DEF Z, M, N, I, bs
  <2> QED
    BY <1>2, <1>3, PartCounted
<1>5. Total(each) \in Nat /\ (Total(each) = 0 <=> \A i \in DOMAIN each : each[i] = 0)
  <2>1. \A i \in DOMAIN each : each[i] \in Nat
    BY OneBackendChecked
  <2>2. IsFiniteSet(DOMAIN each)
    BY <1>2
  <2> HIDE DEF each
  <2> QED
    BY <2>1, <2>2, TotalZero
<1>6. many \in Nat
  OBVIOUS
<1>7. /\ check_backends(c) \in Nat
      /\ check_backends(c) = 0 => Count(Z) = 0 /\ Count(M) = 0 /\ Count(N) = 0 /\ Count(I) = 0 /\ Total(each) = 0
  <2> DEFINE n1 == Count(Z)  n2 == Count(M)  n3 == Count(N)  n4 == Count(I)  n5 == Total(each)
  <2>1. /\ n1 \in Nat /\ n2 \in Nat /\ n3 \in Nat /\ n4 \in Nat /\ n5 \in Nat
        /\ check_backends(c) = many + n1 + n2 + n3 + n4 + n5
    BY <1>1, <1>4, <1>5
  <2> HIDE DEF many, n1, n2, n3, n4, n5
  <2>2. /\ check_backends(c) \in Nat
        /\ check_backends(c) = 0 => n1 = 0 /\ n2 = 0 /\ n3 = 0 /\ n4 = 0 /\ n5 = 0
    BY <1>6, <2>1
  <2> QED
    BY <2>2 DEF n1, n2, n3, n4, n5
<1>8. ASSUME check_backends(c) = 0 PROVE BackendsFine(c)
  <2>1. Z = {} /\ M = {} /\ N = {} /\ I = {} /\ \A i \in DOMAIN each : each[i] = 0
    <3> HIDE DEF Z, M, N, I, each
    <3> QED
      BY <1>4, <1>5, <1>7, <1>8
  <2>2. ASSUME NEW i \in DOMAIN bs
        PROVE  bs[i].id # 0 /\ ~(bs[i].id >= MaxBackends) /\ BackendFine(bs[i], c.instance)
    <3>1. check_one_backend(bs[i], c.instance) = 0
      BY <2>1
    <3> QED
      BY <2>1, <3>1, OneBackendChecked
  <2>3. ASSUME NEW i \in DOMAIN bs, NEW j \in DOMAIN bs, i < j
        PROVE  bs[i].name # bs[j].name /\ bs[i].id # bs[j].id
    <3>1. <<i, j>> \in Pairs(bs)
      BY <2>3 DEF Pairs
    <3> QED
      BY <2>1, <3>1
  <2>4. \A i, j \in DOMAIN bs : i \in Nat /\ j \in Nat /\ (i = j \/ i < j \/ j < i)
    <3>1. DOMAIN bs \subseteq Nat
      BY DEF IsList
    <3> HIDE DEF bs
    <3> QED
      BY <3>1
  <2> QED
    BY <2>2, <2>3, <2>4 DEF BackendsFine
<1> QED
  BY <1>7, <1>8

(***************************************************************************)
(* The rules: [[vip]].                                                      *)
(***************************************************************************)

\* The members check_vip_members() knows, and one that is up.
AllKnown(v, c) == \A i \in DOMAIN v.members : find_backend(c, v.members[i].backend_name) # {}

SomeUp(v, c) ==
    \E i \in DOMAIN v.members : \E j \in find_backend(c, v.members[i].backend_name) : c.backends[j].up

\* check_vip_members() reports a number of mistakes, and without any every member is known.
LEMMA MembersChecked ==
    ASSUME NEW v, NEW c, IsFiniteSet(DOMAIN v.members)
    PROVE  LET got == check_vip_members(v, c)
           IN /\ got.errs \in Nat /\ (got.errs = 0 => AllKnown(v, c))
              /\ got.warns \in Nat /\ (got.warns = 0 => SomeUp(v, c))
<1> DEFINE known(i) == find_backend(c, v.members[i].backend_name) # {}
           U == {i \in DOMAIN v.members : ~known(i)}
           W == {i \in DOMAIN v.members : known(i) /\ v.members[i].weight = 0}
           D == {p \in Pairs(v.members) : /\ known(p[1])
                                          /\ v.members[p[1]].backend_name = v.members[p[2]].backend_name}
           got == check_vip_members(v, c)
<1>1. got.errs = Count(U) + Count(W) + Count(D)
  BY DEF check_vip_members
<1>2. got.warns = IF SomeUp(v, c) THEN 0 ELSE 1
  BY DEF check_vip_members, SomeUp
<1>3. U \subseteq DOMAIN v.members /\ W \subseteq DOMAIN v.members /\ D \subseteq Pairs(v.members)
  OBVIOUS
<1>4. IsFiniteSet(Pairs(v.members))
  BY PairsFinite
<1>5. /\ Count(U) \in Nat /\ (Count(U) = 0 <=> U = {})
      /\ Count(W) \in Nat /\ Count(D) \in Nat
  <2> HIDE DEF U, W, D
  <2> QED
    BY <1>3, <1>4, PartCounted
<1>6. U = {} => AllKnown(v, c)
  BY DEF AllKnown
<1> DEFINE n1 == Count(U)  n2 == Count(W)  n3 == Count(D)
<1>7. got.errs \in Nat /\ (got.errs = 0 => n1 = 0)
  <2>1. n1 \in Nat /\ n2 \in Nat /\ n3 \in Nat /\ got.errs = n1 + n2 + n3
    BY <1>1, <1>5
  <2> HIDE DEF n1, n2, n3, got
  <2> QED
    BY <2>1
<1> HIDE DEF U, got
<1>8. got.warns \in Nat /\ (got.warns = 0 => SomeUp(v, c))
  BY <1>2
<1> QED
  BY <1>5, <1>6, <1>7, <1>8 DEF got

\* The families of a VIP's keys.
Families(v) == {v.keys[k].family : k \in DOMAIN v.keys}

\* A group check_vip_group() has nothing to say of: one family, or hashed by the ports.
GroupFine(v) ==
    ~(Len(v.keys) < 2 \/ v.keys[1].proto # "sctp") =>
        /\ ~Flag(v.flags, "hash_5tuple")
        /\ 4 \in Families(v) => Families(v) = {4} \/ Flag(v.flags, "hash_ports")

\* check_vip_group() reports a number of mistakes, and without any the group is fine.
LEMMA GroupChecked ==
    ASSUME NEW v
    PROVE  LET got == check_vip_group(v)
           IN got.errs \in Nat /\ (got.errs = 0 => GroupFine(v)) /\ got.warns \in Nat
<1> DEFINE mixed == 4 \in Families(v) /\ Families(v) # {4} /\ ~Flag(v.flags, "hash_ports")
           tuple == Flag(v.flags, "hash_5tuple")
           single == Len(v.keys) < 2 \/ v.keys[1].proto # "sctp"
           got == check_vip_group(v)
<1>1. got.errs = IF single THEN 0 ELSE (IF tuple THEN 1 ELSE 0) + (IF mixed THEN 1 ELSE 0)
  BY DEF check_vip_group, Families
<1>2. got.warns = IF single THEN 0 ELSE IF mixed \/ Flag(v.flags, "hash_ports") THEN 0 ELSE 1
  BY DEF check_vip_group, Families
<1>3. ~single /\ ~tuple /\ ~mixed => GroupFine(v)
  BY DEF GroupFine
<1>4. single => GroupFine(v)
  BY DEF GroupFine
<1> HIDE DEF mixed, tuple, single, got
<1>5. got.errs \in Nat /\ (got.errs = 0 => single \/ (~tuple /\ ~mixed))
  BY <1>1
<1>6. got.warns \in Nat
  BY <1>2
<1> QED
  BY <1>3, <1>4, <1>5, <1>6 DEF got

\* A VIP check_one_vip() has nothing to say of.
VipFine(v, c) ==
    /\ Flag(v.flags, "ratelimit") => Flag(v.flags, "acl")
    /\ GroupFine(v) /\ AllKnown(v, c)

VipRules == {"cid_len", "dscp", "ratelimit", "hash_ports", "both"}

\* A set of five is finite.
LEMMA VipRulesFinite == IsFiniteSet(VipRules)
<1>1. \A a : IsFiniteSet({a})
  BY FS_Singleton
<1>2. IsFiniteSet({"cid_len"} \cup {"dscp"} \cup {"ratelimit"} \cup {"hash_ports"} \cup {"both"})
  BY <1>1, FS_Union
<1>3. VipRules = {"cid_len"} \cup {"dscp"} \cup {"ratelimit"} \cup {"hash_ports"} \cup {"both"}
  BY DEF VipRules
<1> QED
  BY <1>2, <1>3

\* check_one_vip() reports a number of mistakes, and without any the VIP is fine.
LEMMA OneVipChecked ==
    ASSUME NEW v, NEW c, IsShape(v)
    PROVE  LET got == check_one_vip(v, c)
           IN /\ got.errs \in Nat /\ (got.errs = 0 => VipFine(v, c))
              /\ got.warns \in Nat /\ (got.warns = 0 => SomeUp(v, c))
<1> DEFINE proto == IF DOMAIN v.keys = {} THEN "none" ELSE v.keys[1].proto
           Broken(rule) ==
              CASE rule = "cid_len" -> Flag(v.flags, "quic") /\ VIP_QUIC_CID_LEN(v.flags) \notin 7 .. 20
                [] rule = "dscp" -> VIP_DSCP(v.flags) > 63
                [] rule = "ratelimit" -> Flag(v.flags, "ratelimit") /\ ~Flag(v.flags, "acl")
                [] rule = "hash_ports" -> Flag(v.flags, "hash_ports") /\ proto # "sctp"
                [] rule = "both" -> Flag(v.flags, "hash_ports") /\ Flag(v.flags, "hash_5tuple")
           B == {rule \in VipRules : Broken(rule)}
           group == check_vip_group(v)
           members == check_vip_members(v, c)
           got == check_one_vip(v, c)
<1>1. got.errs = Count(B) + group.errs + members.errs /\ got.warns = group.warns + members.warns
  BY DEF check_one_vip, VipRules
<1>2. B \subseteq VipRules
  OBVIOUS
<1>3. Count(B) \in Nat /\ (Count(B) = 0 <=> B = {})
  <2> HIDE DEF B
  <2> QED
    BY <1>2, VipRulesFinite, PartCounted
<1>4. B = {} => ~(Flag(v.flags, "ratelimit") /\ ~Flag(v.flags, "acl"))
  <2> SUFFICES ASSUME B = {} PROVE ~Broken("ratelimit")
    OBVIOUS
  <2> HIDE DEF Broken
  <2> QED
    BY DEF VipRules
<1>5. group.errs \in Nat /\ (group.errs = 0 => GroupFine(v)) /\ group.warns \in Nat
  BY GroupChecked
<1>6. /\ members.errs \in Nat /\ (members.errs = 0 => AllKnown(v, c))
      /\ members.warns \in Nat /\ (members.warns = 0 => SomeUp(v, c))
  BY MembersChecked DEF IsShape
<1> DEFINE n1 == Count(B)  n2 == group.errs  n3 == members.errs  m2 == group.warns  m3 == members.warns
<1>7. /\ got.errs \in Nat /\ got.warns \in Nat
      /\ got.errs = 0 => n1 = 0 /\ n2 = 0 /\ n3 = 0
      /\ got.warns = 0 => m3 = 0
  <2>1. /\ n1 \in Nat /\ n2 \in Nat /\ n3 \in Nat /\ m2 \in Nat /\ m3 \in Nat
        /\ got.errs = n1 + n2 + n3 /\ got.warns = m2 + m3
    BY <1>1, <1>3, <1>5, <1>6
  <2> HIDE DEF n1, n2, n3, m2, m3, got
  <2> QED
    BY <2>1
<1> HIDE DEF B, group, members, got
<1>8. got.errs = 0 => VipFine(v, c)
  BY <1>3, <1>4, <1>5, <1>6, <1>7 DEF VipFine
<1>9. got.warns = 0 => SomeUp(v, c)
  BY <1>6, <1>7
<1> QED
  BY <1>7, <1>8, <1>9 DEF got

\* The VIPs check_vips() has nothing to say of.
VipsFine(c) ==
    /\ Count(KeyPlaces(c)) <= MaxVips
    /\ \A at, by \in KeyPlaces(c) : KeyAt(c, at) = KeyAt(c, by) => at = by
    /\ \A e \in DOMAIN c.vips : VipFine(c.vips[e], c)

\* The places of the keys are finitely many.
LEMMA KeyPlacesFinite ==
    ASSUME NEW c, IsConf(c)
    PROVE  IsFiniteSet(KeyPlaces(c)) /\ KeyPlaces(c) \subseteq Nat \X Nat
<1> DEFINE of(e) == {e} \X (DOMAIN c.vips[e].keys)
           T == {of(e) : e \in DOMAIN c.vips}
           g == [e \in DOMAIN c.vips |-> of(e)]
<1>0. IsFiniteSet(DOMAIN c.vips) /\ DOMAIN c.vips \subseteq Nat
  BY DEF IsConf, IsList
<1>1. g \in Surjection(DOMAIN c.vips, T)
  BY DEF Surjection
<1>2. IsFiniteSet(T)
  BY <1>0, <1>1, FS_Surjection
<1>3. ASSUME NEW t \in T PROVE IsFiniteSet(t) /\ t \subseteq Nat \X Nat
  <2>1. PICK e \in DOMAIN c.vips : t = of(e)
    OBVIOUS
  <2>2. IsFiniteSet({e})
    BY FS_Singleton
  <2>3. IsFiniteSet(DOMAIN c.vips[e].keys) /\ DOMAIN c.vips[e].keys \subseteq Nat
    BY DEF IsConf, IsShape
  <2>4. IsFiniteSet({e} \X (DOMAIN c.vips[e].keys))
    BY <2>2, <2>3, FS_Product
  <2> QED
    BY <1>0, <2>1, <2>3, <2>4
<1>4. IsFiniteSet(UNION T)
  BY <1>2, <1>3, FS_UNION
<1>5. KeyPlaces(c) = UNION T
  BY DEF KeyPlaces
<1> HIDE DEF T
<1> QED
  BY <1>3, <1>4, <1>5

\* check_vips() reports a number of mistakes, and without any the VIPs are fine.
LEMMA VipsChecked ==
    ASSUME NEW c, IsConf(c)
    PROVE  LET got == check_vips(c)
           IN /\ got.errs \in Nat /\ (got.errs = 0 => VipsFine(c))
              /\ got.warns \in Nat
              /\ got.warns = 0 => \A e \in DOMAIN c.vips : SomeUp(c.vips[e], c)
<1> DEFINE later(at, by) == at[1] < by[1] \/ (at[1] = by[1] /\ at[2] < by[2])
           errs == [e \in DOMAIN c.vips |-> check_one_vip(c.vips[e], c).errs]
           warns == [e \in DOMAIN c.vips |-> check_one_vip(c.vips[e], c).warns]
           D == {p \in KeyPlaces(c) \X KeyPlaces(c) : later(p[1], p[2]) /\ KeyAt(c, p[1]) = KeyAt(c, p[2])}
           many == IF Count(KeyPlaces(c)) > MaxVips THEN 1 ELSE 0
           got == check_vips(c)
<1>1. got.errs = many + Count(D) + Total(errs) /\ got.warns = Total(warns)
  <2> DEFINE each == [e \in DOMAIN c.vips |-> check_one_vip(c.vips[e], c)]
  <2>1. [e \in DOMAIN each |-> each[e].errs] = errs
    OBVIOUS
  <2>2. [e \in DOMAIN each |-> each[e].warns] = warns
    OBVIOUS
  <2>3. /\ got.errs = many + Count(D) + Total([e \in DOMAIN each |-> each[e].errs])
        /\ got.warns = Total([e \in DOMAIN each |-> each[e].warns])
    BY DEF check_vips
  <2> HIDE DEF each, errs, warns, many, D, got
  <2> QED
    BY <2>1, <2>2, <2>3
<1>2. /\ IsFiniteSet(KeyPlaces(c)) /\ KeyPlaces(c) \subseteq Nat \X Nat
      /\ Count(KeyPlaces(c)) \in Nat
  BY KeyPlacesFinite, CountZero
<1>3. IsFiniteSet(KeyPlaces(c) \X KeyPlaces(c))
  BY <1>2, FS_Product
<1>4. D \subseteq KeyPlaces(c) \X KeyPlaces(c)
  OBVIOUS
<1>5. Count(D) \in Nat /\ (Count(D) = 0 <=> D = {})
  <2> HIDE DEF D
  <2> QED
    BY <1>3, <1>4, PartCounted
<1>6. IsFiniteSet(DOMAIN c.vips) /\ \A e \in DOMAIN c.vips : IsShape(c.vips[e])
  BY DEF IsConf, IsList
<1>7. Total(errs) \in Nat /\ (Total(errs) = 0 <=> \A e \in DOMAIN errs : errs[e] = 0)
  <2>1. \A e \in DOMAIN errs : errs[e] \in Nat
    BY <1>6, OneVipChecked
  <2>2. IsFiniteSet(DOMAIN errs)
    BY <1>6
  <2> HIDE DEF errs
  <2> QED
    BY <2>1, <2>2, TotalZero
<1>8. Total(warns) \in Nat /\ (Total(warns) = 0 <=> \A e \in DOMAIN warns : warns[e] = 0)
  <2>1. \A e \in DOMAIN warns : warns[e] \in Nat
    BY <1>6, OneVipChecked
  <2>2. IsFiniteSet(DOMAIN warns)
    BY <1>6
  <2> HIDE DEF warns
  <2> QED
    BY <2>1, <2>2, TotalZero
<1> DEFINE n2 == Count(D)  n3 == Total(errs)
<1>9. got.errs \in Nat /\ (got.errs = 0 => many = 0 /\ n2 = 0 /\ n3 = 0)
  <2>1. many \in Nat /\ n2 \in Nat /\ n3 \in Nat /\ got.errs = many + n2 + n3
    BY <1>1, <1>5, <1>7
  <2> HIDE DEF many, n2, n3, got
  <2> QED
    BY <2>1
<1>10. ASSUME got.errs = 0 PROVE VipsFine(c)
  <2>1. many = 0 /\ D = {} /\ \A e \in DOMAIN errs : errs[e] = 0
    <3> HIDE DEF many, D, errs, got
    <3> QED
      BY <1>5, <1>7, <1>9, <1>10
  <2>2. Count(KeyPlaces(c)) <= MaxVips
    BY <1>2, <2>1, ConfFileAssumption
  <2>3. ASSUME NEW at \in KeyPlaces(c), NEW by \in KeyPlaces(c), KeyAt(c, at) = KeyAt(c, by) PROVE at = by
    <3>1. ~later(at, by) /\ ~later(by, at)
      <4>1. \A p \in KeyPlaces(c) \X KeyPlaces(c) : ~(later(p[1], p[2]) /\ KeyAt(c, p[1]) = KeyAt(c, p[2]))
        BY <2>1
      <4>2. <<at, by>> \in KeyPlaces(c) \X KeyPlaces(c) /\ <<by, at>> \in KeyPlaces(c) \X KeyPlaces(c)
        OBVIOUS
      <4> QED
        BY <2>3, <4>1, <4>2
    <3>2. at \in Nat \X Nat /\ by \in Nat \X Nat
      BY <1>2
    <3> QED
      BY <3>1, <3>2
  <2>4. ASSUME NEW e \in DOMAIN c.vips PROVE VipFine(c.vips[e], c)
    <3>1. check_one_vip(c.vips[e], c).errs = 0
      BY <2>1
    <3> QED
      BY <1>6, <3>1, OneVipChecked
  <2> HIDE DEF D, many, errs
  <2> QED
    BY <2>2, <2>3, <2>4 DEF VipsFine
<1>11. ASSUME got.warns = 0, NEW e \in DOMAIN c.vips PROVE SomeUp(c.vips[e], c)
  <2>1. Total(warns) = 0
    BY <1>1, <1>11
  <2>2. warns[e] = 0
    BY <1>8, <2>1
  <2>3. check_one_vip(c.vips[e], c).warns = 0
    BY <2>2
  <2> QED
    BY <1>6, <2>3, OneVipChecked
<1>12. got.warns \in Nat
  BY <1>1, <1>8
<1> QED
  BY <1>9, <1>10, <1>11, <1>12 DEF got

(***************************************************************************)
(* Numbers: division, powers of two, and the bits of a byte.                *)
(***************************************************************************)

\* A set of naturals that is not empty has a lowest element.
LEMMA LowestNat ==
    ASSUME NEW T, T \subseteq Nat, T # {}
    PROVE  \E n \in T : \A m \in T : n <= m
<1> DEFINE R == OpToRel(<, Nat)
<1>1. IsWellFoundedOn(R, Nat)
  BY NatLessThanWellFounded
<1>2. \A x, y \in Nat : <<y, x>> \in R <=> y < x
  BY DEF OpToRel
<1> HIDE DEF R
<1>3. PICK n \in T : \A m \in T : ~(<<m, n>> \in R)
  BY <1>1, WFMin
<1>4. ASSUME NEW m \in T PROVE n <= m
  <2>1. n \in Nat /\ m \in Nat
    OBVIOUS
  <2>2. ~(m < n)
    BY <1>2, <1>3, <2>1, Zenon
  <2> QED
    BY <2>1, <2>2
<1> QED
  BY <1>4

\* A quotient is the number of times the divisor fits.
LEMMA QuotientIs ==
    ASSUME NEW x \in Int, NEW m \in Int, NEW q \in Int, NEW r \in 0 .. m - 1, m > 0, x = m * q + r
    PROVE  x \div m = q /\ x % m = r
<1>1. x \div m = q
  OBVIOUS
<1>2. x % m = r
  OBVIOUS
<1> QED
  BY <1>1, <1>2

\* A number is its quotient and its remainder.
LEMMA QuotientAndRest ==
    ASSUME NEW x \in Int, NEW m \in Int, m > 0
    PROVE  x \div m \in Int /\ x % m \in 0 .. m - 1 /\ x = m * (x \div m) + (x % m)
<1>1. x \div m \in Int /\ x % m \in 0 .. m - 1
  OBVIOUS
<1>2. x % m = x - m * (x \div m)
  OBVIOUS
<1> DEFINE q == x \div m  r == x % m
<1>3. q \in Int /\ r \in 0 .. m - 1 /\ r = x - m * q
  BY <1>1, <1>2
<1> HIDE DEF q, r
<1>4. x = m * q + r
  BY <1>3
<1> QED
  BY <1>1, <1>4 DEF q, r

\* A quotient by m is twice the quotient by 2m, and a bit.
LEMMA HalfQuotient ==
    ASSUME NEW x \in Int, NEW m \in Int, m > 0
    PROVE  x \div m = 2 * (x \div (2 * m)) + ((x \div m) % 2)
<1> DEFINE q == x \div m  r == x % m
<1>1. q \in Int /\ r \in 0 .. m - 1 /\ x = m * q + r
  BY QuotientAndRest
<1> HIDE DEF q, r
<1> DEFINE h == q \div 2  s == q % 2
<1>2. h \in Int /\ s \in 0 .. 1 /\ q = 2 * h + s
  BY <1>1
<1> HIDE DEF h, s
<1> DEFINE t == m * s + r
<1>3. t \in 0 .. 2 * m - 1
  <2>1. CASE s = 0
    BY <1>1, <2>1
  <2>2. CASE s = 1
    BY <1>1, <2>2
  <2> QED
    BY <1>2, <2>1, <2>2
<1>4. x = (2 * m) * h + t
  BY <1>1, <1>2
<1> HIDE DEF t
<1>5. x \div (2 * m) = h
  <2>1. 2 * m \in Int /\ 2 * m > 0
    OBVIOUS
  <2> DEFINE d == 2 * m
  <2>2. d \in Int /\ d > 0 /\ t \in 0 .. d - 1 /\ x = d * h + t
    BY <1>3, <1>4, <2>1
  <2> HIDE DEF d
  <2>3. x \div d = h
    BY <1>2, <2>2, QuotientIs
  <2> QED
    BY <2>3 DEF d
<1>6. q = 2 * (x \div (2 * m)) + (q % 2)
  BY <1>2, <1>5 DEF h, s
<1> QED
  BY <1>6 DEF q

\* A power of two is positive.
LEMMA PowerPositive ==
    ASSUME NEW n \in Nat
    PROVE  2^n \in Nat /\ 2^n > 0
<1> DEFINE S == 1 .. n
<1>1. IsFiniteSet(S) /\ Cardinality(S) = n
  BY FS_Interval
<1>2. IsFiniteSet(SUBSET S) /\ Cardinality(SUBSET S) = 2^n
  BY <1>1, FS_SUBSET
<1>3. Cardinality(SUBSET S) \in Nat
  BY <1>2, FS_CardinalityType
<1>4. SUBSET S # {}
  OBVIOUS
<1>5. Cardinality(SUBSET S) # 0
  BY <1>2, <1>4, FS_EmptySet
<1> QED
  BY <1>2, <1>3, <1>5

\* The first power of two ..
LEMMA PowerZero == 2^0 = 1
  OBVIOUS

\* ... and the next: what holds the next place is in a set or is not.
LEMMA PowerNext ==
    ASSUME NEW n \in Nat
    PROVE  2^(n + 1) = 2 * 2^n
<1> DEFINE S == 1 .. n
           T == 1 .. n + 1
           A == SUBSET S
           B == {X \cup {n + 1} : X \in A}
           f == [X \in A |-> X \cup {n + 1}]
<1>1. IsFiniteSet(S) /\ Cardinality(S) = n /\ IsFiniteSet(T) /\ Cardinality(T) = n + 1
  BY FS_Interval
<1>2. IsFiniteSet(A) /\ Cardinality(A) = 2^n /\ Cardinality(SUBSET T) = 2^(n + 1)
  BY <1>1, FS_SUBSET
<1>3. n + 1 \notin S /\ T = S \cup {n + 1}
  OBVIOUS
<1>4. f \in Surjection(A, B)
  BY DEF Surjection
<1>5. f \in Injection(A, B)
  <2>1. ASSUME NEW X \in A, NEW Y \in A, f[X] = f[Y] PROVE X = Y
    <3>1. X \cup {n + 1} = Y \cup {n + 1} /\ X \subseteq S /\ Y \subseteq S
      BY <2>1
    <3> HIDE DEF S
    <3> QED
      BY <1>3, <3>1
  <2>2. f \in [A -> B]
    OBVIOUS
  <2>3. \A X, Y \in A : f[X] = f[Y] => X = Y
    BY <2>1
  <2> HIDE DEF f, A, B
  <2> QED
    BY <2>2, <2>3 DEF Injection, IsInjective
<1>6. IsFiniteSet(B) /\ Cardinality(B) = Cardinality(A)
  <2> HIDE DEF f, A, B
  <2> QED
    BY <1>2, <1>4, <1>5, FS_Surjection
<1>7. A \cap B = {}
  <2> HIDE DEF S
  <2> QED
    BY <1>3
<1>8. SUBSET T = A \cup B
  <2>1. ASSUME NEW X \in SUBSET T PROVE X \in A \cup B
    <3>1. CASE n + 1 \in X
      <4>1. X \ {n + 1} \in A /\ X = (X \ {n + 1}) \cup {n + 1}
        <5> HIDE DEF S, T
        <5> QED
          BY <1>3, <3>1
      <4> QED
        BY <4>1
    <3>2. CASE n + 1 \notin X
      <4>1. X \in A
        <5> HIDE DEF S, T
        <5> QED
          BY <1>3, <3>2
      <4> QED
        BY <4>1
    <3> QED
      BY <3>1, <3>2
  <2>2. ASSUME NEW X \in A \cup B PROVE X \in SUBSET T
    <3> HIDE DEF S, T
    <3> QED
      BY <1>3
  <2> QED
    BY <2>1, <2>2
<1>9. Cardinality(A \cup B) = Cardinality(A) + Cardinality(B) - Cardinality(A \cap B)
  <2> HIDE DEF A, B
  <2> QED
    BY <1>2, <1>6, FS_Union
<1>10. Cardinality(A \cap B) = 0
  BY <1>7, FS_EmptySet
<1>11. 2^n \in Nat
  BY PowerPositive
<1> DEFINE p == 2^n
<1>12. 2^(n + 1) = p + p
  <2>1. Cardinality(A) = p /\ Cardinality(B) = p /\ Cardinality(SUBSET T) = 2^(n + 1)
    BY <1>2, <1>6
  <2> HIDE DEF A, B, T, p
  <2>2. p \in Nat
    BY <1>11 DEF p
  <2>3. Cardinality(A \cup B) = p + p - 0
    BY <1>9, <1>10, <2>1
  <2>4. Cardinality(SUBSET T) = p + p - 0
    BY <1>8, <2>3
  <2>5. p + p - 0 = p + p
    BY <2>2
  <2> QED
    BY <2>1, <2>4, <2>5
<1>13. p \in Nat
  BY <1>11
<1> HIDE DEF p
<1>14. p + p = 2 * p
  BY <1>13
<1> QED
  BY <1>12, <1>14 DEF p

\* A number below m has no m in it.
LEMMA SmallQuotient ==
    ASSUME NEW m \in Int, NEW x \in 0 .. m - 1, m > 0
    PROVE  x \div m = 0
<1> DEFINE q == 0
<1>1. q \in Int /\ x = m * q + x
  OBVIOUS
<1> HIDE DEF q
<1>2. x \div m = q
  BY <1>1, QuotientIs
<1> QED
  BY <1>2 DEF q

\* Two bytes that agree in their first bits agree in what those bits stand for.
LEMMA TopBits ==
    ASSUME NEW B \in Nat, NEW x \in 0 .. 2^B - 1, NEW y \in 0 .. 2^B - 1, NEW keep \in 0 .. B,
           \A i \in 0 .. keep - 1 : (x \div 2^((B - 1) - i)) % 2 = (y \div 2^((B - 1) - i)) % 2
    PROVE  x \div 2^(B - keep) = y \div 2^(B - keep)
<1> DEFINE Bad == {k \in 0 .. keep : x \div 2^(B - k) # y \div 2^(B - k)}
<1>0. keep \in 0 .. keep
  OBVIOUS
<1>1. SUFFICES ASSUME Bad # {} PROVE FALSE
  <2>1. SUFFICES ASSUME x \div 2^(B - keep) # y \div 2^(B - keep) PROVE Bad # {}
    OBVIOUS
  <2> QED
    BY <1>0, <2>1
<1>2. Bad \subseteq Nat
  OBVIOUS
<1>3. PICK k \in Bad : \A m \in Bad : k <= m
  <2> HIDE DEF Bad
  <2> QED
    BY <1>1, <1>2, LowestNat
<1>4. 2^B \in Nat /\ 2^B > 0 /\ x \in Int /\ y \in Int
  BY PowerPositive
<1>5. CASE k = 0
  <2> DEFINE m == 2^B
  <2>1. m \in Int /\ m > 0 /\ x \in 0 .. m - 1 /\ y \in 0 .. m - 1
    BY <1>4
  <2> HIDE DEF m
  <2>3. x \div m = 0
    BY <2>1, SmallQuotient
  <2>4. y \div m = 0
    BY <2>1, SmallQuotient
  <2>5. B - k = B
    BY <1>5
  <2> QED
    BY <2>3, <2>4, <2>5 DEF m
<1>6. CASE k # 0
  <2>1. k \in 1 .. keep /\ k - 1 \in 0 .. keep - 1 /\ k - 1 \in 0 .. keep /\ B - k \in Nat
    BY <1>6
  <2>2. k - 1 \notin Bad
    <3> HIDE DEF Bad
    <3> QED
      BY <1>3, <2>1
  <2>3. x \div 2^(B - (k - 1)) = y \div 2^(B - (k - 1))
    BY <2>1, <2>2
  <2> DEFINE m == 2^(B - k)
  <2>4. m \in Int /\ m > 0
    BY <2>1, PowerPositive
  <2>5. B - (k - 1) = (B - k) + 1 /\ (B - 1) - (k - 1) = B - k
    BY <2>1
  <2>6. 2^(B - (k - 1)) = 2 * m
    BY <2>1, <2>5, PowerNext
  <2>7. (x \div m) % 2 = (y \div m) % 2
    BY <2>1, <2>5
  <2>8. x \div (2 * m) = y \div (2 * m)
    BY <2>3, <2>6
  <2>9. x \div m # y \div m
    OBVIOUS
  <2> HIDE DEF m
  <2>10. x \div m = 2 * (x \div (2 * m)) + ((x \div m) % 2)
    BY <1>4, <2>4, HalfQuotient
  <2>11. y \div m = 2 * (y \div (2 * m)) + ((y \div m) % 2)
    BY <1>4, <2>4, HalfQuotient
  <2> QED
    BY <2>7, <2>8, <2>9, <2>10, <2>11, Zenon
<1> QED
  BY <1>5, <1>6

(***************************************************************************)
(* The ACL.                                                                 *)
(***************************************************************************)

\* Bit i of a byte is bit (byte - 1) * ByteBits + i of the address.
LEMMA BitPlace ==
    ASSUME NEW byte \in Nat \ {0}, NEW i \in 0 .. ByteBits - 1
    PROVE  LET n == (byte - 1) * ByteBits + i
           IN n \div ByteBits = byte - 1 /\ n % ByteBits = i
<1> DEFINE q == byte - 1  n == q * ByteBits + i
<1>1. ByteBits \in Int /\ ByteBits > 0 /\ q \in Int
  BY ConfFileAssumption
<1> HIDE DEF q
<1>2. n \in Int /\ n = ByteBits * q + i
  BY <1>1
<1> HIDE DEF n
<1>3. n \div ByteBits = q /\ n % ByteBits = i
  BY <1>1, <1>2, QuotientIs
<1> QED
  BY <1>3 DEF n, q

\* Bytes of an address.
LEMMA RuleBytes ==
    ASSUME NEW e, IsRule(e)
    PROVE  /\ e.prefixlen \in Nat
           /\ \A byte \in 1 .. Width(e.v6) : e.addr[byte] \in 0 .. 2^ByteBits - 1
           /\ e = [v6 |-> e.v6, prefixlen |-> e.prefixlen, addr |-> e.addr]
           /\ e.addr = [byte \in 1 .. Width(e.v6) |-> e.addr[byte]]
<1> DEFINE V == 0 .. 2^ByteBits - 1  D == 1 .. Width(e.v6)
<1>1. e \in [v6 : BOOLEAN, prefixlen : Nat, addr : [D -> V]]
  BY DEF IsRule
<1> HIDE DEF V, D
<1>2. e.prefixlen \in Nat /\ e.addr \in [D -> V]
  BY <1>1
<1>3. e = [v6 |-> e.v6, prefixlen |-> e.prefixlen, addr |-> e.addr]
  BY <1>1
<1>4. (\A byte \in D : e.addr[byte] \in V) /\ e.addr = [byte \in D |-> e.addr[byte]]
  BY <1>2
<1> QED
  BY <1>2, <1>3, <1>4 DEF V, D

\* prefix_covers() compares bytes, a prefix is a sequence of bits: the first is true
\* wherever the bits of one rule begin those of the other.
LEMMA BeginsCovers ==
    ASSUME NEW outer, NEW inner, IsRule(outer), IsRule(inner), outer.v6 = inner.v6,
           outer.prefixlen <= inner.prefixlen,
           \A n \in 1 .. outer.prefixlen : Bits(outer)[n] = Bits(inner)[n]
    PROVE  prefix_covers(outer, inner)
<1> DEFINE base(byte) == (byte - 1) * ByteBits
           keep(byte) == IF base(byte) + ByteBits <= outer.prefixlen THEN ByteBits
                         ELSE outer.prefixlen - base(byte)
<1>1. /\ outer.prefixlen \in Nat /\ inner.prefixlen \in Nat
      /\ \A byte \in 1 .. Width(outer.v6) : /\ outer.addr[byte] \in 0 .. 2^ByteBits - 1
                                            /\ inner.addr[byte] \in 0 .. 2^ByteBits - 1
  BY RuleBytes
<1>2. ByteBits \in Nat /\ ByteBits > 0
  BY ConfFileAssumption
<1>3. ASSUME NEW byte \in 1 .. Width(outer.v6), base(byte) < outer.prefixlen
      PROVE  outer.addr[byte] \div 2^(ByteBits - keep(byte)) = inner.addr[byte] \div 2^(ByteBits - keep(byte))
  <2>1. byte \in Nat \ {0} /\ byte - 1 \in Nat
    BY ConfFileAssumption DEF Width
  <2>2. base(byte) \in Nat
    BY <1>2, <2>1
  <2> DEFINE b == base(byte)  k == keep(byte)  p == outer.prefixlen
  <2>3. /\ b \in Nat /\ p \in Nat /\ b < p
        /\ k = IF b + ByteBits <= p THEN ByteBits ELSE p - b
    BY <1>1, <1>3, <2>2
  <2> HIDE DEF b, k, p
  <2>4. k \in 0 .. ByteBits /\ b + k <= p
    BY <1>2, <2>3
  <2>5. ASSUME NEW i \in 0 .. k - 1
        PROVE  (outer.addr[byte] \div 2^((ByteBits - 1) - i)) % 2 = (inner.addr[byte] \div 2^((ByteBits - 1) - i)) % 2
    <3>1. i \in 0 .. ByteBits - 1 /\ i \in Int
      BY <1>2, <2>4
    <3> DEFINE n == b + i + 1
    <3>2. n \in 1 .. p /\ n - 1 = b + i
      BY <2>3, <2>4, <3>1
    <3>3. (b + i) \div ByteBits = byte - 1 /\ (b + i) % ByteBits = i
      BY <2>1, <3>1, BitPlace DEF b
    <3>4. (n - 1) \div ByteBits = byte - 1 /\ (n - 1) % ByteBits = i
      BY <3>2, <3>3
    <3>5. n \in 1 .. outer.prefixlen /\ n \in 1 .. inner.prefixlen
      BY <1>1, <2>3, <3>2 DEF p
    <3> HIDE DEF n
    <3>6. byte - 1 + 1 = byte
      BY <2>1
    <3>7. Bits(outer)[n] = (outer.addr[byte] \div 2^((ByteBits - 1) - i)) % 2
      BY <3>4, <3>5, <3>6, Zenon DEF Bits
    <3>8. Bits(inner)[n] = (inner.addr[byte] \div 2^((ByteBits - 1) - i)) % 2
      BY <3>4, <3>5, <3>6, Zenon DEF Bits
    <3> QED
      BY <3>5, <3>7, <3>8
  <2> DEFINE x == outer.addr[byte]  y == inner.addr[byte]
  <2>6. x \in 0 .. 2^ByteBits - 1 /\ y \in 0 .. 2^ByteBits - 1
    BY <1>1
  <2>7. \A i \in 0 .. k - 1 : (x \div 2^((ByteBits - 1) - i)) % 2 = (y \div 2^((ByteBits - 1) - i)) % 2
    BY <2>5
  <2> HIDE DEF x, y
  <2>8. x \div 2^(ByteBits - k) = y \div 2^(ByteBits - k)
    BY <1>2, <2>4, <2>6, <2>7, TopBits
  <2> QED
    BY <2>8 DEF x, y, k
<1> QED
  BY <1>3, Zenon DEF prefix_covers

\* A rule without host bits is what its prefix says and no more: two that cover each
\* other are one.
LEMMA CoversIsEqual ==
    ASSUME NEW e, NEW f, IsRule(e), IsRule(f), e.v6 = f.v6, e.prefixlen = f.prefixlen,
           ~conf_cidr_host_bits_set(e), ~conf_cidr_host_bits_set(f), prefix_covers(e, f)
    PROVE  e = f
<1>1. /\ e.prefixlen \in Nat
      /\ \A byte \in 1 .. Width(e.v6) : /\ e.addr[byte] \in 0 .. 2^ByteBits - 1
                                        /\ f.addr[byte] \in 0 .. 2^ByteBits - 1
      /\ e = [v6 |-> e.v6, prefixlen |-> e.prefixlen, addr |-> e.addr]
      /\ f = [v6 |-> f.v6, prefixlen |-> f.prefixlen, addr |-> f.addr]
      /\ e.addr = [byte \in 1 .. Width(e.v6) |-> e.addr[byte]]
      /\ f.addr = [byte \in 1 .. Width(e.v6) |-> f.addr[byte]]
  BY RuleBytes
<1>2. ByteBits \in Nat /\ ByteBits > 0
  BY ConfFileAssumption
<1>3. ASSUME NEW byte \in 1 .. Width(e.v6) PROVE e.addr[byte] = f.addr[byte]
  <2> DEFINE b == (byte - 1) * ByteBits
             p == e.prefixlen
             x == e.addr[byte]
             y == f.addr[byte]
             keep == IF b + ByteBits <= p THEN ByteBits ELSE p - b
  <2>1. byte - 1 \in Nat
    BY ConfFileAssumption DEF Width
  <2>2. b \in Nat /\ p \in Nat
    BY <1>1, <1>2, <2>1
  <2>3. x \in 0 .. 2^ByteBits - 1 /\ y \in 0 .. 2^ByteBits - 1
    BY <1>1
  <2>4. x \in Int /\ y \in Int
    BY <1>2, <2>3, PowerPositive
  <2>5. b < p => x \div 2^(ByteBits - keep) = y \div 2^(ByteBits - keep)
    BY Zenon DEF prefix_covers
  <2>6. IF b >= p THEN x = 0 ELSE ~(b + ByteBits > p /\ x % 2^(ByteBits - (p - b)) # 0)
    BY Zenon DEF conf_cidr_host_bits_set
  <2>7. IF b >= p THEN y = 0 ELSE ~(b + ByteBits > p /\ y % 2^(ByteBits - (p - b)) # 0)
    BY Zenon DEF conf_cidr_host_bits_set
  <2>8. keep = IF b + ByteBits <= p THEN ByteBits ELSE p - b
    OBVIOUS
  <2> HIDE DEF b, p, x, y, keep
  <2>9. CASE b >= p
    BY <2>6, <2>7, <2>9 DEF x, y
  <2>10. CASE b < p /\ b + ByteBits <= p
    <3>1. ByteBits - keep = 0 /\ 2^0 = 1
      BY <1>2, <2>8, <2>10
    <3>2. x \div 1 = y \div 1
      BY <2>5, <2>10, <3>1
    <3>3. x = y
      BY <2>4, <3>2
    <3> QED
      BY <3>3 DEF x, y
  <2>11. CASE b < p /\ b + ByteBits > p
    <3> DEFINE m == 2^(ByteBits - keep)
    <3>1. keep = p - b /\ ByteBits - keep \in Nat
      BY <1>2, <2>2, <2>8, <2>11
    <3>2. m \in Int /\ m > 0
      BY <3>1, PowerPositive
    <3>3. ~(b >= p)
      BY <2>2, <2>11
    <3>4. x % m = 0 /\ y % m = 0 /\ x \div m = y \div m
      BY <2>5, <2>6, <2>7, <2>11, <3>1, <3>3
    <3> HIDE DEF m
    <3>5. x = m * (x \div m) + (x % m) /\ y = m * (y \div m) + (y % m)
      BY <2>4, <3>2, QuotientAndRest
    <3>6. x = y
      BY <3>4, <3>5, Zenon
    <3> QED
      BY <3>6 DEF x, y
  <2> QED
    BY <1>2, <2>2, <2>9, <2>10, <2>11
<1>4. e.addr = f.addr
  BY <1>1, <1>3
<1> QED
  BY <1>1, <1>4

\* The bits of a rule are a sequence.
LEMMA BitsSeq ==
    ASSUME NEW e, IsRule(e)
    PROVE  /\ Bits(e) \in Seq(Range(Bits(e))) /\ Len(Bits(e)) = e.prefixlen
           /\ DOMAIN Bits(e) = 1 .. e.prefixlen
<1> DEFINE p == e.prefixlen
<1>1. p \in Nat
  BY RuleBytes
<1>2. Bits(e) = [n \in 1 .. p |-> Bits(e)[n]] /\ DOMAIN Bits(e) = 1 .. p
  BY DEF Bits
<1>3. \A n \in 1 .. p : Bits(e)[n] \in Range(Bits(e))
  BY <1>2 DEF Range
<1> HIDE DEF p
<1>4. Bits(e) \in Seq(Range(Bits(e))) /\ Len(Bits(e)) = p
  BY <1>1, <1>2, <1>3
<1> QED
  BY <1>2, <1>4 DEF p

\* A rule whose bits begin those of another covers it.
LEMMA PrefixCovers ==
    ASSUME NEW e, NEW f, IsRule(e), IsRule(f), e.v6 = f.v6, IsPrefix(Bits(e), Bits(f))
    PROVE  prefix_covers(e, f)
<1> DEFINE s == Bits(e)  t == Bits(f)  S == Range(s) \cup Range(t)
<1>1. /\ s \in Seq(S) /\ t \in Seq(S) /\ Len(s) = e.prefixlen /\ Len(t) = f.prefixlen
      /\ e.prefixlen \in Nat /\ f.prefixlen \in Nat
  <2>1. s \in Seq(Range(s)) /\ t \in Seq(Range(t))
    BY BitsSeq
  <2>2. \A A, B, q : A \subseteq B /\ q \in Seq(A) => q \in Seq(B)
    OBVIOUS
  <2>3. Len(s) = e.prefixlen /\ Len(t) = f.prefixlen /\ e.prefixlen \in Nat /\ f.prefixlen \in Nat
    BY BitsSeq, RuleBytes
  <2> HIDE DEF s, t
  <2>4. Range(s) \subseteq S /\ Range(t) \subseteq S
    OBVIOUS
  <2> HIDE DEF S
  <2> QED
    BY <2>1, <2>2, <2>3, <2>4
<1>2. Len(s) <= Len(t) /\ SubSeq(s, 1, Len(s)) = SubSeq(t, 1, Len(s))
  BY DEF IsPrefix
<1> HIDE DEF s, t, S
<1>3. ASSUME NEW n \in 1 .. Len(s) PROVE s[n] = t[n]
  <2>1. SubSeq(s, 1, Len(s))[n] = s[n] /\ SubSeq(t, 1, Len(s))[n] = t[n]
    BY <1>1, <1>2
  <2> QED
    BY <1>2, <2>1
<1>4. e.prefixlen <= f.prefixlen /\ \A n \in 1 .. e.prefixlen : Bits(e)[n] = Bits(f)[n]
  BY <1>1, <1>2, <1>3 DEF s, t
<1> QED
  BY <1>4, BeginsCovers

\* Two rules without host bits that fix the same bits are one.
LEMMA SameBits ==
    ASSUME NEW e, NEW f, IsRule(e), IsRule(f), e.v6 = f.v6, Bits(e) = Bits(f),
           ~conf_cidr_host_bits_set(e), ~conf_cidr_host_bits_set(f)
    PROVE  e = f
<1>1. e.prefixlen = f.prefixlen /\ e.prefixlen \in Nat
  BY BitsSeq, RuleBytes
<1>2. e.prefixlen <= f.prefixlen
  BY <1>1
<1>3. prefix_covers(e, f)
  BY <1>2, BeginsCovers
<1> QED
  BY <1>1, <1>3, CoversIsEqual

\* A rule of no length and without host bits is the default route.
LEMMA DefaultRoute ==
    ASSUME NEW e, IsRule(e), ~conf_cidr_host_bits_set(e), e.prefixlen = 0,
           NEW byte \in 1 .. Width(e.v6)
    PROVE  e.addr[byte] = 0
<1>1. byte - 1 \in Nat /\ ByteBits \in Nat
  BY ConfFileAssumption DEF Width
<1>2. (byte - 1) * ByteBits >= e.prefixlen
  BY <1>1
<1> QED
  BY <1>2, Zenon DEF conf_cidr_host_bits_set

\* A list check_acl_list() has nothing to say of.
ListFine(entries, allow) ==
    \A i \in DOMAIN entries : ~conf_cidr_host_bits_set(entries[i]) /\ (allow => entries[i].prefixlen # 0)

\* check_acl_list() reports a number of mistakes, and without any the list is fine.
LEMMA AclListChecked ==
    ASSUME NEW entries, NEW allow \in BOOLEAN, NEW v6, IsRules(entries, v6)
    PROVE  LET got == check_acl_list(entries, allow, v6)
           IN got.errs \in Nat /\ (got.errs = 0 => ListFine(entries, allow)) /\ got.warns \in Nat
<1> DEFINE R == {i \in DOMAIN entries : /\ allow /\ entries[i].prefixlen = 0
                                        /\ \A byte \in 1 .. Width(v6) : entries[i].addr[byte] = 0}
           H == {i \in DOMAIN entries : conf_cidr_host_bits_set(entries[i])}
           W == {i \in DOMAIN entries : entries[i].prefixlen < IF v6 THEN 4 * ByteBits ELSE ByteBits}
           many == IF Count(DOMAIN entries) > MaxAcl THEN 1 ELSE 0
           got == check_acl_list(entries, allow, v6)
<1>1. got.errs = many + Count(R) + Count(H) /\ got.warns = Count(W)
  BY DEF check_acl_list
<1>2. IsFiniteSet(DOMAIN entries) /\ R \subseteq DOMAIN entries /\ H \subseteq DOMAIN entries /\ W \subseteq DOMAIN entries
  BY DEF IsRules
<1>3. many \in Nat
  OBVIOUS
<1>4. R = {} /\ H = {} => ListFine(entries, allow)
  <2> SUFFICES ASSUME R = {}, H = {}, NEW i \in DOMAIN entries
               PROVE  ~conf_cidr_host_bits_set(entries[i]) /\ (allow => entries[i].prefixlen # 0)
    BY DEF ListFine
  <2>1. ~conf_cidr_host_bits_set(entries[i])
    OBVIOUS
  <2>2. IsRule(entries[i]) /\ entries[i].v6 = v6
    BY DEF IsRules
  <2>3. ~(allow /\ entries[i].prefixlen = 0 /\ \A byte \in 1 .. Width(v6) : entries[i].addr[byte] = 0)
    OBVIOUS
  <2>4. entries[i].prefixlen = 0 => \A byte \in 1 .. Width(v6) : entries[i].addr[byte] = 0
    BY <2>1, <2>2, DefaultRoute
  <2> QED
    BY <2>1, <2>3, <2>4
<1> HIDE DEF R, H, W
<1>5. /\ Count(R) \in Nat /\ Count(H) \in Nat /\ Count(W) \in Nat
      /\ Count(R) = 0 => R = {}
      /\ Count(H) = 0 => H = {}
  BY <1>2, PartCounted
<1> DEFINE n1 == many  n2 == Count(R)  n3 == Count(H)
<1>6. n1 \in Nat /\ n2 \in Nat /\ n3 \in Nat /\ got.errs = n1 + n2 + n3
  BY <1>1, <1>3, <1>5
<1>7. n2 = 0 /\ n3 = 0 => ListFine(entries, allow)
  BY <1>4, <1>5
<1> HIDE DEF n1, n2, n3
<1>8. got.errs \in Nat /\ (got.errs = 0 => ListFine(entries, allow))
  BY <1>6, <1>7
<1> QED
  BY <1>1, <1>5, <1>8

\* The lists of the ACL are four.
LEMMA ListsFinite == IsFiniteSet(Lists)
<1>1. \A a : IsFiniteSet({a})
  BY FS_Singleton
<1>2. IsFiniteSet({"allow_v4"} \cup {"block_v4"} \cup {"allow_v6"} \cup {"block_v6"})
  BY <1>1, FS_Union
<1>3. Lists = {"allow_v4"} \cup {"block_v4"} \cup {"allow_v6"} \cup {"block_v6"}
  BY DEF Lists
<1> QED
  BY <1>2, <1>3

AclFine(acl) == \A l \in Lists : ListFine(acl.list[l], IsAllow(l))

\* No block rule is covered by an allow rule of its family.
AclAlive(acl) ==
    \A a, b \in Lists : IsAllow(a) /\ ~IsAllow(b) /\ IsV6(a) = IsV6(b) =>
        \A i \in DOMAIN acl.list[a], j \in DOMAIN acl.list[b] :
            ~prefix_covers(acl.list[a][i], acl.list[b][j])

\* check_acl() reports numbers of mistakes and of warnings; without the first the
\* lists are fine, without the second no block rule is dead.
LEMMA AclChecked ==
    ASSUME NEW acl, \A l \in Lists : IsRules(acl.list[l], IsV6(l))
    PROVE  LET got == check_acl(acl)
           IN /\ got.errs \in Nat /\ (got.errs = 0 => AclFine(acl))
              /\ got.warns \in Nat /\ (got.warns = 0 => AclAlive(acl))
<1> DEFINE each == [l \in Lists |-> check_acl_list(acl.list[l], IsAllow(l), IsV6(l))]
           errs == [l \in Lists |-> each[l].errs]
           warns == [l \in Lists |-> each[l].warns]
           Dead(a, b) == {i \in DOMAIN acl.list[b] : \E j \in DOMAIN acl.list[a] :
                              prefix_covers(acl.list[a][j], acl.list[b][i])}
           got == check_acl(acl)
<1>1. got.errs = Total(errs) /\ got.warns = Total(warns) + check_acl_dead_rules(acl)
  BY DEF check_acl
<1>2. check_acl_dead_rules(acl) = Count(Dead("allow_v4", "block_v4")) + Count(Dead("allow_v6", "block_v6"))
  BY DEF check_acl_dead_rules
<1>3. ASSUME NEW l \in Lists
      PROVE  /\ each[l].errs \in Nat /\ each[l].warns \in Nat
             /\ each[l].errs = 0 => ListFine(acl.list[l], IsAllow(l))
  <2>1. IsAllow(l) \in BOOLEAN
    BY DEF IsAllow
  <2>2. each[l] = check_acl_list(acl.list[l], IsAllow(l), IsV6(l))
    OBVIOUS
  <2> HIDE DEF each
  <2> QED
    BY <2>1, <2>2, AclListChecked
<1>4. /\ DOMAIN errs = Lists /\ DOMAIN warns = Lists
      /\ \A l \in Lists : errs[l] = each[l].errs /\ warns[l] = each[l].warns
  OBVIOUS
<1> HIDE DEF each, errs, warns
<1>5. Total(errs) \in Nat /\ (Total(errs) = 0 => AclFine(acl))
  <2>1. Total(errs) \in Nat /\ (Total(errs) = 0 <=> \A l \in DOMAIN errs : errs[l] = 0)
    BY <1>3, <1>4, ListsFinite, TotalZero
  <2> QED
    BY <1>3, <1>4, <2>1 DEF AclFine
<1>6. Total(warns) \in Nat
  BY <1>3, <1>4, ListsFinite, TotalZero
<1>7. ASSUME NEW a, NEW b \in Lists
      PROVE  Count(Dead(a, b)) \in Nat /\ (Count(Dead(a, b)) = 0 => Dead(a, b) = {})
  <2>1. IsFiniteSet(DOMAIN acl.list[b]) /\ Dead(a, b) \subseteq DOMAIN acl.list[b]
    BY DEF IsRules
  <2> HIDE DEF Dead
  <2> QED
    BY <2>1, PartCounted
<1>8. Dead("allow_v4", "block_v4") = {} /\ Dead("allow_v6", "block_v6") = {} => AclAlive(acl)
  <2> SUFFICES ASSUME Dead("allow_v4", "block_v4") = {}, Dead("allow_v6", "block_v6") = {},
                      NEW a \in Lists, NEW b \in Lists, IsAllow(a), ~IsAllow(b), IsV6(a) = IsV6(b),
                      NEW i \in DOMAIN acl.list[a], NEW j \in DOMAIN acl.list[b]
               PROVE  ~prefix_covers(acl.list[a][i], acl.list[b][j])
    BY Zenon DEF AclAlive
  <2>1. \/ a = "allow_v4" /\ b = "block_v4"
        \/ a = "allow_v6" /\ b = "block_v6"
    BY DEF Lists, IsAllow, IsV6
  <2>2. Dead(a, b) = {}
    BY <2>1
  <2> QED
    BY <2>2
<1> DEFINE w == Total(warns)  d4 == Count(Dead("allow_v4", "block_v4"))  d6 == Count(Dead("allow_v6", "block_v6"))
<1>9. "block_v4" \in Lists /\ "block_v6" \in Lists
  BY DEF Lists
<1>10. /\ w \in Nat /\ d4 \in Nat /\ d6 \in Nat /\ got.warns = w + (d4 + d6)
       /\ d4 = 0 /\ d6 = 0 => AclAlive(acl)
  BY <1>1, <1>2, <1>6, <1>7, <1>8, <1>9, Zenon
<1> HIDE DEF w, d4, d6
<1>11. got.warns \in Nat /\ (got.warns = 0 => AclAlive(acl))
  BY <1>10
<1> QED
  BY <1>1, <1>5, <1>11

(***************************************************************************)
(* The limiter, and conf_check() as a whole.                                *)
(***************************************************************************)

Metered(c) == \E e \in DOMAIN c.vips : Flag(c.vips[e].flags, "ratelimit")

\* A limiter check_ratelimit() has nothing to say of.
RateFine(c) ==
    c.ratelimit.enabled =>
        /\ c.acl.enabled /\ c.ratelimit.burst_packets \in 1 .. 2^24 - 1
        /\ Metered(c) => marlind_scale_refill(c.ratelimit.tokens_per_sec) > 0

\* What a bucket gains is a number.
LEMMA RefillNat ==
    ASSUME NEW n \in Nat
    PROVE  marlind_scale_refill(n) \in Nat
<1> DEFINE m == 2^8  x == n * m
<1>1. m \in Nat
  BY PowerPositive
<1> HIDE DEF m
<1>2. x \in Nat
  BY <1>1
<1> HIDE DEF x
<1>3. x \div 953 \in Nat
  BY <1>2
<1> QED
  BY <1>3 DEF x, m, marlind_scale_refill

\* check_ratelimit() reports numbers of mistakes and of warnings; without the first
\* the limiter works, without the second it has something to meter.
LEMMA RatelimitChecked ==
    ASSUME NEW c, c.ratelimit.tokens_per_sec \in Nat
    PROVE  LET got == check_ratelimit(c)
           IN /\ got.errs \in Nat /\ (got.errs = 0 => RateFine(c))
              /\ got.warns \in Nat /\ (got.warns = 0 => (c.ratelimit.enabled => Metered(c)))
<1> DEFINE refill == marlind_scale_refill(c.ratelimit.tokens_per_sec)
           full == c.ratelimit.burst_packets \in 1 .. 2^24 - 1
           metered == Metered(c)
           n1 == IF c.acl.enabled THEN 0 ELSE 1
           n2 == IF full THEN 0 ELSE 1
           n3 == IF metered /\ refill = 0 THEN 1 ELSE 0
           got == check_ratelimit(c)
<1>1. got = IF ~c.ratelimit.enabled THEN [errs |-> 0, warns |-> 0]
            ELSE [errs |-> n1 + n2 + n3, warns |-> IF metered THEN 0 ELSE 1]
  BY Zenon DEF check_ratelimit, Metered
<1>2. refill \in Nat
  BY RefillNat
<1> HIDE DEF refill, full, metered
<1>3. n1 \in Nat /\ n2 \in Nat /\ n3 \in Nat
  OBVIOUS
<1>4. n1 = 0 /\ n2 = 0 /\ n3 = 0 => c.acl.enabled /\ full /\ (metered => refill > 0)
  BY <1>2
<1> HIDE DEF n1, n2, n3
<1>5. CASE ~c.ratelimit.enabled
  BY <1>1, <1>5 DEF RateFine
<1>6. CASE c.ratelimit.enabled
  <2>1. got.errs = n1 + n2 + n3 /\ got.warns = IF metered THEN 0 ELSE 1
    BY <1>1, <1>6
  <2> HIDE DEF got
  <2>2. got.errs \in Nat /\ (got.errs = 0 => n1 = 0 /\ n2 = 0 /\ n3 = 0)
    BY <1>3, <2>1
  <2>3. got.errs = 0 => RateFine(c)
    BY <1>4, <2>2 DEF RateFine, full, metered, refill
  <2>4. got.warns \in Nat /\ (got.warns = 0 => metered)
    BY <2>1
  <2> QED
    BY <2>2, <2>3, <2>4 DEF metered, got
<1> QED
  BY <1>5, <1>6

\* A configuration conf_check() finds no mistake in ...
ConfFine(c) == BackendsFine(c) /\ VipsFine(c) /\ AclFine(c.acl) /\ RateFine(c)

\* ... and nothing to warn of but what the host is like.
ConfQuiet(c) ==
    /\ \A e \in DOMAIN c.vips : SomeUp(c.vips[e], c)
    /\ AclAlive(c.acl) /\ (c.ratelimit.enabled => Metered(c))

\* What conf_check() makes of a configuration it accepts.
Completed(c) ==
    [c EXCEPT !.backends = [i \in DOMAIN c.backends |-> fib_default(c.backends[i])],
              !.vips = [e \in DOMAIN c.vips |-> resolve_members(c.vips[e], c)]]

\* conf_check() reports numbers of mistakes and of warnings, of which only the second
\* depends on the host; without them the configuration is fine, and quiet.
LEMMA ConfChecked ==
    ASSUME NEW c, NEW here, IsConf(c)
    PROVE  LET got == conf_check(c, here)
           IN /\ got.val = Completed(c)
              /\ got.errs \in Nat /\ (got.errs = 0 => ConfFine(c))
              /\ got.warns \in Nat /\ (got.warns = 0 => ConfQuiet(c))
              /\ got.errs = conf_check(c, {}).errs
<1> DEFINE inst(h) == check_instance(c.instance, h)
           vips == check_vips(c)
           acl == check_acl(c.acl)
           rl == check_ratelimit(c)
           got(h) == conf_check(c, h)
<1>1. \A h : /\ got(h).val = Completed(c)
             /\ got(h).errs = inst(h).errs + check_backends(c) + vips.errs + acl.errs + rl.errs
             /\ got(h).warns = inst(h).warns + vips.warns + acl.warns + rl.warns
  BY DEF conf_check, Completed
<1>2. /\ inst(here).errs \in Nat /\ inst(here).warns \in Nat /\ inst(here).errs = inst({}).errs
  BY InstanceChecked DEF IsConf
<1>3. check_backends(c) \in Nat /\ (check_backends(c) = 0 => BackendsFine(c))
  BY BackendsChecked DEF IsConf
<1>4. /\ vips.errs \in Nat /\ (vips.errs = 0 => VipsFine(c))
      /\ vips.warns \in Nat /\ (vips.warns = 0 => \A e \in DOMAIN c.vips : SomeUp(c.vips[e], c))
  BY VipsChecked
<1>5. /\ acl.errs \in Nat /\ (acl.errs = 0 => AclFine(c.acl))
      /\ acl.warns \in Nat /\ (acl.warns = 0 => AclAlive(c.acl))
  BY AclChecked DEF IsConf
<1>6. /\ rl.errs \in Nat /\ (rl.errs = 0 => RateFine(c))
      /\ rl.warns \in Nat /\ (rl.warns = 0 => (c.ratelimit.enabled => Metered(c)))
  BY RatelimitChecked DEF IsConf
<1> DEFINE n1 == inst(here).errs  n2 == check_backends(c)  n3 == vips.errs  n4 == acl.errs  n5 == rl.errs
           w1 == inst(here).warns  w3 == vips.warns  w4 == acl.warns  w5 == rl.warns
           Up == \A e \in DOMAIN c.vips : SomeUp(c.vips[e], c)
           errs == got(here).errs
           warns == got(here).warns
<1>7. /\ n1 \in Nat /\ n2 \in Nat /\ n3 \in Nat /\ n4 \in Nat /\ n5 \in Nat
      /\ errs = n1 + n2 + n3 + n4 + n5
      /\ n2 = 0 /\ n3 = 0 /\ n4 = 0 /\ n5 = 0 => ConfFine(c)
  BY <1>1, <1>2, <1>3, <1>4, <1>5, <1>6, Zenon DEF ConfFine
<1>8. /\ w1 \in Nat /\ w3 \in Nat /\ w4 \in Nat /\ w5 \in Nat
      /\ warns = w1 + w3 + w4 + w5
      /\ w3 = 0 /\ w4 = 0 /\ w5 = 0 => ConfQuiet(c)
  BY <1>1, <1>2, <1>4, <1>5, <1>6, Zenon DEF ConfQuiet
<1>9. got(here).errs = got({}).errs
  BY <1>1, <1>2, Zenon
<1> HIDE DEF n1, n2, n3, n4, n5, w1, w3, w4, w5, errs, warns
<1>10. errs \in Nat /\ (errs = 0 => ConfFine(c))
  BY <1>7
<1>11. warns \in Nat /\ (warns = 0 => ConfQuiet(c))
  BY <1>8
<1> QED
  BY <1>1, <1>9, <1>10, <1>11, Zenon DEF errs, warns

(***************************************************************************)
(* The configuration that conf_check() completes.                           *)
(***************************************************************************)

\* fib_default() writes one field.
LEMMA BackendKept ==
    ASSUME NEW b, BackendFields \subseteq DOMAIN b
    PROVE  LET d == fib_default(b)
           IN /\ d.name = b.name /\ d.id = b.id /\ d.addr = b.addr /\ d.mode = b.mode /\ d.up = b.up
              /\ d.encap_dport = b.encap_dport /\ d.vni = b.vni /\ d.inner_mac = b.inner_mac
              /\ d.fib = IF b.fib_stated THEN b.fib_value ELSE b.mac_stated
  BY DEF fib_default, BackendFields

\* resolve_members() writes one field of each member: where its backend is known, the
\* id of that backend.
LEMMA MembersKept ==
    ASSUME NEW v, NEW c, IsShape(v), MembersOf(v.members), AllKnown(v, c)
    PROVE  LET w == resolve_members(v, c)
           IN /\ w.keys = v.keys /\ w.flags = v.flags /\ DOMAIN w.members = DOMAIN v.members
              /\ \A i \in DOMAIN v.members :
                    /\ w.members[i].backend_name = v.members[i].backend_name
                    /\ w.members[i].weight = v.members[i].weight
                    /\ \E j \in find_backend(c, v.members[i].backend_name) :
                          w.members[i].backend_id = c.backends[j].id
<1> DEFINE found(i) == find_backend(c, v.members[i].backend_name)
           with(i) == [v.members[i] EXCEPT !.backend_id = c.backends[CHOOSE j \in found(i) : TRUE].id]
           ms == [i \in DOMAIN v.members |-> IF found(i) = {} THEN v.members[i] ELSE with(i)]
           w == resolve_members(v, c)
<1>1. w = [v EXCEPT !.members = ms]
  BY DEF resolve_members
<1>2. v = [keys |-> v.keys, hash_key |-> v.hash_key, table_seed |-> v.table_seed,
           flags |-> v.flags, members |-> v.members]
  BY DEF IsShape
<1>3. w.keys = v.keys /\ w.flags = v.flags /\ w.members = ms
  <2> HIDE DEF ms, w
  <2> QED
    BY <1>1, <1>2
<1>4. ASSUME NEW i \in DOMAIN v.members
      PROVE  /\ ms[i].backend_name = v.members[i].backend_name /\ ms[i].weight = v.members[i].weight
             /\ \E j \in found(i) : ms[i].backend_id = c.backends[j].id
  <2>1. found(i) # {} /\ DOMAIN v.members[i] = {"backend_name", "backend_id", "weight"}
    BY DEF AllKnown, MembersOf, MemberFields
  <2>2. ms[i] = with(i)
    BY <2>1
  <2> DEFINE j == CHOOSE k \in found(i) : TRUE
  <2>3. j \in found(i)
    BY <2>1
  <2>4. with(i) = [v.members[i] EXCEPT !.backend_id = c.backends[j].id]
    OBVIOUS
  <2> HIDE DEF ms, found, j, with
  <2>5. /\ with(i).backend_name = v.members[i].backend_name /\ with(i).weight = v.members[i].weight
        /\ with(i).backend_id = c.backends[j].id
    BY <2>1, <2>4
  <2> QED
    BY <2>2, <2>3, <2>5
<1>5. DOMAIN ms = DOMAIN v.members
  OBVIOUS
<1> HIDE DEF ms
<1> QED
  BY <1>3, <1>4, <1>5

\* The sections and arrays of what conf_check() completes.
LEMMA CompletedIs ==
    ASSUME NEW c, IsConf(c)
    PROVE  LET d == Completed(c)
           IN /\ d.instance = c.instance /\ d.acl = c.acl /\ d.ratelimit = c.ratelimit
              /\ DOMAIN d.backends = DOMAIN c.backends /\ DOMAIN d.vips = DOMAIN c.vips
              /\ \A i \in DOMAIN c.backends : d.backends[i] = fib_default(c.backends[i])
              /\ \A e \in DOMAIN c.vips : d.vips[e] = resolve_members(c.vips[e], c)
<1> DEFINE bs == [i \in DOMAIN c.backends |-> fib_default(c.backends[i])]
           vs == [e \in DOMAIN c.vips |-> resolve_members(c.vips[e], c)]
           d == Completed(c)
<1>1. d = [c EXCEPT !.backends = bs, !.vips = vs]
  BY DEF Completed
<1>2. c = [instance |-> c.instance, acl |-> c.acl, ratelimit |-> c.ratelimit,
           backends |-> c.backends, vips |-> c.vips]
  BY DEF IsConf
<1>3. /\ DOMAIN bs = DOMAIN c.backends /\ DOMAIN vs = DOMAIN c.vips
      /\ \A i \in DOMAIN c.backends : bs[i] = fib_default(c.backends[i])
      /\ \A e \in DOMAIN c.vips : vs[e] = resolve_members(c.vips[e], c)
  OBVIOUS
<1> HIDE DEF bs, vs, d
<1>4. /\ d.instance = c.instance /\ d.acl = c.acl /\ d.ratelimit = c.ratelimit
      /\ d.backends = bs /\ d.vips = vs
  BY <1>1, <1>2
<1> QED
  BY <1>3, <1>4 DEF d

\* A configuration that was read and checked without a mistake.
Good(top, c) == IsConf(c) /\ ConfOf(top, c) /\ ConfFine(c)

\* Its backends, completed.
LEMMA BackendsCompleted ==
    ASSUME NEW top, NEW c, Good(top, c), NEW i \in DOMAIN c.backends
    PROVE  LET b == c.backends[i]
               d == Completed(c).backends[i]
           IN /\ d.name = b.name /\ d.id = b.id /\ d.addr = b.addr /\ d.mode = b.mode /\ d.up = b.up
              /\ d.encap_dport = b.encap_dport /\ d.vni = b.vni /\ d.inner_mac = b.inner_mac
              /\ d.fib = IF b.fib_stated THEN b.fib_value ELSE b.mac_stated
<1>1. Completed(c).backends[i] = fib_default(c.backends[i])
  BY CompletedIs DEF Good
<1>2. BackendFields \subseteq DOMAIN c.backends[i]
  BY DEF Good, ConfOf, BackendOf
<1> QED
  BY <1>1, <1>2, BackendKept

\* Its VIPs, completed.
LEMMA VipsCompleted ==
    ASSUME NEW top, NEW c, Good(top, c), NEW e \in DOMAIN c.vips
    PROVE  LET v == c.vips[e]
               w == Completed(c).vips[e]
           IN /\ w.keys = v.keys /\ w.flags = v.flags /\ DOMAIN w.members = DOMAIN v.members
              /\ \A i \in DOMAIN v.members :
                    /\ w.members[i].backend_name = v.members[i].backend_name
                    /\ w.members[i].weight = v.members[i].weight
                    /\ \E j \in find_backend(c, v.members[i].backend_name) :
                          w.members[i].backend_id = c.backends[j].id
<1>1. Completed(c).vips[e] = resolve_members(c.vips[e], c)
  BY CompletedIs DEF Good
<1>2. IsShape(c.vips[e]) /\ MembersOf(c.vips[e].members) /\ AllKnown(c.vips[e], c)
  BY DEF Good, IsConf, ConfOf, VipOf, ConfFine, VipsFine, VipFine
<1> QED
  BY <1>1, <1>2, MembersKept

\* What was loaded is what the file says.
LEMMA GoodStated ==
    ASSUME NEW top, NEW c, Good(top, c)
    PROVE  Stated(Completed(c), top)
<1> DEFINE d == Completed(c)
<1>1. DOMAIN d.backends = DOMAIN c.backends /\ DOMAIN d.vips = DOMAIN c.vips
  BY CompletedIs DEF Good
<1>2. ASSUME NEW e \in DOMAIN d.vips
      PROVE  /\ \A key \in FlagKeys : Flag(d.vips[e].flags, key) = Says(top.vip[e], key, FALSE)
             /\ VIP_QUIC_CID_LEN(d.vips[e].flags) = Says(top.vip[e], "quic_cid_len", 0)
             /\ VIP_DSCP(d.vips[e].flags) = Says(top.vip[e], "dscp", 0)
             /\ \A k \in DOMAIN d.vips[e].keys : d.vips[e].keys[k].port = Says(top.vip[e], "port", 0)
  <2>1. d.vips[e].keys = c.vips[e].keys /\ d.vips[e].flags = c.vips[e].flags
    BY <1>1, VipsCompleted
  <2>2. FlagsOf(top["vip"][e], c.vips[e].flags) /\ KeysOf(top["vip"][e], c.vips[e].keys)
    BY <1>1 DEF Good, ConfOf, VipOf
  <2> HIDE DEF d
  <2>3. /\ \A key \in FlagKeys : Flag(d.vips[e].flags, key) = Says(top["vip"][e], key, FALSE)
        /\ VIP_QUIC_CID_LEN(d.vips[e].flags) = Says(top["vip"][e], "quic_cid_len", 0)
        /\ VIP_DSCP(d.vips[e].flags) = Says(top["vip"][e], "dscp", 0)
    BY <2>1, <2>2, Zenon DEF FlagsOf
  <2>4. \A k \in DOMAIN d.vips[e].keys : d.vips[e].keys[k].port = Says(top["vip"][e], "port", 0)
    BY <2>1, <2>2, Zenon DEF KeysOf
  <2> QED
    BY <2>3, <2>4
<1>3. ASSUME NEW i \in DOMAIN d.backends
      PROVE  /\ d.backends[i].fib = Says(top.backend[i], "fib", "mac" \in DOMAIN top.backend[i])
             /\ d.backends[i].up = (Says(top.backend[i], "state", "up") = "up")
  <2> DEFINE b == c.backends[i]  elem == top["backend"][i]
  <2>1. d.backends[i].up = b.up /\ d.backends[i].fib = IF b.fib_stated THEN b.fib_value ELSE b.mac_stated
    BY <1>1, BackendsCompleted
  <2>2. BackendOf(elem, b)
    BY <1>1 DEF Good, ConfOf
  <2> HIDE DEF d, b, elem
  <2>3. d.backends[i].up = (Says(elem, "state", "up") = "up")
    BY <2>1, <2>2, Zenon DEF BackendOf
  <2>4. d.backends[i].fib = Says(elem, "fib", "mac" \in DOMAIN elem)
    <3>1. CASE "fib" \in DOMAIN elem
      BY <2>1, <2>2, <3>1, Zenon DEF BackendOf, Says
    <3>2. CASE "fib" \notin DOMAIN elem
      <4>1. ~b.fib_stated /\ b.mac_stated \in BOOLEAN /\ (b.mac_stated <=> "mac" \in DOMAIN elem)
        BY <2>2, <3>2, Zenon DEF BackendOf
      <4>2. b.mac_stated = ("mac" \in DOMAIN elem)
        BY <4>1
      <4>3. d.backends[i].fib = b.mac_stated
        BY <2>1, <4>1, Zenon
      <4>4. Says(elem, "fib", "mac" \in DOMAIN elem) = ("mac" \in DOMAIN elem)
        BY <3>2, Zenon DEF Says
      <4> QED
        BY <4>2, <4>3, <4>4, Zenon
    <3> QED
      BY <3>1, <3>2
  <2> QED
    BY <2>3, <2>4 DEF elem
<1> QED
  BY <1>2, <1>3, Zenon DEF Stated

\* The addresses of a group are hashed alike.
LEMMA GoodTogether ==
    ASSUME NEW top, NEW c, Good(top, c), NEW e \in DOMAIN Completed(c).vips,
           NEW k \in Range(Completed(c).vips[e].keys), NEW m \in Range(Completed(c).vips[e].keys),
           k.proto = "sctp"
    PROVE  HashInput(Completed(c).vips[e], k) = HashInput(Completed(c).vips[e], m)
<1> DEFINE v == c.vips[e]  w == Completed(c).vips[e]
<1>1. e \in DOMAIN c.vips
  BY CompletedIs DEF Good
<1>2. w.keys = v.keys /\ w.flags = v.flags
  BY <1>1, VipsCompleted
<1>3. IsShape(v) /\ KeysOf(top["vip"][e], v.keys) /\ GroupFine(v)
  BY <1>1 DEF Good, IsConf, ConfOf, VipOf, ConfFine, VipsFine, VipFine
<1> HIDE DEF v, w
<1>4. k \in Range(v.keys) /\ m \in Range(v.keys)
  BY <1>2 DEF w
<1>5. PICK i \in DOMAIN v.keys : k = v.keys[i]
  BY <1>4 DEF Range
<1>6. PICK j \in DOMAIN v.keys : m = v.keys[j]
  BY <1>4 DEF Range
<1>7. v.keys \in Seq(Range(v.keys))
  BY <1>3 DEF IsShape
<1>8. CASE Len(v.keys) < 2
  <2>1. i = j
    BY <1>5, <1>6, <1>7, <1>8
  <2> QED
    BY <1>5, <1>6, <2>1
<1>9. CASE ~(Len(v.keys) < 2)
  <2>1. 1 \in DOMAIN v.keys
    BY <1>7, <1>9
  <2>2. v.keys[1].proto = "sctp"
    BY <1>3, <1>5, <2>1, Zenon DEF KeysOf
  <2>3. ~Flag(v.flags, "hash_5tuple") /\ (4 \in Families(v) => Families(v) = {4} \/ Flag(v.flags, "hash_ports"))
    BY <1>3, <1>9, <2>2 DEF GroupFine
  <2>4. k.family \in Families(v) /\ m.family \in Families(v) /\ k.family \in {4, 6} /\ m.family \in {4, 6}
    BY <1>3, <1>5, <1>6 DEF Families, KeysOf
  <2>5. Flag(v.flags, "hash_ports") \/ k.family = m.family
    BY <2>3, <2>4
  <2> QED
    BY <1>2, <2>3, <2>5, Zenon DEF HashInput, w
<1> QED
  BY <1>8, <1>9

\* The addresses are where they were.
LEMMA KeysCompleted ==
    ASSUME NEW top, NEW c, Good(top, c)
    PROVE  /\ KeyPlaces(Completed(c)) = KeyPlaces(c)
           /\ \A at \in KeyPlaces(c) : KeyAt(Completed(c), at) = KeyAt(c, at)
<1> DEFINE d == Completed(c)
<1>1. DOMAIN d.vips = DOMAIN c.vips
  BY CompletedIs DEF Good
<1>2. \A e \in DOMAIN c.vips : d.vips[e].keys = c.vips[e].keys
  BY VipsCompleted
<1> HIDE DEF d
<1>3. KeyPlaces(d) = KeyPlaces(c)
  BY <1>1, <1>2 DEF KeyPlaces
<1>4. ASSUME NEW at \in KeyPlaces(c) PROVE KeyAt(d, at) = KeyAt(c, at)
  <2>1. at[1] \in DOMAIN c.vips
    BY DEF KeyPlaces
  <2> QED
    BY <1>2, <2>1 DEF KeyAt
<1> QED
  BY <1>3, <1>4 DEF d

\* What was loaded can be served.
LEMMA GoodServes ==
    ASSUME NEW top, NEW c, Good(top, c)
    PROVE  Serves(Completed(c))
<1> DEFINE d == Completed(c)
           backend(m) == {b \in Range(d.backends) : b.id = m.backend_id}
<1>1. /\ DOMAIN d.backends = DOMAIN c.backends /\ DOMAIN d.vips = DOMAIN c.vips
      /\ d.instance = c.instance /\ d.acl = c.acl /\ d.ratelimit = c.ratelimit
  BY CompletedIs DEF Good
<1>2. \A i \in DOMAIN c.backends :
         /\ d.backends[i].name = c.backends[i].name /\ d.backends[i].id = c.backends[i].id
         /\ d.backends[i].addr = c.backends[i].addr /\ d.backends[i].mode = c.backends[i].mode
         /\ d.backends[i].vni = c.backends[i].vni /\ d.backends[i].inner_mac = c.backends[i].inner_mac
  BY BackendsCompleted
<1>3. ASSUME NEW e \in DOMAIN c.vips
      PROVE  /\ d.vips[e].keys = c.vips[e].keys /\ d.vips[e].flags = c.vips[e].flags
             /\ DOMAIN d.vips[e].members = DOMAIN c.vips[e].members
             /\ \A i \in DOMAIN c.vips[e].members :
                   /\ d.vips[e].members[i].backend_name = c.vips[e].members[i].backend_name
                   /\ d.vips[e].members[i].weight = c.vips[e].members[i].weight
                   /\ \E j \in find_backend(c, c.vips[e].members[i].backend_name) :
                         d.vips[e].members[i].backend_id = c.backends[j].id
  BY VipsCompleted
<1>4. KeyPlaces(d) = KeyPlaces(c) /\ \A at \in KeyPlaces(c) : KeyAt(d, at) = KeyAt(c, at)
  BY KeysCompleted
<1>5. /\ VipsFine(c) /\ BackendsFine(c) /\ RateFine(c)
      /\ \A i \in DOMAIN c.backends : BackendOf(top["backend"][i], c.backends[i])
      /\ \A e \in DOMAIN c.vips : VipOf(top["vip"][e], c.vips[e])
  BY DEF Good, ConfFine, ConfOf
<1>6. MaxBackends \in Nat \ {0}
  BY ConfFileAssumption
<1> HIDE DEF d
<1>7. Count(KeyPlaces(d)) <= MaxVips
  BY <1>4, <1>5 DEF VipsFine
<1>8. \A at, by \in KeyPlaces(d) : KeyAt(d, at) = KeyAt(d, by) => at = by
  BY <1>4, <1>5 DEF VipsFine
<1>9. ASSUME NEW at \in KeyPlaces(d) PROVE KeyAt(d, at).family \in {4, 6} /\ KeyAt(d, at).proto # "none"
  <2>1. at \in KeyPlaces(c) /\ KeyAt(d, at) = KeyAt(c, at)
    BY <1>4
  <2>2. at[1] \in DOMAIN c.vips /\ at[2] \in DOMAIN c.vips[at[1]].keys
    BY <2>1 DEF KeyPlaces
  <2>3. KeysOf(top["vip"][at[1]], c.vips[at[1]].keys)
    BY <1>5, <2>2 DEF VipOf
  <2> QED
    BY <2>1, <2>2, <2>3 DEF KeyAt, KeysOf
<1>10. ASSUME NEW i \in DOMAIN c.backends PROVE c.backends[i].id \in 1 .. MaxBackends - 1
  <2> DEFINE n == c.backends[i].id
  <2>1. n \in 0 .. MaxBackends - 1 /\ n # 0
    BY <1>5 DEF BackendsFine, BackendOf
  <2> HIDE DEF n
  <2>2. n \in 1 .. MaxBackends - 1
    BY <1>6, <2>1
  <2> QED
    BY <2>2 DEF n
<1>11. {b.id : b \in Range(d.backends)} \subseteq 1 .. MaxBackends - 1
  BY <1>1, <1>2, <1>10 DEF Range
<1>12. ASSUME NEW e \in DOMAIN d.vips
       PROVE  /\ DOMAIN d.vips[e].keys # {}
              /\ \A m \in Range(d.vips[e].members) :
                    {b.name : b \in backend(m)} = {m.backend_name} /\ m.weight > 0
  <2>1. e \in DOMAIN c.vips
    BY <1>1
  <2>2. KeysOf(top["vip"][e], c.vips[e].keys) /\ MembersOf(c.vips[e].members)
    BY <1>5, <2>1 DEF VipOf
  <2>3. DOMAIN d.vips[e].keys # {}
    BY <1>3, <2>1, <2>2 DEF KeysOf
  <2>4. ASSUME NEW m \in Range(d.vips[e].members)
        PROVE  {b.name : b \in backend(m)} = {m.backend_name} /\ m.weight > 0
    <3>1. PICK i \in DOMAIN c.vips[e].members : m = d.vips[e].members[i]
      BY <1>3, <2>1 DEF Range
    <3>2. m.weight > 0
      BY <1>3, <2>1, <2>2, <3>1 DEF MembersOf
    <3>3. PICK j \in find_backend(c, m.backend_name) : m.backend_id = c.backends[j].id
      BY <1>3, <2>1, <3>1
    <3>4. j \in DOMAIN c.backends /\ c.backends[j].name = m.backend_name
      BY DEF find_backend
    <3>5. ASSUME NEW b \in backend(m) PROVE b.name = m.backend_name
      <4>1. PICK k \in DOMAIN c.backends : b = d.backends[k]
        BY <1>1 DEF Range
      <4>2. c.backends[k].id = c.backends[j].id
        BY <1>2, <3>3, <4>1
      <4>3. k = j
        BY <1>5, <3>4, <4>2 DEF BackendsFine
      <4> QED
        BY <1>2, <3>4, <4>1, <4>3
    <3>6. d.backends[j] \in backend(m)
      BY <1>1, <1>2, <3>3, <3>4 DEF Range
    <3>7. d.backends[j].name = m.backend_name
      BY <1>2, <3>4
    <3> HIDE DEF backend
    <3> QED
      BY <3>2, <3>5, <3>6, <3>7
  <2> QED
    BY <2>3, <2>4
<1>13. ASSUME NEW b \in Range(d.backends)
       PROVE  /\ b.addr # 0
              /\ b.mode # "l2dsr" => d.instance.tunnel_src_set
              /\ b.mode = "vxlan" <=> b.vni \in 1 .. 2^24 - 1 /\ b.inner_mac # 0
  <2>1. PICK i \in DOMAIN c.backends : b = d.backends[i]
    BY <1>1 DEF Range
  <2> DEFINE a == c.backends[i]
  <2>2. b.addr = a.addr /\ b.mode = a.mode /\ b.vni = a.vni /\ b.inner_mac = a.inner_mac
    BY <1>2, <2>1
  <2>3. BackendFine(a, c.instance) /\ BackendOf(top["backend"][i], a)
    BY <1>5 DEF BackendsFine
  <2> HIDE DEF a
  <2>4. b.addr # 0 /\ (b.mode # "l2dsr" => d.instance.tunnel_src_set)
    BY <1>1, <2>2, <2>3 DEF BackendFine, BackendOf
  <2>5. CASE b.mode = "vxlan"
    <3>1. a.vni \in U24 /\ a.vni # 0 /\ a.inner_mac # 0
      BY <2>2, <2>3, <2>5 DEF BackendFine, BackendOf
    <3>2. 2^24 \in Nat
      BY PowerPositive
    <3> DEFINE p == 2^24
    <3>3. a.vni \in 0 .. p - 1 /\ p \in Nat
      BY <3>1, <3>2 DEF U24
    <3> HIDE DEF p
    <3>4. a.vni \in 1 .. p - 1
      BY <3>1, <3>3
    <3>5. a.vni \in 1 .. 2^24 - 1
      BY <3>4 DEF p
    <3> QED
      BY <2>2, <2>4, <2>5, <3>1, <3>5
  <2>6. CASE b.mode # "vxlan"
    <3>1. a.vni = 0
      BY <2>2, <2>3, <2>6 DEF BackendFine, BackendOf
    <3> DEFINE p == 2^24 - 1
    <3>2. 0 \notin 1 .. p
      <4> HIDE DEF p
      <4> QED
        OBVIOUS
    <3> QED
      BY <2>2, <2>4, <2>6, <3>1, <3>2
  <2> QED
    BY <2>5, <2>6
<1>14. Meterable(d)
  <2> SUFFICES ASSUME NEW e \in DOMAIN d.vips, Flag(d.vips[e].flags, "ratelimit")
               PROVE  /\ Flag(d.vips[e].flags, "acl")
                      /\ d.ratelimit.enabled =>
                            /\ d.acl.enabled
                            /\ d.ratelimit.burst_packets \in 1 .. 2^24 - 1
                            /\ marlind_scale_refill(d.ratelimit.tokens_per_sec) > 0
    BY Zenon DEF Meterable
  <2>1. e \in DOMAIN c.vips /\ d.vips[e].flags = c.vips[e].flags
    BY <1>1, <1>3
  <2>2. Metered(c) /\ VipFine(c.vips[e], c)
    BY <1>5, <2>1 DEF Metered, VipsFine
  <2> QED
    BY <1>1, <1>5, <2>1, <2>2, Zenon DEF VipFine, RateFine
<1> QED
  BY <1>7, <1>8, <1>9, <1>11, <1>12, <1>13, <1>14 DEF Serves, d

\* Rules of the ACL that match the same addresses are one rule.
LEMMA GoodLossless ==
    ASSUME NEW top, NEW c, Good(top, c), NEW l \in Lists,
           NEW i \in DOMAIN Completed(c).acl.list[l], NEW j \in DOMAIN Completed(c).acl.list[l]
    PROVE  LET rules == Completed(c).acl.list[l]
           IN /\ Bits(rules[i]) = Bits(rules[j]) => rules[i] = rules[j]
              /\ IsAllow(l) => Bits(rules[i]) # <<>>
<1> DEFINE rules == c.acl.list[l]
<1>1. Completed(c).acl = c.acl
  BY CompletedIs DEF Good
<1>2. i \in DOMAIN rules /\ j \in DOMAIN rules
  BY <1>1
<1>3. IsRules(rules, IsV6(l)) /\ ListFine(rules, IsAllow(l))
  BY DEF Good, IsConf, ConfFine, AclFine
<1> HIDE DEF rules
<1>4. IsRule(rules[i]) /\ IsRule(rules[j]) /\ rules[i].v6 = rules[j].v6
  BY <1>2, <1>3 DEF IsRules
<1>5. /\ ~conf_cidr_host_bits_set(rules[i]) /\ ~conf_cidr_host_bits_set(rules[j])
      /\ IsAllow(l) => rules[i].prefixlen # 0
  BY <1>2, <1>3 DEF ListFine
<1>6. Bits(rules[i]) = Bits(rules[j]) => rules[i] = rules[j]
  BY <1>4, <1>5, SameBits
<1>7. Bits(rules[i]) = <<>> => rules[i].prefixlen = 0
  <2>1. Len(Bits(rules[i])) = rules[i].prefixlen
    BY <1>4, BitsSeq
  <2> QED
    BY <2>1
<1> QED
  BY <1>1, <1>5, <1>6, <1>7 DEF rules

\* What was loaded in silence is fine.
LEMMA GoodFine ==
    ASSUME NEW top, NEW c, Good(top, c), ConfQuiet(c)
    PROVE  Fine(Completed(c))
<1> DEFINE d == Completed(c)
<1>1. /\ DOMAIN d.backends = DOMAIN c.backends /\ DOMAIN d.vips = DOMAIN c.vips
      /\ d.acl = c.acl /\ d.ratelimit = c.ratelimit
  BY CompletedIs DEF Good
<1>2. \A k \in DOMAIN c.backends :
         /\ d.backends[k].name = c.backends[k].name /\ d.backends[k].id = c.backends[k].id
         /\ d.backends[k].up = c.backends[k].up
  BY BackendsCompleted
<1>3. ASSUME NEW e \in DOMAIN c.vips
      PROVE  /\ d.vips[e].flags = c.vips[e].flags
             /\ DOMAIN d.vips[e].members = DOMAIN c.vips[e].members
             /\ \A i \in DOMAIN c.vips[e].members :
                   \E j \in find_backend(c, c.vips[e].members[i].backend_name) :
                      d.vips[e].members[i].backend_id = c.backends[j].id
  BY VipsCompleted
<1>4. BackendsFine(c) /\ \A l \in Lists : IsRules(c.acl.list[l], IsV6(l))
  BY DEF Good, ConfFine, IsConf
<1> HIDE DEF d
<1>5. ASSUME NEW a \in Lists, NEW b \in Lists, IsAllow(a), ~IsAllow(b), IsV6(a) = IsV6(b),
             NEW i \in DOMAIN d.acl.list[a], NEW j \in DOMAIN d.acl.list[b]
      PROVE  ~IsPrefix(Bits(d.acl.list[a][i]), Bits(d.acl.list[b][j]))
  <2> DEFINE x == c.acl.list[a][i]  y == c.acl.list[b][j]
  <2>1. ~prefix_covers(x, y)
    BY <1>1, <1>5 DEF ConfQuiet, AclAlive
  <2>2. IsRule(x) /\ IsRule(y) /\ x.v6 = IsV6(a) /\ y.v6 = IsV6(b)
    BY <1>1, <1>4 DEF IsRules
  <2>3. x.v6 = y.v6
    BY <1>5, <2>2, Zenon
  <2> HIDE DEF x, y
  <2>4. ~IsPrefix(Bits(x), Bits(y))
    BY <2>1, <2>2, <2>3, PrefixCovers
  <2> QED
    BY <1>1, <2>4 DEF x, y
<1>6. ASSUME NEW e \in DOMAIN d.vips
      PROVE  \E i \in DOMAIN d.vips[e].members, b \in Range(d.backends) :
                b.id = d.vips[e].members[i].backend_id /\ b.up
  <2>1. e \in DOMAIN c.vips
    BY <1>1
  <2>2. PICK i \in DOMAIN c.vips[e].members :
           \E j \in find_backend(c, c.vips[e].members[i].backend_name) : c.backends[j].up
    BY <2>1 DEF ConfQuiet, SomeUp
  <2> DEFINE name == c.vips[e].members[i].backend_name
  <2>3. PICK j \in find_backend(c, name) : c.backends[j].up
    BY <2>2
  <2>4. PICK k \in find_backend(c, name) : d.vips[e].members[i].backend_id = c.backends[k].id
    BY <1>3, <2>1
  <2>5. /\ j \in DOMAIN c.backends /\ c.backends[j].name = name
        /\ k \in DOMAIN c.backends /\ c.backends[k].name = name
    BY DEF find_backend
  <2>6. j = k
    BY <1>4, <2>5 DEF BackendsFine
  <2>7. d.backends[k].id = d.vips[e].members[i].backend_id /\ d.backends[k].up
    BY <1>2, <2>3, <2>4, <2>5, <2>6
  <2>8. d.backends[k] \in Range(d.backends) /\ i \in DOMAIN d.vips[e].members
    BY <1>1, <1>3, <2>1, <2>5 DEF Range
  <2> QED
    BY <2>7, <2>8
<1>7. d.ratelimit.enabled => \E e \in DOMAIN d.vips : Flag(d.vips[e].flags, "ratelimit")
  BY <1>1, <1>3 DEF ConfQuiet, Metered
<1> QED
  BY <1>5, <1>6, <1>7, Zenon DEF Fine, d

(***************************************************************************)
(* A reload against the configuration in force, and the diagnostics.        *)
(***************************************************************************)

\* conf_check_against_previous() reports a number of changes, and without any the two
\* are of one daemon and their backends keep their identities.
LEMMA PreviousChecked ==
    ASSUME NEW cur, NEW prev, IsFiniteSet(DOMAIN cur.backends)
    PROVE  /\ conf_check_against_previous(cur, prev) \in Nat
           /\ conf_check_against_previous(cur, prev) = 0 =>
                 /\ \A k \in {"iface", "object", "pin_dir"} : cur.instance[k] = prev.instance[k]
                 /\ \A b \in Range(prev.backends), n \in Range(cur.backends) :
                       b.id = n.id => Identity(b) = Identity(n)
<1> DEFINE K == {"iface", "object", "pin_dir"}
           S == {k \in K : cur.instance[k] # prev.instance[k]}
           D == {i \in DOMAIN cur.backends : \E j \in DOMAIN prev.backends :
                     /\ cur.backends[i].id = prev.backends[j].id
                     /\ backend_identity_changed(cur.backends[i], prev.backends[j])}
           got == conf_check_against_previous(cur, prev)
<1>1. got = Count(S) + Count(D)
  BY DEF conf_check_against_previous
<1>2. IsFiniteSet(K)
  <2>1. \A a : IsFiniteSet({a})
    BY FS_Singleton
  <2>2. IsFiniteSet({"iface"} \cup {"object"} \cup {"pin_dir"})
    BY <2>1, FS_Union
  <2>3. K = {"iface"} \cup {"object"} \cup {"pin_dir"}
    OBVIOUS
  <2> QED
    BY <2>2, <2>3
<1>3. S \subseteq K /\ D \subseteq DOMAIN cur.backends
  OBVIOUS
<1>4. S = {} => \A k \in K : cur.instance[k] = prev.instance[k]
  OBVIOUS
<1>5. ASSUME D = {}, NEW b \in Range(prev.backends), NEW n \in Range(cur.backends), b.id = n.id
      PROVE  Identity(b) = Identity(n)
  <2>1. PICK j \in DOMAIN prev.backends : b = prev.backends[j]
    BY DEF Range
  <2>2. PICK i \in DOMAIN cur.backends : n = cur.backends[i]
    BY DEF Range
  <2>3. ~backend_identity_changed(n, b)
    BY <1>5, <2>1, <2>2
  <2> QED
    BY <2>3 DEF backend_identity_changed, Identity
<1> HIDE DEF S, D, K
<1>6. /\ Count(S) \in Nat /\ Count(D) \in Nat
      /\ Count(S) = 0 => S = {}
      /\ Count(D) = 0 => D = {}
  BY <1>2, <1>3, PartCounted
<1>7. got \in Nat /\ (got = 0 => Count(S) = 0 /\ Count(D) = 0)
  <2> DEFINE s == Count(S)  t == Count(D)
  <2>1. s \in Nat /\ t \in Nat /\ got = s + t
    BY <1>1, <1>6
  <2> HIDE DEF s, t, got
  <2>2. got \in Nat /\ (got = 0 => s = 0 /\ t = 0)
    BY <2>1
  <2> QED
    BY <2>2 DEF s, t
<1> QED
  BY <1>4, <1>5, <1>6, <1>7 DEF K

\* diag_append() to a report without a mistake: there is none exactly if none is
\* added, and no warning only if none is added.
LEMMA DiagAppended ==
    ASSUME NEW diag, diag.count = 0, diag.warn_count \in Nat, NEW errs \in Nat, NEW warns \in Nat
    PROVE  LET d == diag_append(diag, errs, warns)
           IN /\ d.count = 0 <=> errs = 0
              /\ d.warn_count \in Nat
              /\ d.warn_count = 0 => warns = 0
<1> DEFINE d == diag_append(diag, errs, warns)
           w == diag.warn_count
<1>1. DiagMax \in Nat \ {0}
  BY ConfLoadAssumption
<1>2. d.count = Min({diag.count + errs, DiagMax}) /\ d.warn_count = Min({w + warns, DiagMax})
  BY DEF diag_append
<1>3. diag.count + errs = errs
  OBVIOUS
<1>4. w \in Nat
  OBVIOUS
<1> HIDE DEF w, d
<1>5. d.count = IF errs <= DiagMax THEN errs ELSE DiagMax
  BY <1>1, <1>2, <1>3, MinOfTwo
<1> DEFINE n == w + warns
<1>6. n \in Nat /\ (n = 0 => warns = 0)
  BY <1>4
<1>7. d.warn_count = Min({n, DiagMax})
  BY <1>2
<1> HIDE DEF n
<1>8. d.warn_count = IF n <= DiagMax THEN n ELSE DiagMax
  BY <1>1, <1>6, <1>7, MinOfTwo
<1>9. d.count = 0 <=> errs = 0
  BY <1>1, <1>5
<1>10. d.warn_count \in Nat /\ (d.warn_count = 0 => warns = 0)
  BY <1>1, <1>6, <1>8
<1> QED
  BY <1>9, <1>10 DEF d

(***************************************************************************)
(* The inductive invariant of conf_load() and its callers.                  *)
(***************************************************************************)

Texts == Files \cup Revisions

\* A file that can be parsed.
IsText(top) == top \in Texts /\ top \notin {NoFile, Wrong}

Read(top) == ParseSections(top, FALSE)

\* What conf_load() says of a text, on a host without interfaces.
Accepts(top) == top # Wrong /\ Read(top).errs = 0 /\ conf_check(Read(top).val, {}).errs = 0

IsProc(r) ==
    r = [cmd |-> r.cmd, phase |-> r.phase, diag |-> r.diag, before |-> r.before, top |-> r.top,
         conf |-> r.conf, out |-> r.out]

\* A process that holds a loaded file holds what conf_check() completed of it.
LoadedInv(r) ==
    /\ IsText(r.top) /\ Good(r.top, Read(r.top).val)
    /\ r.conf = Completed(Read(r.top).val)
    /\ r.diag.warn_count = 0 => ConfQuiet(Read(r.top).val)

\* A process: on the way it has reported no mistake; what it holds was made of the
\* text it read; how conf_load() ended is what the text deserves.
ProcInv(r) ==
    /\ IsProc(r) /\ r.before = 0
    /\ r.phase \in {"open", "parse", "check", "loaded", "apply"} =>
          r.diag.count = 0 /\ r.diag.warn_count \in Nat
    /\ r.phase \in {"open", "parse", "check"} => r.out = "none"
    /\ r.phase = "parse" => r.top \in Texts
    /\ r.phase = "check" => /\ IsText(r.top) /\ ~instance_only(r.cmd)
                            /\ r.conf = Read(r.top).val /\ Read(r.top).errs = 0
    /\ r.phase = "loaded" /\ ~instance_only(r.cmd) => LoadedInv(r)
    /\ ~instance_only(r.cmd) => /\ r.out = "loaded" => Accepts(r.top)
                                /\ r.out = "refused" => ~Accepts(r.top)

\* No two backends share an id.
UniqueIds(c) == \A i, j \in DOMAIN c.backends : c.backends[i].id = c.backends[j].id => i = j

\* The daemon: nothing is in force until it runs, and what it is about to apply was
\* compared with what is.
DaemonInv(r, f) ==
    /\ r.cmd \in {"none", "attach", "reload"} /\ (r.phase # "idle" => r.cmd # "none")
    /\ r.phase = "idle" \/ (r.cmd = "attach" /\ r.phase # "run") => f = NoConf
    /\ r.phase = "apply" => /\ IsFiniteSet(DOMAIN r.conf.backends)
                            /\ conf_check_against_previous(r.conf, f) = 0 /\ UniqueIds(r.conf)
    /\ f # NoConf => UniqueIds(f)

LoadInv ==
    /\ text \in Texts /\ perms \in SUBSET {"writable", "readable"}
    /\ proc = [p \in Proc |-> proc[p]]
    /\ \A p \in Proc : ProcInv(proc[p])
    /\ DaemonInv(proc["daemon"], file)

\* What a text that is no mistake in TOML is.
LEMMA TextIsToml ==
    ASSUME NEW top, IsText(top)
    PROVE  IsToml(top)
  BY ConfLoadAssumption DEF IsText, Texts

\* A process that has done nothing.
LEMMA IdleInv ==
    ASSUME NEW c, NEW ph \in {"idle", "open"}
    PROVE  ProcInv([Idle EXCEPT !.cmd = c, !.phase = ph])
<1> DEFINE r == [Idle EXCEPT !.cmd = c, !.phase = ph]
<1>1. r = [Idle EXCEPT !.cmd = c, !.phase = ph]
  OBVIOUS
<1>2. Diag.count = 0 /\ Diag.warn_count = 0
  BY DEF Diag
<1> HIDE DEF r
<1>3. /\ r.cmd = c /\ r.phase = ph /\ r.diag = Diag /\ r.before = 0 /\ r.out = "none" /\ IsProc(r)
  BY <1>1 DEF IsProc, Idle
<1>4. ProcInv(r)
  BY <1>2, <1>3 DEF ProcInv
<1> QED
  BY <1>4 DEF r

\* ... and one that is not running.
LEMMA NothingInv == ProcInv(Idle)
<1>1. Diag.count = 0 /\ Diag.warn_count = 0
  BY DEF Diag
<1>2. /\ Idle.phase = "idle" /\ Idle.diag = Diag /\ Idle.before = 0 /\ Idle.out = "none" /\ IsProc(Idle)
  BY DEF IsProc, Idle
<1> QED
  BY <1>1, <1>2 DEF ProcInv

\* A step that gives one process a new state.
LEMMA SetKeeps ==
    ASSUME LoadInv, NEW p \in Proc, NEW r, ProcInv(r), Set(p, r), UNCHANGED disk,
           IF p = "daemon" THEN DaemonInv(r, file') ELSE file' = file
    PROVE  LoadInv'
<1>1. proc = [q \in Proc |-> proc[q]]
  BY DEF LoadInv
<1>2. proc' = [proc EXCEPT ![p] = r]
  BY DEF Set
<1>3. DOMAIN proc = Proc
  BY <1>1
<1>4. proc'[p] = r /\ \A q \in Proc : q # p => proc'[q] = proc[q]
  BY <1>2, <1>3
<1>5. proc' = [q \in Proc |-> proc'[q]]
  BY <1>1, <1>2
<1>6. \A q \in Proc : ProcInv(proc'[q])
  BY <1>4 DEF LoadInv
<1>7. "daemon" \in Proc
  BY DEF Proc
<1>8. DaemonInv(proc'["daemon"], file')
  BY <1>4, <1>7 DEF LoadInv
<1>9. text' = text /\ perms' = perms
  BY DEF disk
<1> QED
  BY <1>5, <1>6, <1>8, <1>9 DEF LoadInv

\* conf_load() returns NULL.
LEMMA RefuseKeeps ==
    ASSUME LoadInv, NEW p \in Proc, NEW diag, NEW top, NEW out \in {"denied", "refused"},
           Refuse(p, diag, top, out), UNCHANGED <<disk, file, iface>>,
           proc[p].phase \in {"open", "parse", "check"},
           out = "refused" /\ ~instance_only(proc[p].cmd) => ~Accepts(top)
    PROVE  LoadInv'
<1> DEFINE old == proc[p]
           r == [old EXCEPT !.phase = IF old.cmd = "reload" THEN "run" ELSE "idle",
                            !.diag = diag, !.top = top, !.conf = NoConf, !.out = out]
<1>1. Set(p, r) /\ UNCHANGED disk /\ file' = file
  BY DEF Refuse
<1>2. ProcInv(old) /\ (p = "daemon" => DaemonInv(old, file))
  BY DEF LoadInv
<1>3. r = [old EXCEPT !.phase = IF old.cmd = "reload" THEN "run" ELSE "idle",
                      !.diag = diag, !.top = top, !.conf = NoConf, !.out = out]
  OBVIOUS
<1>4. old = [cmd |-> old.cmd, phase |-> old.phase, diag |-> old.diag, before |-> old.before, top |-> old.top,
             conf |-> old.conf, out |-> old.out] /\ old.before = 0
  BY <1>2 DEF ProcInv, IsProc
<1>5. old.phase \in {"open", "parse", "check"} /\ (out = "refused" /\ ~instance_only(old.cmd) => ~Accepts(top))
  OBVIOUS
<1> HIDE DEF r, old
<1>6. /\ IsProc(r) /\ r.cmd = old.cmd /\ r.before = 0 /\ r.top = top /\ r.out = out
      /\ r.phase = IF old.cmd = "reload" THEN "run" ELSE "idle"
  BY <1>3, <1>4 DEF IsProc
<1>7. r.phase \in {"run", "idle"}
  BY <1>6
<1>8. ProcInv(r)
  BY <1>5, <1>6, <1>7 DEF ProcInv
<1>9. p = "daemon" => DaemonInv(r, file')
  BY <1>1, <1>2, <1>5, <1>6, <1>7 DEF DaemonInv
<1> QED
  BY <1>1, <1>2, <1>8, <1>9, SetKeeps

\* A command begins.
LEMMA StartKeeps ==
    ASSUME LoadInv, NEW p \in Proc, NEW cmd, Start(p, cmd), p = "daemon" => cmd = "attach"
    PROVE  LoadInv'
<1> DEFINE r == [Idle EXCEPT !.cmd = cmd, !.phase = "open"]
<1>1. Set(p, r) /\ UNCHANGED disk /\ file' = file /\ proc[p].phase = "idle"
  BY DEF Start
<1>2. ProcInv(r)
  BY IdleInv
<1>3. r = [Idle EXCEPT !.cmd = cmd, !.phase = "open"]
  OBVIOUS
<1> HIDE DEF r
<1>4. r.cmd = cmd /\ r.phase = "open"
  BY <1>3 DEF Idle
<1>5. p = "daemon" => DaemonInv(proc[p], file)
  BY DEF LoadInv
<1>6. p = "daemon" => DaemonInv(r, file')
  BY <1>1, <1>4, <1>5 DEF DaemonInv
<1> QED
  BY <1>1, <1>2, <1>6, SetKeeps

\* A reload begins with empty diagnostics.
LEMMA ReloadKeeps ==
    ASSUME LoadInv, HandleReload
    PROVE  LoadInv'
<1> DEFINE r == [Idle EXCEPT !.cmd = "reload", !.phase = "open"]
<1>0. "daemon" \in Proc
  BY DEF Proc
<1>1. Set("daemon", r) /\ UNCHANGED disk /\ file' = file
  BY DEF HandleReload
<1>2. ProcInv(r)
  BY IdleInv
<1>3. r = [Idle EXCEPT !.cmd = "reload", !.phase = "open"]
  OBVIOUS
<1> HIDE DEF r
<1>4. r.cmd = "reload" /\ r.phase = "open"
  BY <1>3 DEF Idle
<1>5. DaemonInv(r, file')
  BY <1>0, <1>1, <1>4 DEF DaemonInv, LoadInv
<1> QED
  BY <1>0, <1>1, <1>2, <1>5, SetKeeps

\* open_conf_file().
LEMMA OpenKeeps ==
    ASSUME LoadInv, NEW p \in Proc, OpenConfFile(p)
    PROVE  LoadInv'
<1>1. proc[p].phase = "open" /\ UNCHANGED <<disk, file, iface>>
  BY DEF OpenConfFile
<1>2. CASE text = NoFile \/ (enforce_perms(proc[p].cmd) /\ "writable" \in perms)
  <2>1. Refuse(p, diag_append(proc[p].diag, 1, 0), NoConf, "denied")
    BY <1>2, Zenon DEF OpenConfFile
  <2> QED
    BY <1>1, <2>1, RefuseKeeps
<1>3. CASE ~(text = NoFile \/ (enforce_perms(proc[p].cmd) /\ "writable" \in perms))
  <2> DEFINE old == proc[p]
             n == Cardinality(perms)
             diag == diag_append(old.diag, 0, n)
             r == [old EXCEPT !.phase = "parse", !.top = text, !.diag = diag]
  <2>1. Set(p, r) /\ UNCHANGED disk /\ file' = file
    BY <1>1, <1>3 DEF OpenConfFile
  <2>2. n \in Nat
    <3>1. \A a : IsFiniteSet({a})
      BY FS_Singleton
    <3>2. IsFiniteSet({"writable"} \cup {"readable"})
      BY <3>1, FS_Union
    <3>3. perms \subseteq {"writable"} \cup {"readable"}
      BY DEF LoadInv
    <3> QED
      BY <3>2, <3>3, FS_Subset, FS_CardinalityType
  <2>3. ProcInv(old) /\ text \in Texts /\ (p = "daemon" => DaemonInv(old, file)) /\ old.phase = "open"
    BY <1>1 DEF LoadInv
  <2>4. /\ old = [cmd |-> old.cmd, phase |-> old.phase, diag |-> old.diag, before |-> old.before,
                  top |-> old.top, conf |-> old.conf, out |-> old.out]
        /\ old.before = 0 /\ old.diag.count = 0 /\ old.diag.warn_count \in Nat /\ old.out = "none"
    BY <2>3 DEF ProcInv, IsProc
  <2>5. diag.count = 0 /\ diag.warn_count \in Nat
    BY <2>2, <2>4, DiagAppended
  <2>6. r = [old EXCEPT !.phase = "parse", !.top = text, !.diag = diag]
    OBVIOUS
  <2> HIDE DEF r, old, diag
  <2>7. /\ IsProc(r) /\ r.cmd = old.cmd /\ r.before = 0 /\ r.top = text /\ r.out = "none"
        /\ r.phase = "parse" /\ r.diag = diag
    BY <2>4, <2>6 DEF IsProc
  <2>8. ProcInv(r)
    BY <2>3, <2>5, <2>7 DEF ProcInv
  <2>9. p = "daemon" => DaemonInv(r, file')
    BY <2>1, <2>3, <2>7 DEF DaemonInv
  <2> QED
    BY <2>1, <2>8, <2>9, SetKeeps
<1> QED
  BY <1>2, <1>3

\* Memory runs out.
LEMMA MemoryKeeps ==
    ASSUME LoadInv, NEW p \in Proc, OutOfMemory(p)
    PROVE  LoadInv'
<1>1. /\ proc[p].phase = "parse" /\ UNCHANGED <<disk, file, iface>>
      /\ Refuse(p, diag_append(proc[p].diag, 1, 0), NoConf, "denied")
  BY DEF OutOfMemory
<1> QED
  BY <1>1, RefuseKeeps

\* toml_parse_file() and the parsers.
LEMMA ParseKeeps ==
    ASSUME LoadInv, NEW p \in Proc, Parse(p)
    PROVE  LoadInv'
<1> DEFINE old == proc[p]
           only == instance_only(old.cmd)
<1>1. PICK top \in {old.top, text} \ {NoFile} :
         LET parsed == ParseSections(top, only)
             diag == diag_append(old.diag, IF top = Wrong THEN 1 ELSE parsed.errs, 0)
         IN /\ old.phase = "parse"
            /\ IF top = Wrong \/ diag.count # old.before
               THEN Refuse(p, diag, top, "refused")
               ELSE Set(p, [old EXCEPT !.phase = IF only THEN "loaded" ELSE "check",
                                       !.diag = diag, !.top = top, !.conf = parsed.val,
                                       !.out = IF only THEN "loaded" ELSE "none"])
            /\ UNCHANGED <<disk, file, iface>>
  BY Zenon DEF Parse
<1> DEFINE parsed == ParseSections(top, only)
           errs == IF top = Wrong THEN 1 ELSE parsed.errs
           diag == diag_append(old.diag, errs, 0)
           r == [old EXCEPT !.phase = IF only THEN "loaded" ELSE "check",
                            !.diag = diag, !.top = top, !.conf = parsed.val,
                            !.out = IF only THEN "loaded" ELSE "none"]
<1>2. old.phase = "parse" /\ UNCHANGED <<disk, file, iface>>
  BY <1>1
<1>3. IF top = Wrong \/ diag.count # old.before THEN Refuse(p, diag, top, "refused") ELSE Set(p, r)
  BY <1>1
<1>4. ProcInv(old) /\ text \in Texts /\ (p = "daemon" => DaemonInv(old, file))
  BY DEF LoadInv
<1>5. /\ old = [cmd |-> old.cmd, phase |-> old.phase, diag |-> old.diag, before |-> old.before,
                top |-> old.top, conf |-> old.conf, out |-> old.out]
      /\ old.before = 0 /\ old.diag.count = 0 /\ old.diag.warn_count \in Nat /\ old.top \in Texts
  BY <1>2, <1>4 DEF ProcInv, IsProc
<1>6. top \in Texts /\ top # NoFile
  BY <1>4, <1>5
<1>7. top # Wrong => IsText(top) /\ IsToml(top)
  BY <1>6, TextIsToml DEF IsText
<1>8. only \in BOOLEAN
  BY DEF instance_only
<1>9. errs \in Nat
  <2>1. CASE top = Wrong
    BY <2>1
  <2>2. CASE top # Wrong /\ only
    <3>1. parsed.errs = parse_instance(top).errs
      BY <2>2 DEF ParseSections
    <3> QED
      BY <1>7, <2>2, <3>1, InstanceRead
  <2>3. CASE top # Wrong /\ ~only
    <3>1. only = FALSE
      BY <1>8, <2>3
    <3>2. parsed = ParseSections(top, FALSE)
      BY <3>1
    <3> QED
      BY <1>7, <2>3, <3>2, FileRead
  <2> QED
    BY <2>1, <2>2, <2>3
<1>10. (diag.count = 0 <=> errs = 0) /\ diag.warn_count \in Nat
  <2> HIDE DEF errs, old
  <2> QED
    BY <1>5, <1>9, DiagAppended
<1>11. CASE top = Wrong \/ diag.count # old.before
  <2>1. Refuse(p, diag, top, "refused")
    BY <1>3, <1>11
  <2>2. ASSUME ~only, Accepts(top) PROVE FALSE
    <3>1. top # Wrong /\ Read(top).errs = 0
      BY <2>2 DEF Accepts
    <3>2. only = FALSE
      BY <1>8, <2>2
    <3>3. errs = 0
      BY <3>1, <3>2 DEF Read
    <3> QED
      BY <1>5, <1>10, <1>11, <3>1, <3>3
  <2> HIDE DEF diag
  <2> QED
    BY <1>2, <2>1, <2>2, RefuseKeeps
<1>12. CASE ~(top = Wrong \/ diag.count # old.before)
  <2>1. Set(p, r) /\ UNCHANGED disk /\ file' = file
    BY <1>2, <1>3, <1>12
  <2>2. r = [old EXCEPT !.phase = IF only THEN "loaded" ELSE "check",
                        !.diag = diag, !.top = top, !.conf = parsed.val,
                        !.out = IF only THEN "loaded" ELSE "none"]
    OBVIOUS
  <2>3. errs = 0 /\ diag.count = 0
    BY <1>5, <1>10, <1>12
  <2>4. IsText(top)
    BY <1>7, <1>12
  <2>5. ~only => parsed = Read(top) /\ Read(top).errs = 0
    <3> SUFFICES ASSUME ~only PROVE parsed = Read(top) /\ Read(top).errs = 0
      OBVIOUS
    <3>1. only = FALSE
      BY <1>8
    <3>2. parsed = Read(top)
      BY <3>1 DEF Read
    <3> QED
      BY <1>12, <2>3, <3>2
  <2>6. only <=> instance_only(old.cmd)
    OBVIOUS
  <2> HIDE DEF r, old, diag, parsed, only, errs
  <2>7. /\ IsProc(r) /\ r.cmd = old.cmd /\ r.before = 0 /\ r.top = top /\ r.conf = parsed.val
        /\ r.phase = (IF only THEN "loaded" ELSE "check") /\ r.diag = diag
        /\ r.out = IF only THEN "loaded" ELSE "none"
    BY <1>5, <2>2 DEF IsProc
  <2>8. ProcInv(r)
    <3>1. CASE only
      <4>1. r.phase = "loaded" /\ r.out = "loaded" /\ instance_only(r.cmd)
        BY <2>6, <2>7, <3>1
      <4> QED
        BY <1>10, <2>3, <2>7, <4>1 DEF ProcInv
    <3>2. CASE ~only
      <4>1. r.phase = "check" /\ r.out = "none" /\ ~instance_only(r.cmd)
        BY <2>6, <2>7, <3>2
      <4>2. r.conf = Read(top).val /\ Read(top).errs = 0
        BY <2>5, <2>7, <3>2
      <4> QED
        BY <1>10, <2>3, <2>4, <2>7, <4>1, <4>2 DEF ProcInv
    <3> QED
      BY <3>1, <3>2
  <2>9. p = "daemon" => DaemonInv(r, file')
    <3>1. r.phase \in {"loaded", "check"}
      BY <2>7
    <3> QED
      BY <1>2, <1>4, <2>1, <2>7, <3>1 DEF DaemonInv
  <2> QED
    BY <2>1, <2>8, <2>9, SetKeeps
<1> QED
  BY <1>11, <1>12

\* conf_check().
LEMMA CheckKeeps ==
    ASSUME LoadInv, NEW p \in Proc, ConfCheck(p)
    PROVE  LoadInv'
<1> DEFINE old == proc[p]
           c == Read(old.top).val
           checked == conf_check(old.conf, host)
           diag == diag_append(old.diag, checked.errs, checked.warns)
           r == [old EXCEPT !.phase = "loaded", !.diag = diag, !.conf = checked.val, !.out = "loaded"]
<1>1. /\ old.phase = "check" /\ UNCHANGED <<disk, file, iface>>
      /\ IF diag.count # old.diag.count THEN Refuse(p, diag, old.top, "refused") ELSE Set(p, r)
  BY Zenon DEF ConfCheck
<1>2. ProcInv(old) /\ (p = "daemon" => DaemonInv(old, file))
  BY DEF LoadInv
<1>3. /\ old = [cmd |-> old.cmd, phase |-> old.phase, diag |-> old.diag, before |-> old.before,
                top |-> old.top, conf |-> old.conf, out |-> old.out]
      /\ old.before = 0 /\ old.diag.count = 0 /\ old.diag.warn_count \in Nat /\ IsText(old.top)
      /\ ~instance_only(old.cmd) /\ old.conf = c /\ Read(old.top).errs = 0
  BY <1>1, <1>2 DEF ProcInv, IsProc
<1>4. IsConf(c) /\ ConfOf(old.top, c)
  <2>1. IsToml(old.top)
    BY <1>3, TextIsToml
  <2> QED
    BY <1>3, <2>1, FileRead DEF Read
<1>5. /\ checked.val = Completed(c) /\ checked.errs \in Nat /\ checked.warns \in Nat
      /\ checked.errs = 0 => ConfFine(c)
      /\ checked.warns = 0 => ConfQuiet(c)
      /\ checked.errs = conf_check(c, {}).errs
  <2> HIDE DEF c
  <2> QED
    BY <1>3, <1>4, ConfChecked
<1>6. /\ diag.count = 0 <=> checked.errs = 0
      /\ diag.warn_count \in Nat /\ (diag.warn_count = 0 => checked.warns = 0)
  <2> HIDE DEF checked, old
  <2> QED
    BY <1>3, <1>5, DiagAppended
<1>7. Accepts(old.top) <=> checked.errs = 0
  <2>1. old.top # Wrong
    BY <1>3 DEF IsText
  <2> QED
    BY <1>3, <1>5, <2>1 DEF Accepts
<1>8. CASE diag.count # old.diag.count
  <2>1. Refuse(p, diag, old.top, "refused") /\ ~Accepts(old.top)
    BY <1>1, <1>3, <1>6, <1>7, <1>8
  <2> HIDE DEF diag
  <2> QED
    BY <1>1, <2>1, RefuseKeeps
<1>9. CASE diag.count = old.diag.count
  <2>1. Set(p, r) /\ UNCHANGED disk /\ file' = file
    BY <1>1, <1>9
  <2>2. checked.errs = 0 /\ diag.count = 0
    BY <1>3, <1>6, <1>9
  <2>3. Good(old.top, c) /\ Accepts(old.top)
    BY <1>4, <1>5, <1>7, <2>2 DEF Good
  <2>4. r = [old EXCEPT !.phase = "loaded", !.diag = diag, !.conf = checked.val, !.out = "loaded"]
    OBVIOUS
  <2> HIDE DEF r, old, diag, checked
  <2>5. /\ IsProc(r) /\ r.cmd = old.cmd /\ r.before = 0 /\ r.top = old.top /\ r.conf = checked.val
        /\ r.phase = "loaded" /\ r.diag = diag /\ r.out = "loaded"
    BY <1>3, <2>4 DEF IsProc
  <2>6. LoadedInv(r)
    BY <1>3, <1>5, <1>6, <2>3, <2>5 DEF LoadedInv
  <2>7. ProcInv(r)
    BY <1>6, <2>2, <2>3, <2>5, <2>6 DEF ProcInv
  <2>8. p = "daemon" => DaemonInv(r, file')
    BY <1>1, <1>2, <2>1, <2>5 DEF DaemonInv
  <2> QED
    BY <2>1, <2>7, <2>8, SetKeeps
<1> QED
  BY <1>8, <1>9

\* A process that lets go of what it loaded.
LEMMA ReleaseKeeps ==
    ASSUME LoadInv, NEW p \in Proc, NEW ph \in {"idle", "run"},
           Set(p, [proc[p] EXCEPT !.phase = ph, !.conf = NoConf]), UNCHANGED disk,
           IF p = "daemon" THEN /\ proc[p].cmd # "none" /\ (ph = "idle" => file' = NoConf)
                                /\ file' # NoConf => UniqueIds(file')
           ELSE file' = file
    PROVE  LoadInv'
<1> DEFINE old == proc[p]
           r == [old EXCEPT !.phase = ph, !.conf = NoConf]
<1>1. Set(p, r) /\ ProcInv(old) /\ (p = "daemon" => DaemonInv(old, file))
  BY DEF LoadInv
<1>2. /\ old = [cmd |-> old.cmd, phase |-> old.phase, diag |-> old.diag, before |-> old.before,
                top |-> old.top, conf |-> old.conf, out |-> old.out]
      /\ old.before = 0
      /\ ~instance_only(old.cmd) => /\ old.out = "loaded" => Accepts(old.top)
                                    /\ old.out = "refused" => ~Accepts(old.top)
  BY <1>1 DEF ProcInv, IsProc
<1>3. r = [old EXCEPT !.phase = ph, !.conf = NoConf]
  OBVIOUS
<1>4. p = "daemon" => /\ old.cmd # "none" /\ (ph = "idle" => file' = NoConf)
                      /\ file' # NoConf => UniqueIds(file')
  OBVIOUS
<1>5. p # "daemon" => file' = file
  OBVIOUS
<1> HIDE DEF r, old
<1>6. /\ IsProc(r) /\ r.cmd = old.cmd /\ r.before = 0 /\ r.top = old.top /\ r.out = old.out
      /\ r.phase = ph
  BY <1>2, <1>3 DEF IsProc
<1>7. ProcInv(r)
  BY <1>2, <1>6 DEF ProcInv
<1>8. p = "daemon" => DaemonInv(r, file')
  BY <1>1, <1>4, <1>6 DEF DaemonInv
<1> QED
  BY <1>1, <1>5, <1>7, <1>8, SetKeeps

\* The backends of a loaded file have an id each.
LEMMA LoadedUnique ==
    ASSUME NEW r, LoadedInv(r)
    PROVE  UniqueIds(r.conf) /\ IsFiniteSet(DOMAIN r.conf.backends)
<1> DEFINE c == Read(r.top).val
<1>1. r.conf = Completed(c) /\ Good(r.top, c)
  BY DEF LoadedInv
<1> HIDE DEF c
<1>2. DOMAIN r.conf.backends = DOMAIN c.backends
  BY <1>1, CompletedIs DEF Good
<1>3. \A i \in DOMAIN c.backends : r.conf.backends[i].id = c.backends[i].id
  BY <1>1, BackendsCompleted
<1>4. BackendsFine(c) /\ IsFiniteSet(DOMAIN c.backends)
  BY <1>1 DEF Good, ConfFine, IsConf, IsList
<1> QED
  BY <1>2, <1>3, <1>4 DEF BackendsFine, UniqueIds

\* conf_check_against_previous().
LEMMA AgainstKeeps ==
    ASSUME LoadInv, CheckAgainst
    PROVE  LoadInv'
<1> DEFINE old == proc["daemon"]
           errs == conf_check_against_previous(old.conf, file)
           diag == diag_append(old.diag, errs, 0)
           away == [old EXCEPT !.phase = "run", !.diag = diag, !.conf = NoConf]
           on == [old EXCEPT !.phase = "apply", !.diag = diag]
           r == IF diag.count # old.diag.count THEN away ELSE on
<1>1. "daemon" \in Proc
  BY DEF Proc
<1>2. old.phase = "loaded" /\ old.cmd = "reload" /\ UNCHANGED <<disk, file, iface>> /\ Set("daemon", r)
  BY Zenon DEF CheckAgainst
<1>3. ProcInv(old) /\ DaemonInv(old, file)
  BY <1>1 DEF LoadInv
<1>4. ~instance_only(old.cmd)
  BY <1>2 DEF instance_only
<1>5. /\ old = [cmd |-> old.cmd, phase |-> old.phase, diag |-> old.diag, before |-> old.before,
                top |-> old.top, conf |-> old.conf, out |-> old.out]
      /\ old.before = 0 /\ old.diag.count = 0 /\ old.diag.warn_count \in Nat
      /\ old.out = "loaded" => Accepts(old.top)
      /\ old.out = "refused" => ~Accepts(old.top)
      /\ LoadedInv(old)
  BY <1>2, <1>3, <1>4 DEF ProcInv, IsProc
<1>6. UniqueIds(old.conf) /\ IsFiniteSet(DOMAIN old.conf.backends)
  BY <1>5, LoadedUnique
<1>7. errs \in Nat
  BY <1>6, PreviousChecked
<1>8. (diag.count = 0 <=> errs = 0) /\ diag.warn_count \in Nat
  <2> HIDE DEF errs, old
  <2> QED
    BY <1>5, <1>7, DiagAppended
<1>9. errs = conf_check_against_previous(old.conf, file) /\ file' = file
  BY <1>2
<1>10. CASE diag.count # old.diag.count
  <2>1. r = [old EXCEPT !.phase = "run", !.diag = diag, !.conf = NoConf]
    BY <1>10
  <2> HIDE DEF r, old, diag, errs
  <2>2. /\ IsProc(r) /\ r.cmd = old.cmd /\ r.before = 0 /\ r.top = old.top /\ r.out = old.out
        /\ r.phase = "run"
    BY <1>5, <2>1 DEF IsProc
  <2>3. ProcInv(r) /\ DaemonInv(r, file')
    BY <1>2, <1>3, <1>5, <2>2 DEF ProcInv, DaemonInv
  <2> QED
    BY <1>1, <1>2, <2>3, SetKeeps
<1>11. CASE diag.count = old.diag.count
  <2>1. r = [old EXCEPT !.phase = "apply", !.diag = diag]
    BY <1>11
  <2> HIDE DEF r, old, diag, errs
  <2>2. /\ IsProc(r) /\ r.cmd = old.cmd /\ r.before = 0 /\ r.top = old.top /\ r.out = old.out
        /\ r.phase = "apply" /\ r.diag = diag /\ r.conf = old.conf
    BY <1>5, <2>1 DEF IsProc
  <2>3. diag.count = 0 /\ errs = 0
    BY <1>5, <1>8, <1>11
  <2>4. ProcInv(r)
    BY <1>5, <1>8, <2>2, <2>3 DEF ProcInv
  <2>5. DaemonInv(r, file')
    BY <1>2, <1>3, <1>6, <1>9, <2>2, <2>3 DEF DaemonInv
  <2> QED
    BY <1>1, <1>2, <2>4, <2>5, SetKeeps
<1> QED
  BY <1>10, <1>11

\* Every step keeps the invariant.
LEMMA StepKeeps ==
    ASSUME LoadInv, [Next]_vars
    PROVE  LoadInv'
<1>0. "daemon" \in Proc /\ "tool" \in Proc /\ DaemonInv(proc["daemon"], file)
  BY DEF Proc, LoadInv
<1>1. CASE Start("daemon", "attach")
  BY <1>0, <1>1, StartKeeps
<1>2. CASE HandleReload
  BY <1>2, ReloadKeeps
<1>3. ASSUME NEW cmd \in {"check", "status", "version"}, Start("tool", cmd) PROVE LoadInv'
  BY <1>0, <1>3, StartKeeps
<1>4. ASSUME NEW p \in Proc, OpenConfFile(p) \/ Parse(p) \/ OutOfMemory(p) \/ ConfCheck(p) \/ Finish(p)
      PROVE  LoadInv'
  <2>1. CASE Finish(p)
    <3>1. /\ proc[p].phase = "loaded" /\ proc[p].cmd \in {"check", "version", "status"}
          /\ Set(p, [proc[p] EXCEPT !.phase = "idle", !.conf = NoConf]) /\ UNCHANGED <<disk, file, iface>>
      BY <2>1 DEF Finish
    <3>2. p # "daemon"
      BY <1>0, <3>1 DEF DaemonInv
    <3>3. "idle" \in {"idle", "run"}
      OBVIOUS
    <3> QED
      BY <3>1, <3>2, <3>3, ReleaseKeeps
  <2> QED
    BY <1>4, <2>1, OpenKeeps, ParseKeeps, MemoryKeeps, CheckKeeps
<1>5. CASE Attach
  <2>1. /\ proc["daemon"].phase = "loaded" /\ proc["daemon"].cmd = "attach" /\ UNCHANGED disk
        /\ Set("daemon", [proc["daemon"] EXCEPT !.phase = "run", !.conf = NoConf])
        /\ file' = proc["daemon"].conf
    BY <1>5 DEF Attach
  <2>2. "run" \in {"idle", "run"} /\ "run" # "idle" /\ "attach" # "none"
    OBVIOUS
  <2>3. LoadedInv(proc["daemon"])
    <3>1. ProcInv(proc["daemon"]) /\ ~instance_only(proc["daemon"].cmd)
      BY <1>0, <2>1 DEF LoadInv, instance_only
    <3> QED
      BY <2>1, <3>1 DEF ProcInv
  <2>4. UniqueIds(file')
    BY <2>1, <2>3, LoadedUnique
  <2> QED
    BY <1>0, <2>1, <2>2, <2>4, ReleaseKeeps
<1>6. CASE AttachFails
  <2>1. /\ proc["daemon"].phase = "loaded" /\ proc["daemon"].cmd = "attach" /\ UNCHANGED disk /\ file' = file
        /\ Set("daemon", [proc["daemon"] EXCEPT !.phase = "idle", !.conf = NoConf])
    BY <1>6 DEF AttachFails
  <2>2. file' = NoConf
    BY <1>0, <2>1 DEF DaemonInv
  <2>3. "idle" \in {"idle", "run"} /\ "attach" # "none"
    OBVIOUS
  <2> QED
    BY <1>0, <2>1, <2>2, <2>3, ReleaseKeeps
<1>7. CASE CheckAgainst
  BY <1>7, AgainstKeeps
<1>8. CASE Apply \/ ApplyFails
  <2>1. /\ proc["daemon"].phase = "apply" /\ UNCHANGED disk
        /\ Set("daemon", [proc["daemon"] EXCEPT !.phase = "run", !.conf = NoConf])
    BY <1>8 DEF Apply, ApplyFails
  <2>2. proc["daemon"].cmd # "none" /\ (file' # NoConf => UniqueIds(file'))
    BY <1>0, <1>8, <2>1 DEF DaemonInv, Apply, ApplyFails
  <2>3. "run" \in {"idle", "run"} /\ "run" # "idle"
    OBVIOUS
  <2> QED
    BY <1>0, <2>1, <2>2, <2>3, ReleaseKeeps
<1>9. CASE Stop
  <2>1. file' = NoConf /\ Set("daemon", Idle) /\ UNCHANGED disk
    BY <1>9 DEF Stop
  <2>2. Idle.cmd = "none" /\ Idle.phase = "idle"
    BY DEF Idle
  <2>3. ProcInv(Idle)
    BY NothingInv
  <2>4. DaemonInv(Idle, file')
    BY <2>1, <2>2 DEF DaemonInv
  <2> QED
    BY <1>0, <2>1, <2>3, <2>4, SetKeeps
<1>10. CASE Edit \/ Chmod \/ Link
  <2>1. proc' = proc /\ file' = file
    BY <1>10 DEF Edit, Chmod, Link, Change
  <2>2. text' \in Texts
    BY <1>10 DEF Edit, Chmod, Link, Texts, LoadInv
  <2>3. perms' \in SUBSET {"writable", "readable"}
    BY <1>10 DEF Edit, Chmod, Link, LoadInv
  <2> QED
    BY <2>1, <2>2, <2>3 DEF LoadInv
<1>11. CASE UNCHANGED vars
  BY <1>11 DEF vars, LoadInv
<1> QED
  BY <1>1, <1>2, <1>3, <1>4, <1>5, <1>6, <1>7, <1>8, <1>9, <1>10, <1>11 DEF Next

\* In every reachable state a process has reported nothing on its way, what it holds was
\* made of a text of the file, and how its conf_load() ended is what that text deserves.
THEOREM LoadInvariant == Spec => []LoadInv
<1>1. Init => LoadInv
  <2> SUFFICES ASSUME Init PROVE LoadInv
    OBVIOUS
  <2>1. /\ text \in Texts /\ perms \in SUBSET {"writable", "readable"} /\ file = NoConf
        /\ proc = [p \in Proc |-> Idle]
    BY DEF Init, Texts
  <2>2. ProcInv(Idle)
    BY NothingInv
  <2>3. DaemonInv(Idle, NoConf)
    <3>1. Idle.cmd = "none" /\ Idle.phase = "idle"
      BY DEF Idle
    <3> QED
      BY <3>1 DEF DaemonInv
  <2>4. "daemon" \in Proc /\ \A p \in Proc : proc[p] = Idle
    BY <2>1 DEF Proc
  <2> QED
    BY <2>1, <2>2, <2>3, <2>4 DEF LoadInv
<1>2. LoadInv /\ [Next]_vars => LoadInv'
  BY StepKeeps
<1> QED
  BY <1>1, <1>2, PTL DEF Spec

\* A configuration that was accepted is one the invariant speaks of.
LEMMA AcceptedGood ==
    ASSUME LoadInv, NEW p \in Proc, Loaded(p)
    PROVE  LET top == proc[p].top
               c == Read(top).val
           IN /\ Good(top, c) /\ proc[p].conf = Completed(c)
              /\ proc[p].diag.warn_count = 0 => ConfQuiet(c)
<1>1. ProcInv(proc[p])
  BY DEF LoadInv
<1>2. LoadedInv(proc[p])
  BY <1>1 DEF ProcInv, Loaded
<1> QED
  BY <1>2 DEF LoadedInv

\* What conf_load() returns can be served, for every file, every limit and however many
\* diagnostics there is room for: addresses distinct, complete and within vip_map, every
\* backend a slot, every member a backend, every tunnel its headers, every meter a refill.
THEOREM AcceptedServesTheorem == Spec => []AcceptedServes
<1>1. LoadInv => AcceptedServes
  <2> SUFFICES ASSUME LoadInv, NEW p \in Proc, Loaded(p) PROVE Serves(proc[p].conf)
    BY DEF AcceptedServes, Accepted
  <2> QED
    BY AcceptedGood, GoodServes
<1> QED
  BY <1>1, LoadInvariant, PTL

\* What conf_load() returns says what the file says, and no flag of one key leaks into
\* the next.
THEOREM AsStatedTheorem == Spec => []AsStated
<1>1. LoadInv => AsStated
  <2> SUFFICES ASSUME LoadInv, NEW p \in Proc, Loaded(p) PROVE Stated(proc[p].conf, proc[p].top)
    BY DEF AsStated
  <2> QED
    BY AcceptedGood, GoodStated
<1> QED
  BY <1>1, LoadInvariant, PTL

\* The addresses of an SCTP group in what conf_load() returns are hashed alike.
THEOREM GroupTogetherTheorem == Spec => []GroupTogether
<1>1. LoadInv => GroupTogether
  <2> SUFFICES ASSUME LoadInv, NEW p \in Proc, Loaded(p), NEW e \in DOMAIN proc[p].conf.vips,
                      NEW k \in Range(proc[p].conf.vips[e].keys), NEW m \in Range(proc[p].conf.vips[e].keys),
                      k.proto = "sctp"
               PROVE  HashInput(proc[p].conf.vips[e], k) = HashInput(proc[p].conf.vips[e], m)
    BY DEF GroupTogether, Accepted
  <2> DEFINE top == proc[p].top  c == Read(top).val
  <2>1. Good(top, c) /\ proc[p].conf = Completed(c)
    BY AcceptedGood
  <2> HIDE DEF top, c
  <2>2. e \in DOMAIN Completed(c).vips /\ k \in Range(Completed(c).vips[e].keys) /\ m \in Range(Completed(c).vips[e].keys)
    BY <2>1
  <2> QED
    BY <2>1, <2>2, GoodTogether
<1> QED
  BY <1>1, LoadInvariant, PTL

\* Rules of the ACL of what conf_load() returns that are written differently match
\* different addresses, for every length of address and of byte.
THEOREM NoRuleLostTheorem == Spec => []NoRuleLost
<1>1. LoadInv => NoRuleLost
  <2> SUFFICES ASSUME LoadInv, NEW p \in Proc, Loaded(p), NEW l \in Lists,
                      NEW i \in DOMAIN proc[p].conf.acl.list[l], NEW j \in DOMAIN proc[p].conf.acl.list[l]
               PROVE  LET rules == proc[p].conf.acl.list[l]
                      IN /\ Bits(rules[i]) = Bits(rules[j]) => rules[i] = rules[j]
                         /\ IsAllow(l) => Bits(rules[i]) # <<>>
    BY DEF NoRuleLost, Accepted
  <2> DEFINE top == proc[p].top  c == Read(top).val
  <2>1. Good(top, c) /\ proc[p].conf = Completed(c)
    BY AcceptedGood
  <2> HIDE DEF top, c
  <2>2. i \in DOMAIN Completed(c).acl.list[l] /\ j \in DOMAIN Completed(c).acl.list[l]
    BY <2>1
  <2> QED
    BY <2>1, <2>2, GoodLossless
<1> QED
  BY <1>1, LoadInvariant, PTL

\* A file that is loaded without a warning has no dead block rule, no VIP without a
\* backend that is up and no limiter that meters nothing.
THEOREM SilentMeansFineTheorem == Spec => []SilentMeansFine
<1>1. LoadInv => SilentMeansFine
  <2> SUFFICES ASSUME LoadInv, NEW p \in Proc, Loaded(p), proc[p].diag.warn_count = 0
               PROVE  Fine(proc[p].conf)
    BY DEF SilentMeansFine
  <2> QED
    BY AcceptedGood, GoodFine
<1> QED
  BY <1>1, LoadInvariant, PTL

\* --check and the daemon say the same of one text.
THEOREM CheckAgreesTheorem == Spec => []CheckAgrees
<1>1. LoadInv => CheckAgrees
  <2> SUFFICES ASSUME LoadInv, proc["tool"].cmd = "check", proc["tool"].out \in {"refused", "loaded"},
                      proc["daemon"].out \in {"refused", "loaded"}, proc["tool"].top = proc["daemon"].top
               PROVE  proc["tool"].out = proc["daemon"].out
    BY DEF CheckAgrees
  <2>1. ProcInv(proc["tool"]) /\ ProcInv(proc["daemon"]) /\ DaemonInv(proc["daemon"], file)
    BY DEF LoadInv, Proc
  <2>2. ~instance_only(proc["tool"].cmd) /\ ~instance_only(proc["daemon"].cmd)
    BY <2>1 DEF DaemonInv, instance_only
  <2>3. /\ proc["tool"].out = "loaded" <=> Accepts(proc["tool"].top)
        /\ proc["daemon"].out = "loaded" <=> Accepts(proc["daemon"].top)
    BY <2>1, <2>2 DEF ProcInv
  <2> QED
    BY <2>3
<1> QED
  BY <1>1, LoadInvariant, PTL

\* From one configuration in force to the next the daemon keeps its interface, object
\* and pin directory, and a backend that is in both its identity.
THEOREM IdentityStableTheorem == Spec => IdentityStable
<1> DEFINE Stable == file # NoConf /\ file' # NoConf =>
              /\ \A key \in {"iface", "object", "pin_dir"} : file'.instance[key] = file.instance[key]
              /\ \A b \in Range(file.backends), n \in Range(file'.backends) :
                    b.id = n.id => Identity(b) = Identity(n)
<1>1. LoadInv /\ [Next]_vars => [Stable]_vars
  <2> SUFFICES ASSUME LoadInv, Next PROVE Stable
    OBVIOUS
  <2>0. DaemonInv(proc["daemon"], file)
    BY DEF LoadInv
  <2>1. CASE file' = file
    <3> SUFFICES ASSUME file # NoConf, NEW b \in Range(file.backends), NEW n \in Range(file.backends), b.id = n.id
                 PROVE  Identity(b) = Identity(n)
      BY <2>1
    <3>1. PICK i \in DOMAIN file.backends : b = file.backends[i]
      BY DEF Range
    <3>2. PICK j \in DOMAIN file.backends : n = file.backends[j]
      BY DEF Range
    <3>3. i = j
      BY <2>0, <3>1, <3>2 DEF DaemonInv, UniqueIds
    <3> QED
      BY <3>1, <3>2, <3>3
  <2>2. CASE Attach
    <3>1. file = NoConf
      BY <2>0, <2>2 DEF Attach, DaemonInv
    <3> QED
      BY <3>1
  <2>3. CASE Apply
    <3>1. /\ file' = proc["daemon"].conf /\ IsFiniteSet(DOMAIN proc["daemon"].conf.backends)
          /\ conf_check_against_previous(proc["daemon"].conf, file) = 0
      BY <2>0, <2>3 DEF Apply, DaemonInv
    <3> QED
      BY <3>1, PreviousChecked
  <2>4. CASE Stop
    <3>1. file' = NoConf
      BY <2>4 DEF Stop
    <3> QED
      BY <3>1
  <2>5. file' = file \/ Attach \/ Apply \/ Stop
    BY DEF Next, Start, HandleReload, OpenConfFile, Parse, OutOfMemory, ConfCheck, Finish, AttachFails,
           CheckAgainst, ApplyFails, Edit, Chmod, Link, Change
  <2> QED
    BY <2>1, <2>2, <2>3, <2>4, <2>5
<1> QED
  BY <1>1, LoadInvariant, PTL DEF Spec, IdentityStable
=============================================================================
