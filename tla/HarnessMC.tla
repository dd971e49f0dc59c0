-------------------------------- MODULE HarnessMC --------------------------------
(* Two callers and an updater, contexts that meet every rule of both           *)
(* controllers, and configurations that switch each rule on and off.            *)
EXTENDS Harness

MCRequest ==
  {[role |-> "admin", path |-> <<"a", "b">>, method |-> "GET",
    headers |-> {"Content-Type"}, encodable |-> TRUE],
   [role |-> None, path |-> <<"a">>, method |-> None, headers |-> None, encodable |-> FALSE],
   [role |-> "guest", path |-> <<"b">>, method |-> "PURGE", headers |-> {}, encodable |-> TRUE]}

Off == [enabled |-> FALSE, allowed |-> {}, denied |-> {"admin"}, requireAuth |-> TRUE,
        default |-> "deny"]
Open == [enabled |-> TRUE, allowed |-> {}, denied |-> {"guest"}, requireAuth |-> FALSE,
         default |-> "allow"]
Closed == [enabled |-> TRUE, allowed |-> {"guest"}, denied |-> {}, requireAuth |-> TRUE,
           default |-> "allow"]

NoRules == [enabled |-> FALSE, required |-> {"X-Id"}, blocked |-> {<<"a">>}, methods |-> {},
            requireContentType |-> FALSE]
Paths == [enabled |-> TRUE, required |-> {}, blocked |-> {<<>>, <<"a", "b">>}, methods |-> {},
          requireContentType |-> TRUE]
Methods == [enabled |-> TRUE, required |-> {}, blocked |-> {<<"c">>}, methods |-> {"GET"},
            requireContentType |-> FALSE]

MCConfig ==
  {[auth |-> Off, compliance |-> Paths, audit |-> [enabled |-> TRUE]],
   [auth |-> Open, compliance |-> Methods, audit |-> [enabled |-> TRUE]],
   [auth |-> Closed, compliance |-> NoRules, audit |-> [enabled |-> FALSE]]}

================================================================================
