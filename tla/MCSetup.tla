------------------------------ MODULE MCSetup ------------------------------
(* Four services, one config file and two secrets: postgres, garage (whose *)
(* garage.toml also stands for museum.yaml) and museum, which requires     *)
(* both, reference the first secret, and stalwart, which systemd starts at *)
(* boot, the second.                                                       *)
EXTENDS Setup

MCContainers == {"postgres", "garage", "museum", "stalwart"}
MCConfigFiles == {"garage.toml"}

CONSTANTS dbSecret, mailSecret

MCKeysOf == [c \in MCContainers |->
               IF c = "stalwart" THEN {mailSecret} ELSE {dbSecret}]
MCReadsOf == [c \in MCContainers |-> IF c = "garage" THEN {"garage.toml"} ELSE {}]
MCNeeds == [c \in MCContainers |->
              IF c = "museum" THEN {"postgres", "garage"} ELSE {}]

(* garage.container, garage.toml, museum.container, postgres.container and *)
(* stalwart.container, as sort.Strings puts them.                          *)
MCPosition == [f \in MCContainers \cup MCConfigFiles |->
                 CASE f = "garage" -> 1 [] f = "garage.toml" -> 2
                   [] f = "museum" -> 3 [] f = "postgres" -> 4 [] OTHER -> 5]
=============================================================================
