----------------------------- MODULE MCImageScan ----------------------------
(* An application in two versions, the newer of which is recommended, and an *)
(* image that is deployed without a tag, before and after it is pulled.      *)
EXTENDS ImageScan

MCImages == {[name |-> "app:1", id |-> "sha1"], [name |-> "app:2", id |-> "sha2"],
             [name |-> "web", id |-> ""], [name |-> "web:latest", id |-> "sha3"]}
MCFound == [n \in {"app:1", "app:2", "web", "web:latest"} |->
              CASE n = "app:1" -> "sha1" [] n = "app:2" -> "sha2" [] OTHER -> "sha3"]
MCVulnerabilities == [n \in DOMAIN MCFound |->
              CASE n = "app:1" -> {"cve1", "cve2"} [] n = "app:2" -> {"cve2"} [] OTHER -> {"cve1"}]
MCKey == [n \in DOMAIN MCFound |->
              CASE n \in {"app:1", "app:2"} -> "app" [] n = "web" -> "" [] OTHER -> "web"]
MCNewest == [n \in DOMAIN MCFound |-> IF n = "app:1" THEN "app:2" ELSE n]
=============================================================================
