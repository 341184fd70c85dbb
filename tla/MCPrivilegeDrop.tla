--------------------------- MODULE MCPrivilegeDrop ---------------------------
EXTENDS PrivilegeDrop, PasswdFile

(* The host's account databases: every user but nobody has a group of     *)
(* its own name; staff is a group too large for getgrnam_r's buffer.     *)
MCUserIds == [n \in {"root", "mail", "nobody"} |->
                 CASE n = "root" -> 0 [] n = "mail" -> 8 [] OTHER -> 9]
MCGroupIds == [n \in {"root", "mail", "staff", "daemon"} |->
                 CASE n = "root" -> 0 [] n = "mail" -> 8 [] n = "staff" -> 50
                      [] OTHER -> 2]
====
