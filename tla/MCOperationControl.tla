------------------------- MODULE MCOperationControl -------------------------
(***************************************************************************)
(* Documents for OperationControl: two aliases of a file beside the socket *)
(* path, a pattern tail, a command, and every way a document is refused.   *)
(***************************************************************************)
EXTENDS OperationControl

F(e, a, p, t) == [event |-> e, action |-> a, path |-> p, tail |-> t]
FileGroup(rules) == [EmptyGroup EXCEPT !.hasFile = TRUE, !.file = rules]
WithProcess(g, rules) == [g EXCEPT !.hasProcess = TRUE, !.process = rules]
Deny(c) == [action |-> "deny", cmd |-> c]
Allow(c) == [action |-> "allow", cmd |-> c]

MCStartupDocs ==
    { <<>>,
      <<[EmptyGroup EXCEPT !.scope = "self_task"]>>,
      <<[WithProcess(FileGroup({F("read", "deny", "a", ""), F("delete", "allow", "sock", "")}),
                     {Deny("ls")})
         EXCEPT !.hasNetwork = TRUE, !.network = "deny", !.fileDefault = "ask"]>>,
      <<FileGroup({F("read", "deny", "a", ""), F("read", "ask", "b", "")})>>,
      <<FileGroup({F("read", "deny", "a", ILLEGAL)})>>,
      <<EmptyGroup, EmptyGroup>> }

MCRequestDocs ==
    { <<>>,
      <<EmptyGroup>>,
      <<[EmptyGroup EXCEPT !.hasNetwork = TRUE, !.network = "allow"]>>,
      <<FileGroup({F("delete", "allow", "sock", "")})>>,
      <<FileGroup({F("delete", "allow", "a", ""), F("read", "ask", "b", ".so")})>>,
      <<FileGroup({F("read", "deny", "a", ""), F("read", "allow", "b", "")})>>,
      <<WithProcess(FileGroup({F("write", "allow", "a", "")}), {Deny("ls"), Allow("ls")})>>,
      <<WithProcess(FileGroup({F("write", "ask", "b", "")}), {Allow("ls")})>>,
      <<FileGroup({F("read", "allow", "a", ""), F("write", "allow", "a", ""),
                   F("delete", "allow", "a", "")})>>,
      <<[FileGroup({}) EXCEPT !.fileDefault = UNKNOWN]>>,
      <<WithProcess(EmptyGroup, {Deny("/bin/ls")})>> }
=============================================================================
