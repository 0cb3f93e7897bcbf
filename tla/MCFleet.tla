------------------------------ MODULE MCFleet ------------------------------
(***************************************************************************)
(* An instance of Fleet for TLC: an operator of robot r1, and somebody else*)
(* on the fabric who asks after both robots.                               *)
(***************************************************************************)
EXTENDS Fleet, TLC

CONSTANTS r1, r2, operator, desktop

Line(to, verb, body) == [to |-> to, verb |-> verb, body |-> body]

MCSlug == [n \in 0..MaxTakes |-> ToString(n)]

MCTyped ==
  { Line(Everyone, "status", <<>>),
    Line(r1, "mode", [value |-> "teleop"]),
    Line(r1, "config", [action |-> "rollback"]),
    Line(r1, "config", [action |-> "set", key |-> "severing", value |-> "odd"]),
    Line(r1, "config", [action |-> "set", key |-> "mode", value |-> "bad"]),
    Line(r1, "record", [dataset |-> "d1"]),
    Line(r1, "record", [dataset |-> "d1", action |-> "stop", episode |-> "0"]),
    Line(r1, "description", <<>>),
    Line(r1, "collect", [action |-> "stop", object |-> "cup"]),
    Line(r1, "pose", [action |-> "go", name |-> "board-9"]),
    Line(r1, "asset", <<>>) }

MCRaw ==
  { Line(Everyone, "status", <<>>),
    Line(Everyone, "record", [action |-> "start", dataset |-> "d1"]),
    Line(r2, "reboot", <<>>),
    Line(r1, "perception_debug", [enabled |-> "true", lease |-> "bad"]),
    Line(r1, "record", [dataset |-> "d1", action |-> "stop"]),
    Line(r1, "stop", <<>>) }
=============================================================================
