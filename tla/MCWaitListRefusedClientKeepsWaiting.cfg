CONSTANTS
  Players = {p1, p2, v, gm}
  Premium = {v}
  Privileged = {gm}
  MaxPlayers = 2
  NoPlayer = NoPlayer
SPECIFICATION WaitSpec
PROPERTY RefusedClientKeepsWaiting
