CONSTANTS
  files = files
  web = web
  m1 = m1
  m2 = m2
  m3 = m3
  read = read
  write = write
  fetch = fetch
  d1 = d1
  d2 = d2
  Servers = {files, web}
  Names = {read, write, fetch}
  Defs = {d1, d2}
  Mounts = {m1, m2, m3}
  ServerOf <- MCServerOf
  Offers <- MCOffers
  Clashing <- MCClashing
  Keepalive = {}
  Strict = {m1}
  Enabled = TRUE
  MaxAttempts = 1
  MaxNotes <- MCMaxNotes
  Environments = {{}}
SPECIFICATION Spec
INVARIANT SupervisorOwnsRecovery
CHECK_DEADLOCK FALSE
