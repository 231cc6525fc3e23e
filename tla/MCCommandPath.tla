---------------------------- MODULE MCCommandPath ----------------------------
(* Calls for CommandPath, up to the lengths at which buffers end. *)
EXTENDS CommandPath

MCPong == <<"P", "O", "N", "G">>
Xs(n)  == [i \in 1..n |-> "X"]

Cmd(name) == <<Field("cmd", name)>>
Spi(tx, expect) ==
  Cmd("SPI_SEND_EXPECT") \o <<Field("tx", tx), Field("expect", expect)>>
Uart(tx, expect) ==
  Cmd("UART_SEND_EXPECT")
    \o <<Field("ch", "UART_CH1"), Field("tx", tx), Field("expect", expect), Field("timeout", 1000)>>
Pwm(freq, duty, timeout) ==
  Cmd("PWM_READ_WITH_TOLERANCE")
    \o <<Field("ch", "PWM_IN1"), Field("frequency", freq), Field("duty_cycle", duty),
         Field("freq_tol_pct", 10), Field("duty_tol_pp", 10), Field("timeout", timeout)>>

\* In the order of the cases: an answer in step, two that are its pieces, a longer
\* transfer, an empty one and one whose line is cut within expect; UART texts of
\* every kind; the longest PWM line with four digits of seq; the rest.
MCCalls == {
  Spi(Xs(4), MCPong), Spi(Xs(3), <<"P", "O", "N">>), Spi(Xs(1), <<"G">>), Spi(Xs(6), MCPong), Spi(<<>>, MCPong),
  Spi(Xs(81), <<"P", "O", "N", "X">>),
  Cmd("SPI_SEND_EXPECT"),
  Uart(Xs(4), MCPong), Uart(Xs(30), MCPong \o Xs(59)), Uart(Xs(1), MCPong \o Xs(59)),
  Pwm(100000, 100, 2000), Pwm(50, 2, 1000), Pwm(1000000, 100, 2000),
  Cmd("PWM_WRITE") \o <<Field("ch", "PWM_OUT1"), Field("frequency", 100), Field("duty_cycle", 50)>>,
  Cmd("GPIO_EXPECT") \o <<Field("ch", "DIO_IN1"), Field("val", 1), Field("timeout", 500)>>,
  Cmd("GPIO_READ") \o <<Field("ch", "DIO_IN1")>>,
  Cmd("GPIO_WRITE") \o <<Field("mode", "DIO_OUT2"), Field("ch", "DIO_OUT1"), Field("val", 1)>>,
  Cmd("UART_READ") \o <<Field("ch", "UART_CH1"), Field("timeout", 1000)>>,
  Cmd("PWM_READ") \o <<Field("ch", "PWM_IN1"), Field("timeout", 1000)>> }

\* The longest that fits, one of the same beginning that does not, one with a 0.
MCAnswers == {MCPong, MCPong \o <<"0", "X">>, MCPong \o Xs(59), MCPong \o Xs(60)}

\* No edges; and the longest number TLC has, with as many digits as 2^32 - 1.
MCMeasures == {[freq |-> 0, duty |-> 0], [freq |-> 2147483647, duty |-> 100]}
=============================================================================
